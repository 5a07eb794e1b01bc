-------------------------- MODULE VideoSplitProofs --------------------------
(***************************************************************************)
(* For every set of channels, addresses and GPUs: IndInv is an invariant   *)
(* of the registry and the stitches.  Each part of IndInv has a lemma of   *)
(* its own; the actions that do not touch its variables are one case.      *)
(***************************************************************************)
EXTENDS VideoSplit, FiniteSetTheorems, TLAPS

\* What Put, Drop, Readable and CatalogOf return.
LEMMA PutMap ==
  ASSUME NEW f, NEW c, NEW r
  PROVE  /\ DOMAIN Put(f, c, r) = DOMAIN f \cup {c}
         /\ Put(f, c, r)[c] = r
         /\ \A x \in DOMAIN f : x # c => Put(f, c, r)[x] = f[x]
BY DEF Put

LEMMA DropMap ==
  ASSUME NEW f, NEW c
  PROVE  /\ DOMAIN Drop(f, c) = DOMAIN f \ {c}
         /\ \A x \in DOMAIN f : x # c => Drop(f, c)[x] = f[x]
BY DEF Drop, Restrict

LEMMA ReadableMap ==
  ASSUME NEW f
  PROVE  /\ DOMAIN Readable(f) = {c \in DOMAIN f : f[c].group # {}}
         /\ \A c \in DOMAIN Readable(f) : Readable(f)[c] = f[c]
BY DEF Readable, Restrict

LEMMA EmptyMap ==
  /\ DOMAIN NoEntry = {}
  /\ DOMAIN Readable(NoEntry) = {}
  /\ \A R : Table(NoEntry, R)
<1>1. DOMAIN NoEntry = {}
  BY DEF NoEntry
<1>2. DOMAIN Readable(NoEntry) = {}
  BY <1>1, ReadableMap
<1>3. ASSUME NEW R PROVE NoEntry \in [{} -> R]
  BY DEF NoEntry
<1> QED
  BY <1>1, <1>2, <1>3 DEF Table

LEMMA PutTable ==
  ASSUME NEW f, NEW R, Table(f, R), NEW c \in Channels, NEW r \in R
  PROVE  Table(Put(f, c, r), R)
BY DEF Put, Table

LEMMA DropTable ==
  ASSUME NEW f, NEW R, Table(f, R), NEW c
  PROVE  Table(Drop(f, c), R)
BY DEF Drop, Restrict, Table

LEMMA ReadableTable ==
  ASSUME NEW f, NEW R, Table(f, R)
  PROVE  Table(Readable(f), R)
BY DEF Readable, Restrict, Table

LEMMA CatalogTable ==
  ASSUME NEW f, Table(f, Info)
  PROVE  Table(CatalogOf(f), Ids)
BY DEF CatalogOf, Table, Info

\* Stopping a stitch takes it off the map, gives its GPU back and touches the
\* state of its own id only, which it lowers if the channel is registered.
LEMMA StopFacts ==
  ASSUME TypeOK, NEW c \in DOMAIN running, StopStitch(c)
  PROVE  /\ running' = Drop(running, c)
         /\ gpuUse' = [gpuUse EXCEPT ![running[c].gpu] = @ - 1]
         /\ live' \in [Ids -> {0, 1}]
         /\ \A i \in Ids : i # running[c].id => live'[i] = live[i]
         /\ c \in DOMAIN infos => live'[running[c].id] = 0
<1>1. running[c].id \in Ids
  BY DEF TypeOK, Table, Stitch
<1>2. CASE c \in DOMAIN infos
  BY <1>1, <1>2 DEF StopStitch, TypeOK
<1>3. CASE c \notin DOMAIN infos /\ running[c].worker = "opening"
  BY <1>1, <1>3 DEF StopStitch, TypeOK
<1>4. CASE c \notin DOMAIN infos /\ running[c].worker # "opening"
  BY <1>1, <1>4 DEF StopStitch, TypeOK
<1> QED
  BY <1>2, <1>3, <1>4

\* An entry that Modify changes keeps its id and its type.
LEMMA ModifyFacts ==
  ASSUME TypeOK, NEW c \in Channels, NEW a \in Addrs, NEW r \in Requests,
         Modify(c, a, r)
  PROVE  /\ Table(infos', Info)
         /\ DOMAIN infos' = DOMAIN infos
         /\ \A d \in DOMAIN infos : /\ infos'[d].id = infos[d].id
                                    /\ d # c => infos'[d] = infos[d]
         /\ infos'[c].addr = a
<1> DEFINE e == [infos[c] EXCEPT !.addr = a, !.group = @ \cup r]
<1>1. c \in DOMAIN infos /\ infos' = [infos EXCEPT ![c].addr = a, ![c].group = @ \cup r]
  BY DEF Modify
<1>2. infos[c] \in Info
  BY <1>1 DEF TypeOK, Table
<1>3. infos[c].group \cup r \in SUBSET Positions
  BY <1>2 DEF Info, Positions
<1>4. e \in Info /\ e.id = infos[c].id /\ e.addr = a
  BY <1>2, <1>3 DEF Info
<1>5. infos' = [infos EXCEPT ![c] = e]
  BY <1>1, <1>2 DEF Info, TypeOK, Table
<1>6. DOMAIN infos' = DOMAIN infos /\ infos'[c] = e
      /\ \A d \in DOMAIN infos : d # c => infos'[d] = infos[d]
  BY <1>1, <1>5 DEF TypeOK, Table
<1>7. Table(infos', Info)
  BY <1>1, <1>4, <1>5 DEF TypeOK, Table
<1> QED
  BY <1>1, <1>4, <1>6, <1>7

-----------------------------------------------------------------------------
(* The counts of GPU use.                                                  *)

OnGpu(f, g) == {c \in DOMAIN f : f[c].gpu = g}

LEMMA OnGpuFinite ==
  ASSUME NEW f, DOMAIN f \subseteq Channels, NEW g
  PROVE  IsFiniteSet(OnGpu(f, g)) /\ Cardinality(OnGpu(f, g)) \in Nat
<1>1. IsFiniteSet(Channels)
  BY VideoSplitAssumption
<1>2. OnGpu(f, g) \subseteq Channels
  BY DEF OnGpu
<1> QED
  BY <1>1, <1>2, FS_Subset, FS_CardinalityType

\* One stitch more on a GPU counts one more there and nothing elsewhere.
LEMMA OnGpuPut ==
  ASSUME NEW f, DOMAIN f \subseteq Channels, NEW c \in Channels, c \notin DOMAIN f,
         NEW r, NEW g
  PROVE  Cardinality(OnGpu(Put(f, c, r), g)) =
           IF g = r.gpu THEN Cardinality(OnGpu(f, g)) + 1
                        ELSE Cardinality(OnGpu(f, g))
<1> DEFINE p == Put(f, c, r)
<1>1. DOMAIN p = DOMAIN f \cup {c} /\ p[c] = r /\ \A x \in DOMAIN f : p[x] = f[x]
  BY DEF Put
<1> HIDE DEF p
<1>2. CASE g = r.gpu
  <2>1. OnGpu(p, g) = OnGpu(f, g) \cup {c}
    BY <1>1, <1>2 DEF OnGpu
  <2>2. c \notin OnGpu(f, g)
    BY DEF OnGpu
  <2>3. Cardinality(OnGpu(p, g)) = Cardinality(OnGpu(f, g)) + 1
    BY <2>1, <2>2, OnGpuFinite, FS_AddElement
  <2> QED
    BY <1>2, <2>3 DEF p
<1>3. CASE g # r.gpu
  <2>1. OnGpu(p, g) = OnGpu(f, g)
    BY <1>1, <1>3 DEF OnGpu
  <2> QED
    BY <1>3, <2>1 DEF p
<1> QED
  BY <1>2, <1>3

\* One stitch less on a GPU that had one counts one less there.
LEMMA OnGpuDrop ==
  ASSUME NEW f, DOMAIN f \subseteq Channels, NEW c \in DOMAIN f, NEW g
  PROVE  IF g = f[c].gpu
           THEN /\ Cardinality(OnGpu(Drop(f, c), g)) = Cardinality(OnGpu(f, g)) - 1
                /\ Cardinality(OnGpu(f, g)) >= 1
           ELSE Cardinality(OnGpu(Drop(f, c), g)) = Cardinality(OnGpu(f, g))
<1> DEFINE p == Drop(f, c)
<1>1. DOMAIN p = DOMAIN f \ {c} /\ \A x \in DOMAIN p : p[x] = f[x]
  BY DEF Drop, Restrict
<1> HIDE DEF p
<1>2. Cardinality(OnGpu(f, g)) \in Nat /\ Cardinality(OnGpu(p, g)) \in Nat
  BY <1>1, OnGpuFinite
<1>3. CASE g = f[c].gpu
  <2>1. OnGpu(p, g) = OnGpu(f, g) \ {c} /\ c \in OnGpu(f, g)
    BY <1>1, <1>3 DEF OnGpu
  <2>2. Cardinality(OnGpu(p, g)) = Cardinality(OnGpu(f, g)) - 1
    BY <2>1, OnGpuFinite, FS_RemoveElement
  <2>3. Cardinality(OnGpu(f, g)) >= 1
    BY <1>2, <2>2
  <2> QED
    BY <1>3, <2>2, <2>3 DEF p
<1>4. CASE g # f[c].gpu
  <2>1. OnGpu(p, g) = OnGpu(f, g)
    BY <1>1, <1>4 DEF OnGpu
  <2> QED
    BY <1>4, <2>1 DEF p
<1> QED
  BY <1>3, <1>4

\* No request, save, crash or reload makes m_gpu_use wrong.
LEMMA GpuStep ==
  ASSUME TypeOK, GpuUseCounts, [Next]_vars
  PROVE  GpuUseCounts'
<1>0. /\ DOMAIN running \subseteq Channels
      /\ gpuUse \in [Gpus -> Nat]
      /\ \A g \in Gpus : gpuUse[g] = Cardinality(OnGpu(running, g))
  BY DEF TypeOK, Table, GpuUseCounts, Stitched, OnGpu
<1> SUFFICES \A g \in Gpus : gpuUse'[g] = Cardinality(OnGpu(running', g))
  BY DEF GpuUseCounts, Stitched, OnGpu
<1> TAKE g \in Gpus
<1>1. ASSUME NEW c \in Channels, Start(c)
      PROVE  gpuUse'[g] = Cardinality(OnGpu(running', g))
  <2>1. PICK h \in Gpus :
          /\ running' = Put(running, c, [id |-> infos[c].id, addr |-> infos[c].addr,
                                         gpu |-> h, worker |-> "opening"])
          /\ gpuUse' = [gpuUse EXCEPT ![h] = @ + 1]
    BY <1>1 DEF Start
  <2> DEFINE r == [id |-> infos[c].id, addr |-> infos[c].addr, gpu |-> h, worker |-> "opening"]
  <2>2. r.gpu = h
    OBVIOUS
  <2>3. c \notin DOMAIN running /\ running' = Put(running, c, r)
    BY <1>1, <2>1 DEF Start
  <2> HIDE DEF r
  <2>4. Cardinality(OnGpu(running', g)) =
          IF g = h THEN Cardinality(OnGpu(running, g)) + 1
                   ELSE Cardinality(OnGpu(running, g))
    BY <1>0, <2>2, <2>3, OnGpuPut
  <2> QED
    BY <1>0, <2>1, <2>4
<1>2. ASSUME NEW c \in DOMAIN running, StopStitch(c)
      PROVE  gpuUse'[g] = Cardinality(OnGpu(running', g))
  <2>1. /\ running' = Drop(running, c)
        /\ gpuUse' = [gpuUse EXCEPT ![running[c].gpu] = @ - 1]
    BY <1>2, StopFacts
  <2>2. IF g = running[c].gpu
          THEN Cardinality(OnGpu(running', g)) = Cardinality(OnGpu(running, g)) - 1
          ELSE Cardinality(OnGpu(running', g)) = Cardinality(OnGpu(running, g))
    BY <1>0, <2>1, OnGpuDrop
  <2> QED
    BY <1>0, <2>1, <2>2
<1>3. ASSUME NEW c, NEW how, NEW state, Worker(c, how, state)
      PROVE  gpuUse'[g] = Cardinality(OnGpu(running', g))
  <2>1. DOMAIN running' = DOMAIN running
    BY <1>3 DEF Worker, TypeOK, Table
  <2>2. \A d \in DOMAIN running : running'[d].gpu = running[d].gpu
    <3> TAKE d \in DOMAIN running
    <3>1. running[d] \in Stitch
      BY DEF TypeOK, Table
    <3>2. running' = [running EXCEPT ![c].worker = how]
      BY <1>3 DEF Worker
    <3> QED
      BY <3>1, <3>2 DEF TypeOK, Table, Stitch
  <2>3. OnGpu(running', g) = OnGpu(running, g)
    BY <2>1, <2>2 DEF OnGpu
  <2> QED
    BY <1>0, <1>3, <2>3 DEF Worker
<1>4. CASE Boot
  <2>1. DOMAIN running' = {} /\ gpuUse'[g] = 0
    BY <1>4, EmptyMap DEF Boot
  <2>2. OnGpu(running', g) = {}
    BY <2>1 DEF OnGpu
  <2> QED
    BY <2>1, <2>2, FS_EmptySet
<1>5. CASE UNCHANGED <<running, gpuUse>>
  BY <1>0, <1>5
<1>6. ASSUME NEW c \in Channels, Delete(c)
      PROVE  gpuUse'[g] = Cardinality(OnGpu(running', g))
  BY <1>2, <1>5, <1>6 DEF Delete, stitching
<1>7. ASSUME NEW c \in Channels, Stop(c)
      PROVE  gpuUse'[g] = Cardinality(OnGpu(running', g))
  BY <1>2, <1>7 DEF Stop
<1>8. ASSUME NEW c \in Channels, NEW a, NEW r, AddNew(c, a, r) \/ Modify(c, a, r)
      PROVE  UNCHANGED <<running, gpuUse>>
  BY <1>8 DEF AddNew, Modify, stitching
<1>9. ASSUME NEW c \in Channels, ModifyOsd(c)
      PROVE  UNCHANGED <<running, gpuUse>>
  BY <1>9 DEF ModifyOsd, stitching
<1>10. CASE Save \/ Crash \/ Shutdown \/ UNCHANGED vars
  BY <1>5, <1>10 DEF Save, BeginSave, EndSave, Crash, Shutdown, vars, stitching
<1> QED
  BY <1>1, <1>3, <1>4, <1>5, <1>6, <1>7, <1>8, <1>9, <1>10
     DEF Next, Request, Opened, OpenFails

-----------------------------------------------------------------------------
(* Types.                                                                  *)

\* A stop keeps the types, and takes a GPU's count from one or more.
LEMMA StopTypes ==
  ASSUME TypeOK, GpuUseCounts, NEW c \in DOMAIN running, StopStitch(c)
  PROVE  /\ Table(running', Stitch)
         /\ gpuUse' \in [Gpus -> Nat]
         /\ live' \in [Ids -> {0, 1}]
<1>1. /\ running' = Drop(running, c)
      /\ gpuUse' = [gpuUse EXCEPT ![running[c].gpu] = @ - 1]
      /\ live' \in [Ids -> {0, 1}]
  BY StopFacts
<1>2. Table(running, Stitch) /\ gpuUse \in [Gpus -> Nat]
  BY DEF TypeOK
<1>3. Table(running', Stitch)
  BY <1>1, <1>2, DropTable
<1>4. running[c].gpu \in Gpus /\ DOMAIN running \subseteq Channels
  BY <1>2 DEF Table, Stitch
<1>5. gpuUse[running[c].gpu] = Cardinality(OnGpu(running, running[c].gpu))
  BY <1>4 DEF GpuUseCounts, Stitched, OnGpu
<1>6. gpuUse[running[c].gpu] >= 1
  BY <1>4, <1>5, OnGpuDrop
<1>7. gpuUse' \in [Gpus -> Nat]
  BY <1>1, <1>2, <1>4, <1>6
<1> QED
  BY <1>1, <1>3, <1>7

LEMMA WorkerTypes ==
  ASSUME TypeOK, NEW c, NEW how \in {"open", "failed"}, NEW state \in {0, 1},
         Worker(c, how, state)
  PROVE  Table(running', Stitch) /\ live' \in [Ids -> {0, 1}]
<1> DEFINE e == [running[c] EXCEPT !.worker = how]
<1>1. /\ c \in DOMAIN running
      /\ running' = [running EXCEPT ![c].worker = how]
      /\ live' = [live EXCEPT ![running[c].id] = state]
  BY DEF Worker
<1>2. running[c] \in Stitch
  BY <1>1 DEF TypeOK, Table
<1>3. e \in Stitch
  BY <1>2 DEF Stitch
<1>4. running' = [running EXCEPT ![c] = e]
  BY <1>1
<1>5. Table(running', Stitch)
  BY <1>1, <1>3, <1>4 DEF TypeOK, Table
<1>6. live' \in [Ids -> {0, 1}]
  BY <1>1, <1>2 DEF TypeOK, Stitch
<1> QED
  BY <1>5, <1>6

LEMMA TypeStep ==
  ASSUME TypeOK, GpuUseCounts, [Next]_vars
  PROVE  TypeOK'
<1>0. MaxId \in Nat /\ 0 \in Ids
  BY VideoSplitAssumption DEF Ids
<1>1. ASSUME NEW c \in Channels, NEW a \in Addrs, NEW r \in Requests, AddNew(c, a, r)
      PROVE  TypeOK'
  <2> DEFINE e == [id |-> nextId, addr |-> a, group |-> r]
  <2>1. e \in Info
    BY DEF Info, TypeOK, Positions
  <2>2. infos' = Put(infos, c, e)
    BY <1>1 DEF AddNew
  <2> HIDE DEF e
  <2>3. Table(infos', Info)
    BY <2>1, <2>2, PutTable DEF TypeOK
  <2>4. nextId' \in Ids
    BY <1>0, <1>1 DEF AddNew, TypeOK, Ids
  <2>5. UNCHANGED <<file, catalog, running, gpuUse, live, mpc>>
    BY <1>1 DEF AddNew, stitching
  <2>6. status' \in [Channels -> {0, 1}] /\ claim' \in [Addrs -> Channels \cup {Free}]
    BY <1>1 DEF AddNew, TypeOK
  <2>7. channelIds' \subseteq Channels /\ dirty' \in BOOLEAN
    BY <1>1 DEF AddNew, TypeOK
  <2> QED
    BY <2>3, <2>4, <2>5, <2>6, <2>7 DEF TypeOK
<1>2. ASSUME NEW c \in Channels, NEW a \in Addrs, NEW r \in Requests, Modify(c, a, r)
      PROVE  TypeOK'
  <2>1. Table(infos', Info)
    BY <1>2, ModifyFacts
  <2>2. status' \in [Channels -> {0, 1}] /\ claim' \in [Addrs -> Channels \cup {Free}]
    BY <1>2 DEF Modify, TypeOK
  <2>3. UNCHANGED <<channelIds, nextId, file, catalog, running, gpuUse, live, mpc>>
        /\ dirty' = TRUE
    BY <1>2 DEF Modify, stitching
  <2> QED
    BY <2>1, <2>2, <2>3 DEF TypeOK
<1>3. ASSUME NEW c \in Channels, ModifyOsd(c)
      PROVE  TypeOK'
  BY <1>3 DEF ModifyOsd, TypeOK, stitching
<1>4. ASSUME NEW c \in Channels, Delete(c)
      PROVE  TypeOK'
  <2>1. /\ Table(running', Stitch)
        /\ gpuUse' \in [Gpus -> Nat]
        /\ live' \in [Ids -> {0, 1}]
    BY <1>4, StopTypes DEF Delete, stitching, TypeOK
  <2>2. infos' = Drop(infos, c)
    BY <1>4 DEF Delete
  <2>3. Table(infos', Info)
    BY <2>2, DropTable DEF TypeOK
  <2>4. status' \in [Channels -> {0, 1}] /\ claim' \in [Addrs -> Channels \cup {Free}]
    BY <1>4 DEF Delete, TypeOK
  <2>5. UNCHANGED <<channelIds, nextId, file, catalog, mpc>> /\ dirty' = TRUE
    BY <1>4 DEF Delete
  <2> QED
    BY <2>1, <2>3, <2>4, <2>5 DEF TypeOK
<1>5. ASSUME NEW c \in Channels, Start(c)
      PROVE  TypeOK'
  <2>1. PICK g \in Gpus :
          /\ running' = Put(running, c, [id |-> infos[c].id, addr |-> infos[c].addr,
                                         gpu |-> g, worker |-> "opening"])
          /\ gpuUse' = [gpuUse EXCEPT ![g] = @ + 1]
    BY <1>5 DEF Start
  <2> DEFINE r == [id |-> infos[c].id, addr |-> infos[c].addr, gpu |-> g, worker |-> "opening"]
  <2>2. infos[c] \in Info
    BY <1>5 DEF Start, TypeOK, Table
  <2>3. r \in Stitch
    BY <2>2 DEF Info, Stitch
  <2>4. running' = Put(running, c, r)
    BY <2>1
  <2> HIDE DEF r
  <2>5. Table(running', Stitch)
    BY <2>3, <2>4, PutTable DEF TypeOK
  <2>6. gpuUse' \in [Gpus -> Nat]
    BY <2>1 DEF TypeOK
  <2>7. status' \in [Channels -> {0, 1}]
    BY <1>5 DEF Start, TypeOK
  <2>8. UNCHANGED <<infos, channelIds, claim, nextId, dirty, file, catalog, live, mpc>>
    BY <1>5 DEF Start, registry
  <2> QED
    BY <2>5, <2>6, <2>7, <2>8 DEF TypeOK
<1>6. ASSUME NEW c \in Channels, Stop(c)
      PROVE  TypeOK'
  <2>1. /\ Table(running', Stitch)
        /\ gpuUse' \in [Gpus -> Nat]
        /\ live' \in [Ids -> {0, 1}]
    BY <1>6, StopTypes DEF Stop
  <2>2. UNCHANGED <<infos, channelIds, claim, nextId, dirty, status, file, catalog, mpc>>
    BY <1>6 DEF Stop, registry
  <2> QED
    BY <2>1, <2>2 DEF TypeOK
<1>7. ASSUME NEW c, NEW how \in {"open", "failed"}, NEW state \in {0, 1},
             Worker(c, how, state)
      PROVE  TypeOK'
  <2>1. Table(running', Stitch) /\ live' \in [Ids -> {0, 1}]
    BY <1>7, WorkerTypes
  <2>2. UNCHANGED <<infos, channelIds, claim, nextId, dirty, status, file, catalog, gpuUse, mpc>>
    BY <1>7 DEF Worker, registry
  <2> QED
    BY <2>1, <2>2 DEF TypeOK
<1>8. CASE BeginSave
  <2>1. Table(catalog', Ids) /\ Table(file', Info)
    BY <1>8, CatalogTable, EmptyMap DEF BeginSave, TypeOK
  <2> QED
    BY <1>8, <2>1 DEF BeginSave, TypeOK, registry, stitching
<1>9. CASE EndSave
  BY <1>9 DEF EndSave, TypeOK, stitching
<1>10. CASE Crash
  BY <1>10 DEF Crash, TypeOK, registry, stitching
<1>11. CASE Shutdown
  BY <1>11 DEF Shutdown, TypeOK, registry, stitching
<1>12. CASE Boot
  <2>1. infos' = Readable(file) /\ catalog' = CatalogOf(infos') /\ file' = file
    BY <1>12 DEF Boot
  <2>2. Table(infos', Info)
    BY <2>1, ReadableTable DEF TypeOK
  <2>3. Table(catalog', Ids)
    BY <2>1, <2>2, CatalogTable
  <2>4. Table(running', Stitch)
    BY <1>12, EmptyMap DEF Boot
  <2>5. channelIds' \subseteq Channels
    BY <1>12, <2>2 DEF Boot, Table
  <2>6. claim' \in [Addrs -> Channels \cup {Free}] /\ nextId' \in Ids
    BY <1>12 DEF Boot, Claims, NextIds
  <2>7. /\ status' \in [Channels -> {0, 1}] /\ gpuUse' \in [Gpus -> Nat]
        /\ live' \in [Ids -> {0, 1}]
    BY <1>12 DEF Boot
  <2>8. dirty' \in BOOLEAN /\ mpc' \in {"run", "saving", "down"}
    BY <1>12 DEF Boot
  <2> QED
    BY <2>1, <2>2, <2>3, <2>4, <2>5, <2>6, <2>7, <2>8 DEF TypeOK
<1>13. CASE UNCHANGED vars
  BY <1>13 DEF vars, TypeOK
<1> QED
  BY <1>1, <1>2, <1>3, <1>4, <1>5, <1>6, <1>7, <1>8, <1>9, <1>10, <1>11, <1>12, <1>13
     DEF Next, Request, Save, Opened, OpenFails

-----------------------------------------------------------------------------
(* Numeric ids.                                                            *)

\* A worker changes nothing of a stitch but its worker.
LEMMA WorkerFacts ==
  ASSUME TypeOK, NEW c, NEW how, NEW state, Worker(c, how, state)
  PROVE  /\ DOMAIN running' = DOMAIN running /\ c \in DOMAIN running
         /\ \A d \in DOMAIN running : running'[d].id = running[d].id
         /\ \A d \in DOMAIN running : d # c => running'[d].worker = running[d].worker
         /\ running'[c].worker = how
<1>1. c \in DOMAIN running /\ running' = [running EXCEPT ![c].worker = how]
  BY DEF Worker
<1>2. \A d \in DOMAIN running : running[d] \in Stitch
  BY DEF TypeOK, Table
<1>3. DOMAIN running' = DOMAIN running
  BY <1>1 DEF TypeOK, Table
<1>4. \A d \in DOMAIN running : running'[d].id = running[d].id
  BY <1>1, <1>2 DEF Stitch
<1>5. \A d \in DOMAIN running : d # c => running'[d].worker = running[d].worker
  BY <1>1
<1>6. running'[c].worker = how
  BY <1>1, <1>2 DEF Stitch
<1> QED
  BY <1>1, <1>3, <1>4, <1>5, <1>6

\* A start adds a stitch with the id that the registry has.
LEMMA StartFacts ==
  ASSUME NEW c, Start(c)
  PROVE  /\ c \in DOMAIN infos /\ c \notin DOMAIN running
         /\ DOMAIN running' = DOMAIN running \cup {c}
         /\ \A d \in DOMAIN running : running'[d] = running[d]
         /\ running'[c].id = infos[c].id /\ running'[c].addr = infos[c].addr
         /\ running'[c].worker = "opening"
         /\ UNCHANGED <<infos, channelIds, claim, nextId, dirty, file, catalog, live, mpc>>
<1>1. PICK g \in Gpus : running' = Put(running, c, [id |-> infos[c].id,
                           addr |-> infos[c].addr, gpu |-> g, worker |-> "opening"])
  BY DEF Start
<1>2. c \in DOMAIN infos /\ c \notin DOMAIN running
  BY DEF Start
<1>3. UNCHANGED <<infos, channelIds, claim, nextId, dirty, file, catalog, live, mpc>>
  BY DEF Start, registry
<1> QED
  BY <1>1, <1>2, <1>3 DEF Put

\* A stop keeps the stitches of the others.
LEMMA StopKeepsOthers ==
  ASSUME NEW c, running' = Drop(running, c)
  PROVE  /\ DOMAIN running' = DOMAIN running \ {c}
         /\ \A d \in DOMAIN running' : running'[d] = running[d]
BY DEF Drop, Restrict

\* AddNew adds one entry with the next id.
LEMMA AddFacts ==
  ASSUME NEW c, NEW a, NEW r, AddNew(c, a, r)
  PROVE  /\ DOMAIN infos' = DOMAIN infos \cup {c}
         /\ \A d \in DOMAIN infos : infos'[d] = infos[d]
         /\ infos'[c].id = nextId /\ infos'[c].addr = a
         /\ c \notin DOMAIN infos /\ c \notin channelIds
         /\ channelIds' = channelIds \cup {c} /\ nextId' = nextId + 1
         /\ UNCHANGED <<file, running, live>>
BY DEF AddNew, Put, stitching

\* Delete takes one entry away, and its stitch or nothing.
LEMMA DeleteFacts ==
  ASSUME NEW c, Delete(c)
  PROVE  /\ DOMAIN infos' = DOMAIN infos \ {c}
         /\ \A d \in DOMAIN infos' : infos'[d] = infos[d]
         /\ DOMAIN running' \subseteq DOMAIN running
         /\ \A d \in DOMAIN running' : running'[d] = running[d]
         /\ UNCHANGED <<channelIds, nextId, file, mpc>>
<1>1. infos' = Drop(infos, c) /\ UNCHANGED <<channelIds, nextId, file, mpc>>
  BY DEF Delete
<1>2. running' = running \/ running' = Drop(running, c)
  BY DEF Delete, StopStitch, stitching
<1> QED
  BY <1>1, <1>2, StopKeepsOthers DEF Drop, Restrict

LEMMA KnownStep ==
  ASSUME TypeOK, KnownChannels, [Next]_vars
  PROVE  KnownChannels'
<1>1. ASSUME NEW c \in Channels, NEW a, NEW r, AddNew(c, a, r)
      PROVE  KnownChannels'
  BY <1>1, AddFacts DEF KnownChannels
<1>2. ASSUME NEW c \in Channels, NEW a \in Addrs, NEW r \in Requests, Modify(c, a, r)
      PROVE  KnownChannels'
  <2>1. UNCHANGED <<channelIds, file, running>>
    BY <1>2 DEF Modify, stitching
  <2> QED
    BY <1>2, <2>1, ModifyFacts DEF KnownChannels
<1>3. ASSUME NEW c \in Channels, Delete(c)
      PROVE  KnownChannels'
  BY <1>3, DeleteFacts DEF KnownChannels
<1>4. ASSUME NEW c \in Channels, Start(c)
      PROVE  KnownChannels'
  BY <1>4, StartFacts DEF KnownChannels
<1>5. ASSUME NEW c \in Channels, Stop(c)
      PROVE  KnownChannels'
  <2>1. running' = Drop(running, c) /\ UNCHANGED <<infos, file, channelIds>>
    BY <1>5 DEF Stop, StopStitch, registry
  <2> QED
    BY <2>1, StopKeepsOthers DEF KnownChannels
<1>6. ASSUME NEW c, NEW how, NEW state, Worker(c, how, state)
      PROVE  KnownChannels'
  <2>1. UNCHANGED <<infos, file, channelIds>>
    BY <1>6 DEF Worker, registry
  <2> QED
    BY <1>6, <2>1, WorkerFacts DEF KnownChannels
<1>7. CASE BeginSave
  <2>1. DOMAIN Readable(file') = {} /\ UNCHANGED <<infos, running, channelIds>>
    BY <1>7, EmptyMap DEF BeginSave, registry, stitching
  <2> QED
    BY <2>1 DEF KnownChannels
<1>8. ASSUME file' \in {infos, file}, UNCHANGED <<infos, running, channelIds>>
      PROVE  KnownChannels'
  BY <1>8, ReadableMap DEF KnownChannels
<1>9. CASE EndSave \/ Shutdown
  BY <1>8, <1>9 DEF EndSave, Shutdown, registry, stitching
<1>10. CASE Boot
  <2>1. /\ infos' = Readable(file') /\ channelIds' = DOMAIN infos'
        /\ DOMAIN running' = {}
    BY <1>10, EmptyMap DEF Boot
  <2> QED
    BY <2>1 DEF KnownChannels
<1>11. ASSUME NEW c \in Channels, ModifyOsd(c)
       PROVE  KnownChannels'
  BY <1>8, <1>11 DEF ModifyOsd, stitching
<1>12. CASE Crash \/ UNCHANGED vars
  BY <1>8, <1>12 DEF Crash, vars, registry, stitching
<1> QED
  BY <1>1, <1>2, <1>3, <1>4, <1>5, <1>6, <1>7, <1>9, <1>10, <1>11, <1>12
     DEF Next, Request, Save, Opened, OpenFails

\* A new channel's id differs from every other, a start copies the channel's
\* own, and a reload takes ids that were distinct when they were saved.
LEMMA IdsStep ==
  ASSUME TypeOK, KnownChannels, IdsAreUnique, FileIds, [Next]_vars
  PROVE  IdsAreUnique' /\ FileIds'
<1>0. /\ MaxId \in Nat /\ nextId \in Nat
      /\ \A c \in DOMAIN infos : infos[c].id \in Nat
      /\ \A c \in DOMAIN file : file[c].id \in Nat
      /\ \A c \in DOMAIN running : running[c].id \in Nat
  BY VideoSplitAssumption DEF TypeOK, Table, Info, Stitch, Ids
<1>1. ASSUME NEW c \in Channels, NEW a, NEW r, AddNew(c, a, r)
      PROVE  IdsAreUnique' /\ FileIds'
  <2>1. /\ DOMAIN infos' = DOMAIN infos \cup {c}
        /\ \A d \in DOMAIN infos : infos'[d] = infos[d]
        /\ infos'[c].id = nextId
        /\ c \notin DOMAIN infos /\ c \notin channelIds
        /\ nextId' = nextId + 1
        /\ running' = running /\ file' = file
    BY <1>1, AddFacts
  <2>2. c \notin DOMAIN running /\ c \notin DOMAIN Readable(file)
    BY <2>1 DEF KnownChannels
  <2>3. IdsAreUnique'
    BY <1>0, <2>1, <2>2 DEF IdsAreUnique, Registered, Stitched
  <2>4. FileIds'
    BY <2>1, <2>2 DEF FileIds, Registered
  <2> QED
    BY <2>3, <2>4
<1>2. ASSUME NEW c \in Channels, NEW a \in Addrs, NEW r \in Requests, Modify(c, a, r)
      PROVE  IdsAreUnique' /\ FileIds'
  <2>1. /\ DOMAIN infos' = DOMAIN infos
        /\ \A d \in DOMAIN infos : infos'[d].id = infos[d].id
    BY <1>2, ModifyFacts
  <2>2. UNCHANGED <<nextId, file, running>>
    BY <1>2 DEF Modify, stitching
  <2>3. IdsAreUnique'
    BY <2>1, <2>2 DEF IdsAreUnique, Registered, Stitched
  <2>4. FileIds'
    BY <2>1, <2>2 DEF FileIds, Registered
  <2> QED
    BY <2>3, <2>4
<1>3. ASSUME NEW c \in Channels, Delete(c)
      PROVE  IdsAreUnique' /\ FileIds'
  <2>1. /\ DOMAIN infos' = DOMAIN infos \ {c}
        /\ \A d \in DOMAIN infos' : infos'[d] = infos[d]
        /\ DOMAIN running' \subseteq DOMAIN running
        /\ \A d \in DOMAIN running' : running'[d] = running[d]
        /\ UNCHANGED <<nextId, file>>
    BY <1>3, DeleteFacts
  <2>2. IdsAreUnique'
    BY <2>1 DEF IdsAreUnique, Registered, Stitched
  <2>3. FileIds'
    BY <2>1 DEF FileIds, Registered
  <2> QED
    BY <2>2, <2>3
<1>4. ASSUME NEW c \in Channels, Start(c)
      PROVE  IdsAreUnique' /\ FileIds'
  <2>1. /\ c \in DOMAIN infos /\ DOMAIN running' = DOMAIN running \cup {c}
        /\ \A d \in DOMAIN running : running'[d] = running[d]
        /\ running'[c].id = infos[c].id /\ c \notin DOMAIN running
        /\ UNCHANGED <<infos, nextId, file>>
    BY <1>4, StartFacts
  <2>2. IdsAreUnique'
    BY <2>1 DEF IdsAreUnique, Registered, Stitched
  <2>3. FileIds'
    BY <2>1 DEF FileIds, Registered
  <2> QED
    BY <2>2, <2>3
<1>5. ASSUME NEW c \in Channels, Stop(c)
      PROVE  IdsAreUnique' /\ FileIds'
  <2>1. /\ DOMAIN running' = DOMAIN running \ {c}
        /\ \A d \in DOMAIN running' : running'[d] = running[d]
        /\ UNCHANGED <<infos, nextId, file>>
    BY <1>5, StopKeepsOthers DEF Stop, StopStitch, registry
  <2>2. IdsAreUnique'
    BY <2>1 DEF IdsAreUnique, Registered, Stitched
  <2>3. FileIds'
    BY <2>1 DEF FileIds, Registered
  <2> QED
    BY <2>2, <2>3
<1>6. ASSUME NEW c, NEW how, NEW state, Worker(c, how, state)
      PROVE  IdsAreUnique' /\ FileIds'
  <2>1. /\ DOMAIN running' = DOMAIN running
        /\ \A d \in DOMAIN running : running'[d].id = running[d].id
    BY <1>6, WorkerFacts
  <2>2. UNCHANGED <<infos, nextId, file>>
    BY <1>6 DEF Worker, registry
  <2>3. IdsAreUnique'
    BY <2>1, <2>2 DEF IdsAreUnique, Registered, Stitched
  <2>4. FileIds'
    BY <2>2 DEF FileIds, Registered
  <2> QED
    BY <2>3, <2>4
<1>7. ASSUME UNCHANGED <<infos, nextId, running>>
      PROVE  IdsAreUnique'
  BY <1>7 DEF IdsAreUnique, Registered, Stitched
<1>8. ASSUME file' = infos, infos' = infos
      PROVE  FileIds'
  <2>1. /\ DOMAIN Readable(infos) \subseteq DOMAIN infos
        /\ \A c \in DOMAIN Readable(infos) : Readable(infos)[c] = infos[c]
    BY ReadableMap
  <2>2. \A c, d \in DOMAIN infos : infos[c].id = infos[d].id => c = d
    BY DEF IdsAreUnique, Registered
  <2>3. Readable(file') = Readable(infos)
    BY <1>8
  <2> QED
    BY <1>8, <2>1, <2>2, <2>3 DEF FileIds, Registered
<1>9. ASSUME file' = file, infos' = infos
      PROVE  FileIds'
  BY <1>9 DEF FileIds, Registered
<1>10. CASE BeginSave
  <2>1. DOMAIN Readable(file') = {} /\ UNCHANGED <<infos, nextId, running>>
    BY <1>10, EmptyMap DEF BeginSave, registry, stitching
  <2> QED
    BY <1>7, <2>1 DEF FileIds
<1>11. CASE EndSave \/ Shutdown
  BY <1>7, <1>8, <1>9, <1>11 DEF EndSave, Shutdown, registry, stitching
<1>12. CASE Boot
  <2>1. /\ infos' = Readable(file) /\ file' = file /\ DOMAIN running' = {}
        /\ nextId' \in NextIds(infos')
    BY <1>12, EmptyMap DEF Boot
  <2>2. \A c \in DOMAIN infos' : infos'[c].id < nextId'
    BY <2>1 DEF NextIds
  <2>3. FileIds'
    BY <2>1 DEF FileIds, Registered
  <2>4. IdsAreUnique'
    BY <2>1, <2>2 DEF FileIds, IdsAreUnique, Registered, Stitched
  <2> QED
    BY <2>3, <2>4
<1>13. ASSUME NEW c \in Channels, ModifyOsd(c)
       PROVE  IdsAreUnique' /\ FileIds'
  BY <1>7, <1>9, <1>13 DEF ModifyOsd, stitching
<1>14. CASE Crash \/ UNCHANGED vars
  BY <1>7, <1>9, <1>14 DEF Crash, vars, registry, stitching
<1> QED
  BY <1>1, <1>2, <1>3, <1>4, <1>5, <1>6, <1>10, <1>11, <1>12, <1>13, <1>14
     DEF Next, Request, Save, Opened, OpenFails

\* The ids of the channels that a step keeps do not change: only a reload
\* replaces entries, by what the file has under the same id.
LEMMA IdsStableStep ==
  ASSUME TypeOK, FileIds, [Next]_vars
  PROVE  \A c \in DOMAIN infos \cap DOMAIN infos' : infos'[c].id = infos[c].id
<1> SUFFICES ASSUME NEW d \in DOMAIN infos, d \in DOMAIN infos'
             PROVE  infos'[d].id = infos[d].id
  OBVIOUS
<1>1. ASSUME NEW c, NEW a, NEW r, AddNew(c, a, r)
      PROVE  infos'[d].id = infos[d].id
  BY <1>1, AddFacts
<1>2. ASSUME NEW c \in Channels, NEW a \in Addrs, NEW r \in Requests, Modify(c, a, r)
      PROVE  infos'[d].id = infos[d].id
  BY <1>2, ModifyFacts
<1>3. ASSUME NEW c, Delete(c)
      PROVE  infos'[d].id = infos[d].id
  BY <1>3, DeleteFacts
<1>4. CASE Boot
  <2>1. infos' = Readable(file)
    BY <1>4 DEF Boot
  <2> QED
    BY <2>1 DEF FileIds, Registered
<1>5. ASSUME NEW c, Start(c) \/ Stop(c) \/ ModifyOsd(c) \/ Opened(c) \/ OpenFails(c)
      PROVE  infos' = infos
  BY <1>5, StartFacts DEF Stop, ModifyOsd, Opened, OpenFails, Worker, registry
<1>6. CASE Save \/ Crash \/ Shutdown \/ UNCHANGED vars
  BY <1>6 DEF Save, BeginSave, EndSave, Crash, Shutdown, vars, registry
<1> QED
  BY <1>1, <1>2, <1>3, <1>4, <1>5, <1>6 DEF Next, Request

-----------------------------------------------------------------------------
(* Multicast addresses.                                                    *)

\* When every claim counts, a channel that is not in the map takes only a free
\* address, one in the map only a free one or its own, and a reload finds the
\* addresses that were distinct when they were saved.
LEMMA ClaimsStep ==
  ASSUME ShortIds = {}, TypeOK, ClaimsMatch, FileAddrs, [Next]_vars
  PROVE  ClaimsMatch' /\ FileAddrs'
<1>0. /\ claim \in [Addrs -> Channels \cup {Free}] /\ Free \notin Channels
      /\ DOMAIN infos \subseteq Channels
      /\ \A c \in DOMAIN infos : infos[c].addr \in Addrs
      /\ \A a \in Addrs, c \in Channels : claim[a] = c <=> (c \in DOMAIN infos /\ infos[c].addr = a)
  BY VideoSplitAssumption DEF TypeOK, Table, Info, ClaimsMatch, Registered
<1>1. ASSUME NEW c \in Channels, NEW a \in Addrs, NEW r, AddNew(c, a, r)
      PROVE  ClaimsMatch'
  <2>1. /\ DOMAIN infos' = DOMAIN infos \cup {c}
        /\ \A d \in DOMAIN infos : infos'[d] = infos[d]
        /\ infos'[c].addr = a /\ c \notin DOMAIN infos
    BY <1>1, AddFacts
  <2>2. claim[a] = Free /\ claim' = [claim EXCEPT ![a] = c]
    BY <1>1 DEF AddNew
  <2> QED
    BY <1>0, <2>1, <2>2 DEF ClaimsMatch, Registered
<1>2. ASSUME NEW c \in Channels, NEW a \in Addrs, NEW r \in Requests, Modify(c, a, r)
      PROVE  ClaimsMatch'
  <2>1. /\ DOMAIN infos' = DOMAIN infos
        /\ \A d \in DOMAIN infos : d # c => infos'[d] = infos[d]
        /\ infos'[c].addr = a
    BY <1>2, ModifyFacts
  <2>2. /\ c \in DOMAIN infos /\ claim[a] \in {c, Free}
        /\ claim' = [claim EXCEPT ![infos[c].addr] = Free, ![a] = c]
    BY <1>2 DEF Modify, Taken
  <2> QED
    BY <1>0, <2>1, <2>2 DEF ClaimsMatch, Registered
<1>3. ASSUME NEW c \in Channels, Delete(c)
      PROVE  ClaimsMatch'
  <2>1. /\ DOMAIN infos' = DOMAIN infos \ {c}
        /\ \A d \in DOMAIN infos' : infos'[d] = infos[d]
    BY <1>3, DeleteFacts
  <2>2. c \in DOMAIN infos /\ claim' = [claim EXCEPT ![infos[c].addr] = Free]
    BY <1>3 DEF Delete
  <2> QED
    BY <1>0, <2>1, <2>2 DEF ClaimsMatch, Registered
<1>4. ASSUME UNCHANGED <<infos, claim>>
      PROVE  ClaimsMatch'
  BY <1>4 DEF ClaimsMatch, Registered
<1>5. ASSUME Boot
      PROVE  ClaimsMatch'
  <2>1. infos' = Readable(file) /\ claim' \in Claims(infos')
    BY <1>5 DEF Boot
  <2>2. \A c, d \in DOMAIN infos' : infos'[c].addr = infos'[d].addr => c = d
    BY <2>1 DEF FileAddrs
  <2>3. ASSUME NEW a \in Addrs, NEW c \in Channels
        PROVE  claim'[a] = c <=> (c \in DOMAIN infos' /\ infos'[c].addr = a)
    <3> DEFINE cs == {d \in DOMAIN infos' : infos'[d].addr = a}
    <3>1. IF cs = {} THEN claim'[a] = Free ELSE claim'[a] \in cs
      BY <2>1 DEF Claims
    <3> QED
      BY <1>0, <2>2, <3>1
  <2> QED
    BY <2>3 DEF ClaimsMatch, Registered
<1>6. ASSUME file' = file
      PROVE  FileAddrs'
  BY <1>6 DEF FileAddrs
<1>7. ASSUME file' = infos
      PROVE  FileAddrs'
  <2>1. /\ DOMAIN Readable(infos) \subseteq DOMAIN infos
        /\ \A c \in DOMAIN Readable(infos) : Readable(infos)[c] = infos[c]
    BY ReadableMap
  <2>2. \A c, d \in DOMAIN infos : infos[c].addr = infos[d].addr => c = d
    BY <1>0
  <2>3. Readable(file') = Readable(infos)
    BY <1>7
  <2> QED
    BY <2>1, <2>2, <2>3 DEF FileAddrs
<1>8. CASE BeginSave
  <2>1. DOMAIN Readable(file') = {} /\ UNCHANGED <<infos, claim>>
    BY <1>8, EmptyMap DEF BeginSave, registry
  <2> QED
    BY <1>4, <2>1 DEF FileAddrs
<1>9. CASE EndSave \/ Shutdown
  BY <1>4, <1>6, <1>7, <1>9 DEF EndSave, Shutdown, registry
<1>10. ASSUME NEW c \in Channels, NEW a, NEW r,
              AddNew(c, a, r) \/ Modify(c, a, r) \/ Delete(c) \/ Boot
       PROVE  file' = file
  BY <1>10 DEF AddNew, Modify, Delete, Boot
<1>11. ASSUME NEW c, \/ Start(c) \/ Stop(c) \/ ModifyOsd(c)
                     \/ Opened(c) \/ OpenFails(c) \/ Crash \/ UNCHANGED vars
       PROVE  UNCHANGED <<infos, claim, file>>
  BY <1>11 DEF Start, Stop, ModifyOsd, Opened, OpenFails, Worker, Crash, vars, registry
<1>12. CASE Boot
  BY <1>5, <1>6, <1>12 DEF Boot
<1> QED
  BY <1>1, <1>2, <1>3, <1>4, <1>6, <1>8, <1>9, <1>10, <1>11, <1>12
     DEF Next, Request, Save

-----------------------------------------------------------------------------
(* The state that is reported.                                             *)

\* A worker or a stop writes the state of the stitch's own id, which no other
\* registered channel has; an id not given out has never been written.
LEMMA LiveStep ==
  ASSUME TypeOK, KnownChannels, IdsAreUnique, FreshIds, LiveStateIsTrue, [Next]_vars
  PROVE  FreshIds' /\ LiveStateIsTrue'
<1>0. /\ MaxId \in Nat /\ nextId \in Nat
      /\ \A c \in DOMAIN infos : infos[c].id \in Ids
      /\ \A c \in DOMAIN running : running[c].id \in Ids /\ running[c].id < nextId
      /\ \A c \in DOMAIN running, d \in DOMAIN infos : infos[d].id = running[c].id <=> c = d
      /\ Ids \subseteq Nat /\ live \in [Ids -> {0, 1}]
  BY VideoSplitAssumption
     DEF TypeOK, Table, Info, Stitch, Ids, IdsAreUnique, Registered, Stitched
<1>1. ASSUME NEW c \in Channels, NEW a, NEW r, AddNew(c, a, r)
      PROVE  FreshIds' /\ LiveStateIsTrue'
  <2>1. /\ DOMAIN infos' = DOMAIN infos \cup {c}
        /\ \A d \in DOMAIN infos : infos'[d] = infos[d]
        /\ infos'[c].id = nextId
        /\ c \notin DOMAIN infos /\ c \notin channelIds
        /\ nextId' = nextId + 1
        /\ running' = running /\ live' = live
    BY <1>1, AddFacts
  <2>2. c \notin DOMAIN running /\ nextId \in Ids
    BY <2>1 DEF KnownChannels, TypeOK
  <2>3. live[nextId] = 0
    BY <1>0, <2>2 DEF FreshIds
  <2>4. FreshIds'
    BY <1>0, <2>1 DEF FreshIds
  <2>5. LiveStateIsTrue'
    BY <2>1, <2>2, <2>3 DEF LiveStateIsTrue, Registered, Stitched
  <2> QED
    BY <2>4, <2>5
<1>2. ASSUME NEW c \in Channels, NEW a \in Addrs, NEW r \in Requests, Modify(c, a, r)
      PROVE  FreshIds' /\ LiveStateIsTrue'
  <2>1. /\ DOMAIN infos' = DOMAIN infos
        /\ \A d \in DOMAIN infos : infos'[d].id = infos[d].id
    BY <1>2, ModifyFacts
  <2>2. UNCHANGED <<nextId, live, running>>
    BY <1>2 DEF Modify, stitching
  <2> QED
    BY <2>1, <2>2 DEF FreshIds, LiveStateIsTrue, Registered, Stitched
<1>3. ASSUME NEW c \in DOMAIN running, StopStitch(c), nextId' = nextId,
             DOMAIN infos' \subseteq DOMAIN infos,
             \A d \in DOMAIN infos' : infos'[d] = infos[d]
      PROVE  FreshIds' /\ LiveStateIsTrue'
  <2>1. /\ live' \in [Ids -> {0, 1}]
        /\ \A i \in Ids : i # running[c].id => live'[i] = live[i]
        /\ c \in DOMAIN infos => live'[running[c].id] = 0
        /\ running' = Drop(running, c)
    BY <1>3, StopFacts
  <2>2. /\ DOMAIN running' = DOMAIN running \ {c}
        /\ \A d \in DOMAIN running' : running'[d] = running[d]
    BY <2>1, StopKeepsOthers
  <2>3. FreshIds'
    BY <1>0, <1>3, <2>1 DEF FreshIds
  <2>4. ASSUME NEW d \in DOMAIN infos'
        PROVE  live'[infos'[d].id] = 1 <=> (d \in DOMAIN running' /\ running'[d].worker = "open")
    <3>1. d \in DOMAIN infos /\ infos'[d] = infos[d] /\ infos[d].id \in Ids
      BY <1>0, <1>3
    <3>2. live[infos[d].id] = 1 <=> (d \in DOMAIN running /\ running[d].worker = "open")
      BY <3>1 DEF LiveStateIsTrue, Registered, Stitched
    <3>3. CASE d = c
      BY <1>0, <2>1, <2>2, <3>1, <3>3
    <3>4. CASE d # c
      <4>1. infos[d].id # running[c].id
        BY <1>0, <3>1, <3>4
      <4>2. live'[infos'[d].id] = live[infos[d].id]
        BY <2>1, <3>1, <4>1
      <4>3. d \in DOMAIN running' <=> d \in DOMAIN running
        BY <2>2, <3>4
      <4>4. d \in DOMAIN running' => running'[d] = running[d]
        BY <2>2
      <4> QED
        BY <3>2, <4>2, <4>3, <4>4
    <3> QED
      BY <3>3, <3>4
  <2> QED
    BY <2>3, <2>4 DEF LiveStateIsTrue, Registered, Stitched
<1>4. ASSUME UNCHANGED <<live, running, nextId>>,
             DOMAIN infos' \subseteq DOMAIN infos,
             \A d \in DOMAIN infos' : infos'[d] = infos[d]
      PROVE  FreshIds' /\ LiveStateIsTrue'
  BY <1>4 DEF FreshIds, LiveStateIsTrue, Registered, Stitched
<1>5. ASSUME NEW c \in Channels, Delete(c)
      PROVE  FreshIds' /\ LiveStateIsTrue'
  <2>1. /\ DOMAIN infos' \subseteq DOMAIN infos
        /\ \A d \in DOMAIN infos' : infos'[d] = infos[d]
        /\ nextId' = nextId
    BY <1>5, DeleteFacts
  <2>2. CASE status[c] # 0 /\ c \in DOMAIN running
    BY <1>3, <1>5, <2>1, <2>2 DEF Delete
  <2>3. CASE ~(status[c] # 0 /\ c \in DOMAIN running)
    BY <1>4, <1>5, <2>1, <2>3 DEF Delete, stitching
  <2> QED
    BY <2>2, <2>3
<1>6. ASSUME NEW c \in Channels, Start(c)
      PROVE  FreshIds' /\ LiveStateIsTrue'
  <2>1. /\ c \notin DOMAIN running /\ DOMAIN running' = DOMAIN running \cup {c}
        /\ \A d \in DOMAIN running : running'[d] = running[d]
        /\ running'[c].worker = "opening"
        /\ UNCHANGED <<infos, nextId, live>>
    BY <1>6, StartFacts
  <2> QED
    BY <2>1 DEF FreshIds, LiveStateIsTrue, Registered, Stitched
<1>7. ASSUME NEW c \in Channels, Stop(c)
      PROVE  FreshIds' /\ LiveStateIsTrue'
  BY <1>3, <1>7 DEF Stop, registry
<1>8. ASSUME NEW c, NEW how \in {"open", "failed"}, NEW state \in {0, 1},
             Worker(c, how, state), how = "open" <=> state = 1
      PROVE  FreshIds' /\ LiveStateIsTrue'
  <2>1. /\ DOMAIN running' = DOMAIN running /\ c \in DOMAIN running
        /\ \A d \in DOMAIN running : d # c => running'[d].worker = running[d].worker
        /\ running'[c].worker = how
    BY <1>8, WorkerFacts
  <2>2. live' = [live EXCEPT ![running[c].id] = state] /\ UNCHANGED <<infos, nextId>>
    BY <1>8 DEF Worker, registry
  <2>3. FreshIds'
    BY <1>0, <2>1, <2>2 DEF FreshIds
  <2>4. LiveStateIsTrue'
    BY <1>0, <1>8, <2>1, <2>2 DEF LiveStateIsTrue, Registered, Stitched
  <2> QED
    BY <2>3, <2>4
<1>9. CASE Boot
  <2>1. DOMAIN running' = {} /\ live' = [i \in Ids |-> 0] /\ infos' = Readable(file)
    BY <1>9, EmptyMap DEF Boot
  <2>2. Table(infos', Info)
    BY <2>1, ReadableTable DEF TypeOK
  <2>3. \A c \in DOMAIN infos' : infos'[c].id \in Ids
    BY <2>2 DEF Table, Info
  <2> QED
    BY <2>1, <2>3 DEF FreshIds, LiveStateIsTrue, Registered, Stitched
<1>10. ASSUME NEW c \in Channels, ModifyOsd(c)
       PROVE  FreshIds' /\ LiveStateIsTrue'
  BY <1>4, <1>10 DEF ModifyOsd, stitching
<1>11. CASE Save \/ Crash \/ Shutdown \/ UNCHANGED vars
  BY <1>4, <1>11 DEF Save, BeginSave, EndSave, Crash, Shutdown, vars, registry, stitching
<1> QED
  BY <1>1, <1>2, <1>5, <1>6, <1>7, <1>8, <1>9, <1>10, <1>11
     DEF Next, Request, Opened, OpenFails

-----------------------------------------------------------------------------
(* What is saved.                                                          *)

\* Reading twice what may be read changes nothing more.
LEMMA ReadTwice ==
  ASSUME NEW f
  PROVE  Readable(Readable(f)) = Readable(f)
<1>1. DOMAIN Readable(Readable(f)) = DOMAIN Readable(f)
  BY ReadableMap
<1>2. \A c \in DOMAIN Readable(f) : Readable(Readable(f))[c] = Readable(f)[c]
  BY <1>1, ReadableMap
<1> QED
  BY <1>1, <1>2 DEF Readable, Restrict

\* Each request that changes an entry marks the registry, and the mark is
\* cleared only when the file and the device list hold the registry.
LEMMA SavedStep ==
  ASSUME CleanMeansSaved, SavingCatalog, [Next]_vars
  PROVE  CleanMeansSaved' /\ SavingCatalog'
<1>1. ASSUME NEW c, NEW a, NEW r,
             AddNew(c, a, r) \/ Modify(c, a, r) \/ ModifyOsd(c) \/ Delete(c)
      PROVE  mpc' = "run" /\ dirty' = TRUE
  BY <1>1 DEF AddNew, Modify, ModifyOsd, Delete
<1>2. ASSUME UNCHANGED <<infos, file, dirty, catalog, mpc>>
      PROVE  CleanMeansSaved' /\ SavingCatalog'
  BY <1>2 DEF CleanMeansSaved, SavingCatalog
<1>3. ASSUME NEW c, Start(c) \/ Stop(c) \/ Opened(c) \/ OpenFails(c) \/ UNCHANGED vars
      PROVE  UNCHANGED <<infos, file, dirty, catalog, mpc>>
  BY <1>3 DEF Start, Stop, Opened, OpenFails, Worker, vars, registry
<1>4. CASE BeginSave
  BY <1>4 DEF BeginSave, CleanMeansSaved, SavingCatalog, registry
<1>5. CASE EndSave
  BY <1>5 DEF EndSave, CleanMeansSaved, SavingCatalog
<1>6. CASE Crash \/ Shutdown
  BY <1>6 DEF Crash, Shutdown, CleanMeansSaved, SavingCatalog
<1>7. CASE Boot
  <2>1. /\ infos' = Readable(file) /\ file' = file
        /\ catalog' = CatalogOf(infos') /\ mpc' = "run"
    BY <1>7 DEF Boot
  <2> QED
    BY <2>1, ReadTwice DEF CleanMeansSaved, SavingCatalog
<1>8. ASSUME mpc' = "run", dirty' = TRUE
      PROVE  CleanMeansSaved' /\ SavingCatalog'
  BY <1>8 DEF CleanMeansSaved, SavingCatalog
<1> QED
  BY <1>1, <1>2, <1>3, <1>4, <1>5, <1>6, <1>7, <1>8 DEF Next, Request, Save

-----------------------------------------------------------------------------
(* The theorems.                                                           *)

LEMMA InitIndInv == Init => IndInv
<1> SUFFICES ASSUME Init PROVE IndInv
  OBVIOUS
<1>0. MaxId \in Nat /\ 0 \in Ids /\ Free \notin Channels
  BY VideoSplitAssumption DEF Ids
<1>1. /\ infos = NoEntry /\ file = NoEntry /\ catalog = NoEntry /\ running = NoEntry
      /\ DOMAIN NoEntry = {} /\ DOMAIN Readable(NoEntry) = {}
      /\ \A R : Table(NoEntry, R)
  BY EmptyMap DEF Init
<1>2. TypeOK
  BY <1>0, <1>1 DEF Init, TypeOK
<1>3. KnownChannels
  BY <1>1 DEF KnownChannels
<1>4. IdsAreUnique /\ FileIds
  BY <1>1 DEF IdsAreUnique, FileIds, Registered, Stitched
<1>5. ClaimsMatch
  BY <1>0, <1>1 DEF Init, ClaimsMatch, Registered
<1>6. FileAddrs
  BY <1>1 DEF FileAddrs
<1>7. FreshIds /\ LiveStateIsTrue
  BY <1>1 DEF Init, FreshIds, LiveStateIsTrue, Registered
<1>8. GpuUseCounts
  <2>1. \A g \in Gpus : {c \in Stitched : running[c].gpu = g} = {}
    BY <1>1 DEF Stitched
  <2> QED
    BY <2>1, FS_EmptySet DEF Init, GpuUseCounts
<1>9. CleanMeansSaved /\ SavingCatalog
  <2>1. CatalogOf(NoEntry) = NoEntry
    BY DEF CatalogOf, NoEntry
  <2> QED
    BY <1>1, <2>1 DEF Init, CleanMeansSaved, SavingCatalog
<1> QED
  BY <1>2, <1>3, <1>4, <1>5, <1>6, <1>7, <1>8, <1>9 DEF IndInv

LEMMA StepIndInv == IndInv /\ [Next]_vars => IndInv'
<1> SUFFICES ASSUME IndInv, [Next]_vars PROVE IndInv'
  OBVIOUS
<1>0. /\ TypeOK /\ KnownChannels /\ IdsAreUnique /\ FileIds
      /\ ShortIds = {} => (ClaimsMatch /\ FileAddrs)
      /\ FreshIds /\ LiveStateIsTrue /\ GpuUseCounts /\ CleanMeansSaved /\ SavingCatalog
  BY DEF IndInv
<1>1. TypeOK' /\ GpuUseCounts'
  BY <1>0, TypeStep, GpuStep
<1>2. KnownChannels' /\ IdsAreUnique' /\ FileIds'
  BY <1>0, KnownStep, IdsStep
<1>3. ShortIds = {} => (ClaimsMatch' /\ FileAddrs')
  BY <1>0, ClaimsStep
<1>4. FreshIds' /\ LiveStateIsTrue'
  BY <1>0, LiveStep
<1>5. CleanMeansSaved' /\ SavingCatalog'
  BY <1>0, SavedStep
<1> QED
  BY <1>1, <1>2, <1>3, <1>4, <1>5 DEF IndInv

\* Whatever requests, worker steps, saves, crashes and reloads happen, the
\* registry and the stitches keep their inductive invariant.
THEOREM Invariance == Spec => []IndInv
<1>1. Init => IndInv
  BY InitIndInv
<1>2. IndInv /\ [Next]_vars => IndInv'
  BY StepIndInv
<1> QED
  BY <1>1, <1>2, PTL DEF Spec

\* add_video_split never gives a numeric id twice, across crash and reload.
THEOREM UniqueIds == Spec => []IdsAreUnique
<1>1. IndInv => IdsAreUnique
  BY DEF IndInv
<1> QED
  BY <1>1, Invariance, PTL

\* A channel keeps its numeric id while it is registered, across a reload.
THEOREM StableIds == Spec => IdsAreStable
<1>1. IndInv /\ [Next]_vars =>
        [\A c \in Registered \cap Registered' : infos'[c].id = infos[c].id]_vars
  BY IdsStableStep DEF IndInv, Registered
<1> QED
  BY <1>1, Invariance, PTL DEF Spec, IdsAreStable

\* The state told to the web interface and to the video management server is
\* that of the stitch.
THEOREM TrueLiveState == Spec => []LiveStateIsTrue
<1>1. IndInv => LiveStateIsTrue
  BY DEF IndInv
<1> QED
  BY <1>1, Invariance, PTL

\* The uses of a GPU are counted, so use_gpu_index balances what really runs.
THEOREM TrueGpuUse == Spec => []GpuUseCounts
<1>1. IndInv => GpuUseCounts
  BY DEF IndInv
<1> QED
  BY <1>1, Invariance, PTL

\* A registry that is not marked as changed is the one a restart reads.
THEOREM SavedRegistry == Spec => []CleanMeansSaved
<1>1. IndInv => CleanMeansSaved
  BY DEF IndInv
<1> QED
  BY <1>1, Invariance, PTL

\* If no channel id is short, no two channels get one multicast address, and no
\* two stitches that agree with the registry send to one.
THEOREM ExclusiveAddresses ==
  ASSUME ShortIds = {}
  PROVE  Spec => [](ClaimsMatch /\ CurrentStreamsDiffer)
<1>1. IndInv => ClaimsMatch /\ CurrentStreamsDiffer
  <2> SUFFICES ASSUME IndInv PROVE ClaimsMatch /\ CurrentStreamsDiffer
    OBVIOUS
  <2>1. ClaimsMatch
    BY DEF IndInv
  <2>2. DOMAIN infos \subseteq Channels /\ \A c \in DOMAIN infos : infos[c].addr \in Addrs
    BY DEF IndInv, TypeOK, Table, Info
  <2>3. \A c, d \in DOMAIN infos : infos[c].addr = infos[d].addr => c = d
    BY <2>1, <2>2 DEF ClaimsMatch, Registered
  <2> QED
    BY <2>1, <2>3 DEF CurrentStreamsDiffer, Registered
<1> QED
  BY <1>1, Invariance, PTL
=============================================================================
