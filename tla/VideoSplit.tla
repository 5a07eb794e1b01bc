----------------------------- MODULE VideoSplit -----------------------------
(***************************************************************************)
(* The registry of split channels and the manager of running stitches.     *)
(*                                                                         *)
(* cvideo_split_info_mgr keeps what a channel is: its id, the multicast    *)
(* address it sends to, its group of cameras and its status.  Two file     *)
(* globals guard it: the set of channel ids ever used by this process and  *)
(* the channel that claims each multicast address.  Changes are saved at   *)
(* the end of the main loop's tick, with fopen("wb+") and one fwrite.      *)
(*                                                                         *)
(* cvideo_split_mgr keeps the stitches that run, counts the uses of each   *)
(* GPU, and keeps, by numeric id, the state that the web interface and the *)
(* video management server are told.  Each stitch has a worker thread that *)
(* opens cameras and encoder and writes that state.                        *)
(*                                                                         *)
(* All the operations run on the main loop, one at a time; the workers and *)
(* crashes come in between.                                                *)
(***************************************************************************)
EXTENDS Naturals, FiniteSets, Functions

CONSTANTS
  Channels,        \* split_channel_id values
  ShortIds,        \* those of at most two characters
  Addrs,           \* multicast ip and port pairs
  Requests,        \* sets of camera positions a request may carry
  MinCameras, MaxCameras,   \* 2 and 10 in the code
  NumGpus,         \* g_gpu_index.size()
  UseGpuMaxCount,  \* configuration use_gpu_max_count
  MaxId,           \* bound: numeric ids given out
  Free             \* "", the value of an address nobody claims

ASSUME VideoSplitAssumption ==
  /\ IsFiniteSet(Channels) /\ ShortIds \subseteq Channels
  /\ Free \notin Channels
  /\ \A r \in Requests : IsFiniteSet(r)
  /\ MinCameras \in Nat /\ MaxCameras \in Nat
  /\ NumGpus \in Nat \ {0} /\ UseGpuMaxCount \in Nat /\ MaxId \in Nat

VARIABLES
  infos,       \* m_video_split_info_map, without the status
  status,      \* the status field of its entries
  channelIds,  \* g_global_channel_id
  claim,       \* g_global_video_channel
  nextId,      \* m_video_split_index
  dirty,       \* m_data_type # EDataNone
  file,        \* what video_split_list.json says
  catalog,     \* the id of each channel in the device list of the VMS client
  running,     \* m_video_split_map: id, address, GPU and worker of each stitch
  gpuUse,      \* m_gpu_use
  live,        \* m_channel_name_status_map
  mpc          \* the main thread: "run", "saving", or "down" after a crash

vars == <<infos, status, channelIds, claim, nextId, dirty, file, catalog,
          running, gpuUse, live, mpc>>
registry == <<infos, channelIds, claim, nextId, dirty>>
stitching == <<running, gpuUse, live>>

Gpus == 0 .. NumGpus - 1
Ids == 0 .. MaxId
NoEntry == [c \in {} |-> 0]          \* an empty map

Put(f, c, r) == [x \in DOMAIN f \cup {c} |-> IF x = c THEN r ELSE f[x]]
Drop(f, c) == Restrict(f, DOMAIN f \ {c})
CatalogOf(f) == [c \in DOMAIN f |-> f[c].id]

Init == /\ infos = NoEntry
        /\ status = [c \in Channels |-> 0]
        /\ channelIds = {}
        /\ claim = [a \in Addrs |-> Free]
        /\ nextId = 0
        /\ dirty = FALSE
        /\ file = NoEntry
        /\ catalog = NoEntry
        /\ running = NoEntry
        /\ gpuUse = [g \in Gpus |-> 0]
        /\ live = [i \in Ids |-> 0]
        /\ mpc = "run"

-----------------------------------------------------------------------------
(* Requests on the registry.  A refused request changes nothing.           *)

\* Mutant of AddNew: the multicast address is not looked up.
AddAnywhere(c, a, r) ==
  /\ mpc = "run"
  /\ c \notin DOMAIN infos
  /\ c \notin channelIds
  /\ nextId < MaxId
  /\ infos' = Put(infos, c, [id |-> nextId, addr |-> a, group |-> r])
  /\ status' = [status EXCEPT ![c] = 0]
  /\ channelIds' = channelIds \cup {c}
  /\ claim' = [claim EXCEPT ![a] = c]
  /\ nextId' = nextId + 1
  /\ dirty' = TRUE
  /\ UNCHANGED <<file, catalog, stitching, mpc>>

\* handler_web_add_video_split for a channel that is not in the map.
AddNew(c, a, r) ==
  /\ mpc = "run"
  /\ c \notin DOMAIN infos
  /\ claim[a] = Free
  /\ c \notin channelIds
  /\ nextId < MaxId
  /\ infos' = Put(infos, c, [id |-> nextId, addr |-> a, group |-> r])
  /\ status' = [status EXCEPT ![c] = 0]
  /\ channelIds' = channelIds \cup {c}
  /\ claim' = [claim EXCEPT ![a] = c]
  /\ nextId' = nextId + 1
  /\ dirty' = TRUE
  /\ UNCHANGED <<file, catalog, stitching, mpc>>

\* Another channel's claim counts only if its id is longer than two characters.
Taken(a, c) == claim[a] \notin {c, Free} \cup ShortIds

\* Mutant of Modify: the entry gets a new numeric id.
ModifyRenumbers(c, a, r) ==
  /\ mpc = "run"
  /\ c \in DOMAIN infos
  /\ ~Taken(a, c)
  /\ nextId < MaxId
  /\ infos' = [infos EXCEPT ![c].id = nextId, ![c].addr = a, ![c].group = @ \cup r]
  /\ status' = [status EXCEPT ![c] = 0]
  /\ claim' = [claim EXCEPT ![infos[c].addr] = Free, ![a] = c]
  /\ nextId' = nextId + 1
  /\ dirty' = TRUE
  /\ UNCHANGED <<channelIds, file, catalog, stitching, mpc>>

\* handler_web_add_video_split for a channel that is in the map.  The request
\* carries no status, so the entry's status becomes 0 even while it is
\* stitched, and a camera position, once given, is never taken away.
Modify(c, a, r) ==
  /\ mpc = "run"
  /\ c \in DOMAIN infos
  /\ ~Taken(a, c)
  /\ infos' = [infos EXCEPT ![c].addr = a, ![c].group = @ \cup r]
  /\ status' = [status EXCEPT ![c] = 0]
  /\ claim' = [claim EXCEPT ![infos[c].addr] = Free, ![a] = c]
  /\ dirty' = TRUE
  /\ UNCHANGED <<channelIds, nextId, file, catalog, stitching, mpc>>

\* handler_web_modify_video_split changes text and size, nothing modelled.
ModifyOsd(c) == /\ mpc = "run"
                /\ c \in DOMAIN infos
                /\ dirty' = TRUE
                /\ UNCHANGED <<infos, status, channelIds, claim, nextId, file,
                               catalog, stitching, mpc>>

\* What a stop does to the stitches: the worker is joined, the GPU given back,
\* and the state lowered if the channel is still in the registry.  The worker
\* may finish opening while it is joined.
StopStitch(c) ==
  /\ running' = Drop(running, c)
  /\ gpuUse' = [gpuUse EXCEPT ![running[c].gpu] = @ - 1]
  /\ LET i == running[c].id IN
       IF c \in DOMAIN infos THEN live' = [live EXCEPT ![i] = 0]
       ELSE IF running[c].worker = "opening"
              THEN \E s \in {0, 1} : live' = [live EXCEPT ![i] = s]
              ELSE UNCHANGED live

\* Mutant of Delete: the channel id may be used again, the orphan lives on.
DeleteForgetsId(c) ==
  /\ mpc = "run"
  /\ c \in DOMAIN infos
  /\ IF status[c] # 0 /\ c \in DOMAIN running THEN StopStitch(c)
                                               ELSE UNCHANGED stitching
  /\ claim' = [claim EXCEPT ![infos[c].addr] = Free]
  /\ infos' = Drop(infos, c)
  /\ status' = [status EXCEPT ![c] = 0]
  /\ channelIds' = channelIds \ {c}
  /\ dirty' = TRUE
  /\ UNCHANGED <<nextId, file, catalog, mpc>>

\* handler_web_delete_video_split stops the stitch only if the status says
\* that there is one.  The channel id stays in g_global_channel_id.
Delete(c) ==
  /\ mpc = "run"
  /\ c \in DOMAIN infos
  /\ IF status[c] # 0 /\ c \in DOMAIN running THEN StopStitch(c)
                                               ELSE UNCHANGED stitching
  /\ claim' = [claim EXCEPT ![infos[c].addr] = Free]
  /\ infos' = Drop(infos, c)
  /\ status' = [status EXCEPT ![c] = 0]
  /\ dirty' = TRUE
  /\ UNCHANGED <<channelIds, nextId, file, catalog, mpc>>

-----------------------------------------------------------------------------
(* Requests on the stitches: handler_web_cmd_video_split.                  *)

\* use_gpu_index: the first of the least used GPUs, or 0 when all are full.
Least(g) == /\ \A h \in Gpus : gpuUse[g] <= gpuUse[h]
            /\ \A h \in Gpus : h < g => gpuUse[g] < gpuUse[h]
UseGpuIndex(g) == \/ Least(g) /\ gpuUse[g] < UseGpuMaxCount
                  \/ g = 0 /\ \A h \in Gpus : gpuUse[h] >= UseGpuMaxCount

EnoughCameras(c) == Cardinality(infos[c].group) \in MinCameras .. MaxCameras

\* The stitch keeps the address the registry has now.
Start(c) ==
  /\ mpc = "run"
  /\ c \notin DOMAIN running
  /\ c \in DOMAIN infos
  /\ EnoughCameras(c)
  /\ \E g \in Gpus :
       /\ UseGpuIndex(g)
       /\ running' = Put(running, c, [id |-> infos[c].id, addr |-> infos[c].addr,
                                      gpu |-> g, worker |-> "opening"])
       /\ gpuUse' = [gpuUse EXCEPT ![g] = @ + 1]
  /\ status' = [status EXCEPT ![c] = 1]
  /\ UNCHANGED <<registry, file, catalog, live, mpc>>

\* The status of the registry entry is left as it is.
Stop(c) == /\ mpc = "run"
           /\ c \in DOMAIN running
           /\ StopStitch(c)
           /\ UNCHANGED <<registry, status, file, catalog, mpc>>

-----------------------------------------------------------------------------
(* The worker of a stitch: cvideo_splist::_pthread_work.                   *)

Worker(c, how, state) ==
  /\ mpc # "down"
  /\ c \in DOMAIN running
  /\ running[c].worker = "opening"
  /\ running' = [running EXCEPT ![c].worker = how]
  /\ live' = [live EXCEPT ![running[c].id] = state]
  /\ UNCHANGED <<registry, status, file, catalog, gpuUse, mpc>>

Opened(c) == Worker(c, "open", 1)

\* The worker ends; the stitch stays in the map until it is stopped.
OpenFails(c) == Worker(c, "failed", 0)

-----------------------------------------------------------------------------
(* Saving, crashing and starting again.                                    *)

\* _sync_save_video_split_data: the device list is rebuilt and the file is
\* truncated by fopen; a truncated file loads as an empty registry.
BeginSave == /\ mpc = "run"
             /\ dirty
             /\ catalog' = CatalogOf(infos)
             /\ file' = NoEntry
             /\ mpc' = "saving"
             /\ UNCHANGED <<registry, status, stitching>>

EndSave == /\ mpc = "saving"
           /\ file' = infos
           /\ dirty' = FALSE
           /\ mpc' = "run"
           /\ UNCHANGED <<infos, status, channelIds, claim, nextId, catalog, stitching>>

Crash == /\ mpc # "down"
         /\ mpc' = "down"
         /\ UNCHANGED <<registry, status, file, catalog, stitching>>

\* SIGTERM: the destructors save what has changed and stop every stitch.
Shutdown == /\ mpc = "run"
            /\ file' = IF dirty THEN infos ELSE file
            /\ mpc' = "down"
            /\ UNCHANGED <<registry, status, catalog, stitching>>

Claims(f) == {g \in [Addrs -> Channels \cup {Free}] :
                \A a \in Addrs : LET cs == {c \in DOMAIN f : f[c].addr = a}
                                 IN  IF cs = {} THEN g[a] = Free ELSE g[a] \in cs}

\* _parse_json_data leaves m_video_split_index one above every id it has read.
NextIds(f) == {i \in Ids : /\ i = 0 \/ \E c \in DOMAIN f : i = f[c].id + 1
                           /\ \A c \in DOMAIN f : f[c].id < i}

\* An empty camera group is saved as no member at all, and _parse_json_data
\* skips an entry without that member.
Readable(f) == Restrict(f, {c \in DOMAIN f : f[c].group # {}})

\* cvideo_split_info_mgr::init and cvideo_split_mgr::init.
Boot == /\ mpc = "down"
        /\ infos' = Readable(file)
        /\ status' = [c \in Channels |-> 0]
        /\ channelIds' = DOMAIN infos'
        /\ claim' \in Claims(infos')
        /\ nextId' \in NextIds(infos')
        /\ dirty' = FALSE
        /\ catalog' = CatalogOf(infos')
        /\ running' = NoEntry
        /\ gpuUse' = [g \in Gpus |-> 0]
        /\ live' = [i \in Ids |-> 0]
        /\ mpc' = "run"
        /\ UNCHANGED file

-----------------------------------------------------------------------------
Request(c) == \/ \E a \in Addrs, r \in Requests : AddNew(c, a, r) \/ Modify(c, a, r)
              \/ ModifyOsd(c) \/ Delete(c) \/ Start(c) \/ Stop(c)

Save == BeginSave \/ EndSave

Next == \/ \E c \in Channels : Request(c) \/ Opened(c) \/ OpenFails(c)
        \/ Save \/ Crash \/ Shutdown \/ Boot

Spec == Init /\ [][Next]_vars

-----------------------------------------------------------------------------
(* Properties.                                                             *)

Registered == DOMAIN infos
Stitched == DOMAIN running

Positions == UNION Requests
Info == [id : Ids, addr : Addrs, group : SUBSET Positions]
Stitch == [id : Ids, addr : Addrs, gpu : Gpus, worker : {"opening", "open", "failed"}]

Table(f, R) == DOMAIN f \subseteq Channels /\ f \in [DOMAIN f -> R]

TypeOK == /\ Table(infos, Info) /\ Table(file, Info) /\ Table(running, Stitch)
          /\ Table(catalog, Ids)
          /\ status \in [Channels -> {0, 1}]
          /\ channelIds \subseteq Channels
          /\ claim \in [Addrs -> Channels \cup {Free}]
          /\ nextId \in Ids
          /\ dirty \in BOOLEAN
          /\ gpuUse \in [Gpus -> Nat]
          /\ live \in [Ids -> {0, 1}]
          /\ mpc \in {"run", "saving", "down"}

\* Every registered channel claims the multicast address it is registered
\* with, and nobody else claims an address: handler_web_add_video_split cannot
\* give one address to two channels, whatever requests, deletions, crashes and
\* reloads come before.  Holds when no channel id is short.
ClaimsMatch ==
  \A a \in Addrs : \A c \in Channels :
    claim[a] = c <=> (c \in Registered /\ infos[c].addr = a)

\* Two stitches that send to the address the registry has for them never send
\* to the same one.
CurrentStreamsDiffer ==
  \A c, d \in Stitched \cap Registered :
    (c # d /\ running[c].addr = infos[c].addr /\ running[d].addr = infos[d].addr)
       => running[c].addr # running[d].addr

\* A numeric id belongs to one channel, registered or still stitched after its
\* deletion, and the next id is above all of them.
IdsAreUnique ==
  /\ \A c, d \in Registered : infos[c].id = infos[d].id => c = d
  /\ \A c \in Registered : infos[c].id < nextId
  /\ \A c \in Stitched : /\ running[c].id < nextId
                         /\ \A d \in Registered : infos[d].id = running[c].id <=> c = d

\* The state reported for a registered channel, to the web interface and to
\* the video management server, is 1 just when its stitch is open.
LiveStateIsTrue ==
  \A c \in Registered :
    live[infos[c].id] = 1 <=> (c \in Stitched /\ running[c].worker = "open")

\* m_gpu_use counts the stitches on each GPU, orphaned ones included.
GpuUseCounts ==
  \A g \in Gpus : gpuUse[g] = Cardinality({c \in Stitched : running[c].gpu = g})

\* When no change is pending a restart finds every channel that it can read, as
\* it is, and the channel list the video management server may query is that of
\* the registry.
CleanMeansSaved ==
  (mpc = "run" /\ ~dirty) => /\ Readable(file) = Readable(infos)
                             /\ catalog = CatalogOf(infos)

\* What the properties rest on.  Every channel id in use, in memory, in a stitch
\* or in the file, was used by this process, so it is refused to a new channel;
\* the ids and the addresses in the file are distinct, and a channel that is
\* both in the file and in memory has one id; an id not given out yet has state
\* 0; and the device list of a save in progress is that of the registry.
KnownChannels ==
  DOMAIN infos \cup DOMAIN running \cup DOMAIN Readable(file) \subseteq channelIds

FileIds ==
  LET f == Readable(file) IN
    /\ \A c, d \in DOMAIN f : f[c].id = f[d].id => c = d
    /\ \A c \in DOMAIN f \cap Registered : f[c].id = infos[c].id

FileAddrs ==
  LET f == Readable(file) IN \A c, d \in DOMAIN f : f[c].addr = f[d].addr => c = d

FreshIds == \A i \in Ids : i >= nextId => live[i] = 0

SavingCatalog == mpc = "saving" => catalog = CatalogOf(infos)

\* The inductive invariant of handler_web_add_video_split, of the stitches and
\* of the reload, from which the properties above are proved.
IndInv ==
  /\ TypeOK
  /\ KnownChannels
  /\ IdsAreUnique /\ FileIds
  /\ ShortIds = {} => (ClaimsMatch /\ FileAddrs)
  /\ FreshIds /\ LiveStateIsTrue
  /\ GpuUseCounts
  /\ CleanMeansSaved /\ SavingCatalog

\* A channel keeps its numeric id for as long as it is registered, a crash and
\* the reload included.
IdsAreStable ==
  [][\A c \in Registered \cap Registered' : infos'[c].id = infos[c].id]_vars
=============================================================================
