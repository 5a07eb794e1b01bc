---------------------------- MODULE CameraProofs ----------------------------
(***************************************************************************)
(* For any cameras, addresses and number of requests: CameraInv is an      *)
(* invariant of the camera registry and its check thread.  So the last     *)
(* check outstanding for a camera is always one of its present address,    *)
(* and no result is ever applied to another camera.                        *)
(***************************************************************************)
EXTENDS Camera, FiniteSetTheorems, SequenceTheorems, WellFoundedInduction, TLAPS

-----------------------------------------------------------------------------
(* The last item for a camera in a queue.                                  *)

\* There is at most one last item, and LastAddr is its address.
LEMMA LastIsUnique ==
  ASSUME NEW s \in Seq(Items), NEW i, NEW k \in LastOf(s, i)
  PROVE  LastOf(s, i) = {k} /\ LastAddr(s, i) = s[k].addr
<1>1. ASSUME NEW l \in LastOf(s, i) PROVE l = k
  <2>1. k \in Nat /\ l \in Nat
    BY DEF LastOf
  <2> QED BY <2>1 DEF LastOf
<1>2. LastOf(s, i) = {k}
  BY <1>1
<1> QED BY <1>2 DEF LastAddr

\* A camera that has an item has a last one.
LEMMA LastExists ==
  ASSUME NEW s \in Seq(Items), NEW i, NEW k \in DOMAIN s, s[k].id = i
  PROVE  LastOf(s, i) # {}
<1> DEFINE n == Len(s)
           T == {n - j : j \in {l \in 1 .. n : s[l].id = i}}
<1>1. n \in Nat /\ DOMAIN s = 1 .. n
  OBVIOUS
<1> HIDE DEF n
<1>2. T \subseteq Nat /\ T # {}
  BY <1>1
<1>3. PICK x \in T : \A y \in T : ~ (<<y, x>> \in OpToRel(<, Nat))
  BY <1>2, WFMin, NatLessThanWellFounded
<1>4. \A y \in T : ~ (y < x)
  BY <1>2, <1>3 DEF OpToRel
<1>5. PICK j \in 1 .. n : s[j].id = i /\ x = n - j
  BY <1>3
<1>6. ASSUME NEW l \in 1 .. n, l > j, s[l].id = i PROVE FALSE
  <2>1. n - l \in T
    BY <1>6
  <2>2. n - l < x
    BY <1>1, <1>5, <1>6
  <2> QED BY <1>4, <2>1, <2>2
<1>7. j \in LastOf(s, i)
  BY <1>1, <1>5, <1>6 DEF LastOf
<1> QED BY <1>7

LEMMA LastOfNone == ASSUME NEW i PROVE LastOf(<< >>, i) = {}
BY DEF LastOf

LEMMA LastOfOne ==
  ASSUME NEW it \in Items, NEW i
  PROVE  /\ it.id = i => (LastOf(<<it>>, i) # {} /\ LastAddr(<<it>>, i) = it.addr)
         /\ it.id # i => LastOf(<<it>>, i) = {}
<1>1. <<it>> \in Seq(Items) /\ DOMAIN <<it>> = {1} /\ <<it>>[1] = it
  OBVIOUS
<1>2. CASE it.id = i
  <2>1. 1 \in LastOf(<<it>>, i)
    BY <1>1, <1>2 DEF LastOf
  <2> QED BY <1>1, <1>2, <2>1, LastIsUnique
<1>3. CASE it.id # i
  BY <1>1, <1>3 DEF LastOf
<1> QED BY <1>2, <1>3

\* The item appended is the last for its camera, and changes no other.
LEMMA LastOfAppend ==
  ASSUME NEW s \in Seq(Items), NEW it \in Items, NEW i
  PROVE  /\ it.id = i => /\ LastOf(Append(s, it), i) # {}
                         /\ LastAddr(Append(s, it), i) = it.addr
         /\ it.id # i => /\ LastOf(Append(s, it), i) = LastOf(s, i)
                         /\ LastOf(s, i) # {} => LastAddr(Append(s, it), i) = LastAddr(s, i)
<1> DEFINE t == Append(s, it)
<1>1. /\ t \in Seq(Items) /\ Len(s) \in Nat
      /\ DOMAIN s = 1 .. Len(s) /\ DOMAIN t = 1 .. Len(s) + 1
      /\ t[Len(s) + 1] = it
      /\ \A k \in 1 .. Len(s) : t[k] = s[k]
  OBVIOUS
<1> HIDE DEF t
<1>2. CASE it.id = i
  <2>1. Len(s) + 1 \in LastOf(t, i)
    BY <1>1, <1>2 DEF LastOf
  <2>2. LastAddr(t, i) = it.addr
    BY <1>1, <2>1, LastIsUnique
  <2> QED BY <1>2, <2>1, <2>2 DEF t
<1>3. CASE it.id # i
  <2>1. ASSUME NEW k \in LastOf(t, i) PROVE k \in LastOf(s, i)
    <3>1. k \in 1 .. Len(s)
      BY <1>1, <1>3 DEF LastOf
    <3>2. ASSUME NEW j \in 1 .. Len(s), j > k PROVE s[j].id # i
      BY <1>1, <3>2 DEF LastOf
    <3> QED BY <1>1, <3>1, <3>2 DEF LastOf
  <2>2. ASSUME NEW k \in LastOf(s, i) PROVE k \in LastOf(t, i)
    <3>1. k \in 1 .. Len(s) /\ t[k].id = i
      BY <1>1 DEF LastOf
    <3>2. ASSUME NEW j \in 1 .. Len(s) + 1, j > k PROVE t[j].id # i
      <4>1. CASE j = Len(s) + 1
        BY <1>1, <1>3, <4>1
      <4>2. CASE j \in 1 .. Len(s)
        BY <1>1, <3>2, <4>2 DEF LastOf
      <4> QED BY <1>1, <4>1, <4>2
    <3> QED BY <1>1, <3>1, <3>2 DEF LastOf
  <2>3. LastOf(t, i) = LastOf(s, i)
    BY <2>1, <2>2
  <2>4. ASSUME NEW k \in LastOf(s, i) PROVE LastAddr(t, i) = LastAddr(s, i)
    <3>1. k \in 1 .. Len(s)
      BY <1>1 DEF LastOf
    <3>2. LastAddr(s, i) = s[k].addr
      BY LastIsUnique
    <3>3. LastAddr(t, i) = t[k].addr
      BY <1>1, <2>3, LastIsUnique
    <3> QED BY <1>1, <3>1, <3>2, <3>3
  <2> QED BY <1>3, <2>3, <2>4 DEF t
<1> QED BY <1>2, <1>3

\* When the head is taken, the last item for a camera stays, or was the head.
LEMMA LastOfTail ==
  ASSUME NEW s \in Seq(Items), s # << >>, NEW i
  PROVE  /\ LastOf(Tail(s), i) # {} => /\ LastOf(s, i) # {}
                                       /\ LastAddr(s, i) = LastAddr(Tail(s), i)
         /\ (LastOf(Tail(s), i) = {} /\ LastOf(s, i) # {}) =>
              /\ Head(s).id = i /\ LastAddr(s, i) = Head(s).addr
         /\ (LastOf(Tail(s), i) = {} /\ LastOf(s, i) = {}) => Head(s).id # i
<1> DEFINE t == Tail(s)
           h == Head(s)
<1>1. /\ t \in Seq(Items) /\ Len(s) \in Nat \ {0}
      /\ DOMAIN s = 1 .. Len(s) /\ DOMAIN t = 1 .. Len(s) - 1
      /\ s[1] = h
      /\ \A k \in 1 .. Len(s) - 1 : t[k] = s[k + 1]
  OBVIOUS
<1> HIDE DEF t, h
<1>2. ASSUME NEW k \in LastOf(t, i)
      PROVE  LastOf(s, i) # {} /\ LastAddr(s, i) = LastAddr(t, i)
  <2>1. k \in 1 .. Len(s) - 1 /\ t[k].id = i
    BY <1>1 DEF LastOf
  <2>2. k + 1 \in 1 .. Len(s) /\ s[k + 1].id = i
    BY <1>1, <2>1
  <2>3. ASSUME NEW j \in 1 .. Len(s), j > k + 1 PROVE s[j].id # i
    <3>1. j - 1 \in 1 .. Len(s) - 1 /\ j - 1 > k /\ t[j - 1] = s[j]
      BY <1>1, <2>1, <2>3
    <3> QED BY <1>1, <3>1 DEF LastOf
  <2>4. k + 1 \in LastOf(s, i)
    BY <1>1, <2>2, <2>3 DEF LastOf
  <2>5. LastAddr(s, i) = s[k + 1].addr
    BY <2>4, LastIsUnique
  <2>6. LastAddr(t, i) = t[k].addr
    BY <1>1, LastIsUnique
  <2> QED BY <1>1, <2>1, <2>4, <2>5, <2>6
<1>3. ASSUME LastOf(t, i) = {}, NEW k \in LastOf(s, i)
      PROVE  h.id = i /\ LastAddr(s, i) = h.addr
  <2>1. k \in 1 .. Len(s) /\ s[k].id = i
    BY <1>1 DEF LastOf
  <2>2. k = 1
    <3> SUFFICES ASSUME k # 1 PROVE FALSE
      OBVIOUS
    <3>1. k - 1 \in 1 .. Len(s) - 1 /\ t[k - 1].id = i
      BY <1>1, <2>1
    <3>2. ASSUME NEW j \in 1 .. Len(s) - 1, j > k - 1 PROVE t[j].id # i
      <4>1. j + 1 \in 1 .. Len(s) /\ j + 1 > k /\ t[j] = s[j + 1]
        BY <1>1, <2>1, <3>2
      <4> QED BY <1>1, <4>1 DEF LastOf
    <3>3. k - 1 \in LastOf(t, i)
      BY <1>1, <3>1, <3>2 DEF LastOf
    <3> QED BY <1>3, <3>3
  <2> QED BY <1>1, <2>1, <2>2, LastIsUnique
<1>4. h.id = i => LastOf(s, i) # {}
  BY <1>1, LastExists
<1> QED BY <1>2, <1>3, <1>4 DEF t, h

-----------------------------------------------------------------------------
(* A round of checks.                                                      *)

\* What update and init queue: for every camera of the map a check of it, made
\* at its address.  As many items as cameras, in the order of their ids, leave
\* no camera out.
LEMMA SnapshotChecksAll ==
  ASSUME NEW m, DOMAIN m \subseteq Ids, \A i \in DOMAIN m : m[i].addr \in Addrs,
         NEW s \in Snapshot(m)
  PROVE  /\ s \in Seq(Items)
         /\ \A k \in DOMAIN s : s[k].id \in DOMAIN m /\ s[k].addr = m[s[k].id].addr
         /\ \A i \in DOMAIN m : LastOf(s, i) # {}
<1> DEFINE n == Cardinality(DOMAIN m)
           f == [k \in 1 .. n |-> s[k].id]
<1>1. IsFiniteSet(DOMAIN m) /\ n \in Nat
  <2>1. IsFiniteSet(Ids)
    BY CameraAssumption, FS_Interval DEF Ids
  <2>2. IsFiniteSet(DOMAIN m)
    BY <2>1, FS_Subset
  <2> QED BY <2>2, FS_CardinalityType
<1> HIDE DEF n
<1>2. /\ s \in [1 .. n -> {Item(i, m[i].addr) : i \in DOMAIN m}]
      /\ \A j, k \in DOMAIN s : j < k => s[j].id < s[k].id
  BY DEF Snapshot, n
<1>3. \A k \in 1 .. n : /\ s[k].id \in DOMAIN m /\ s[k].addr = m[s[k].id].addr
                        /\ s[k] \in Items
  <2> SUFFICES ASSUME NEW k \in 1 .. n
               PROVE  /\ s[k].id \in DOMAIN m /\ s[k].addr = m[s[k].id].addr
                      /\ s[k] \in Items
    OBVIOUS
  <2>1. PICK i \in DOMAIN m : s[k] = Item(i, m[i].addr)
    BY <1>2
  <2> QED BY <2>1 DEF Item, Items
<1>4. s \in Seq(Items) /\ DOMAIN s = 1 .. n
  BY <1>1, <1>2, <1>3
<1>5. f \in Injection(1 .. n, DOMAIN m)
  <2>1. f \in [1 .. n -> DOMAIN m]
    BY <1>3
  <2>2. ASSUME NEW j \in 1 .. n, NEW k \in 1 .. n, f[j] = f[k] PROVE j = k
    <3>1. s[j].id = s[k].id /\ s[j].id \in Nat
      BY <1>3, <2>2 DEF Ids
    <3> QED BY <1>1, <1>2, <1>4, <3>1
  <2> QED BY <2>1, <2>2 DEF Injection, IsInjective
<1>6. f \in Surjection(1 .. n, DOMAIN m)
  <2>1. Cardinality(1 .. n) = n
    BY <1>1, FS_Interval
  <2> QED BY <1>1, <1>5, <2>1, FS_Injection DEF n
<1>7. ASSUME NEW i \in DOMAIN m PROVE LastOf(s, i) # {}
  <2>1. PICK k \in 1 .. n : f[k] = i
    BY <1>6 DEF Surjection
  <2> QED BY <1>4, <2>1, LastExists
<1> QED BY <1>3, <1>4, <1>7

-----------------------------------------------------------------------------
(* The invariant.                                                          *)

LEMMA HandIsSequence == ASSUME TypeOK PROVE hand \in Seq(Items)
<1>1. << >> \in Seq(Items) /\ \A it \in Items : <<it>> \in Seq(Items)
  OBVIOUS
<1> QED BY <1>1 DEF TypeOK

\* A queue that gets a check of camera i at address a, which is the camera's
\* address now, while nothing else changes but the map at i.
LEMMA QueuedCheckIsLatest ==
  ASSUME TypeOK, LatestCheckIsCurrent, NEW i \in Ids, NEW a \in Addrs,
         m_checking' = Append(m_checking, Item(i, a)),
         UNCHANGED <<hand, m_checkend>>,
         Registered' = Registered \cup {i},
         m_camera_info_map'[i].addr = a,
         \A j \in Registered \ {i} : m_camera_info_map'[j] = m_camera_info_map[j]
  PROVE  LatestCheckIsCurrent'
<1> SUFFICES ASSUME NEW j \in Registered' PROVE Latest(j)' = m_camera_info_map'[j].addr
  BY DEF LatestCheckIsCurrent
<1>1. Item(i, a) \in Items /\ Item(i, a).id = i /\ Item(i, a).addr = a
  BY DEF Item, Items
<1>2. m_checking \in Seq(Items)
  BY DEF TypeOK
<1>3. CASE j = i
  BY <1>1, <1>2, <1>3, LastOfAppend DEF Latest
<1>4. CASE j # i
  <2>1. j \in Registered /\ m_camera_info_map'[j] = m_camera_info_map[j]
    BY <1>4
  <2>2. /\ LastOf(m_checking', j) = LastOf(m_checking, j)
        /\ LastOf(m_checking, j) # {} => LastAddr(m_checking', j) = LastAddr(m_checking, j)
    BY <1>1, <1>2, <1>4, LastOfAppend
  <2>3. Latest(j)' = Latest(j)
    BY <2>1, <2>2 DEF Latest
  <2> QED BY <2>1, <2>3 DEF LatestCheckIsCurrent
<1> QED BY <1>3, <1>4

\* The ids in queue s are below n.
Old(s, n) == \A k \in DOMAIN s : s[k].id < n

LEMMA OldParts ==
  OutstandingIdsAreOld <=>
    /\ Registered \subseteq 0 .. m_camera_index - 1
    /\ Old(m_checking, m_camera_index) /\ Old(hand, m_camera_index)
    /\ Old(m_checkend, m_camera_index)
BY DEF OutstandingIdsAreOld, Old

LEMMA OldStaysOld ==
  ASSUME NEW s \in Seq(Items), NEW n \in Nat, Old(s, n) PROVE Old(s, n + 1)
<1> SUFFICES ASSUME NEW k \in DOMAIN s PROVE s[k].id < n + 1
  BY DEF Old
<1>1. s[k] \in Items
  OBVIOUS
<1>2. s[k].id \in Nat
  BY <1>1 DEF Items, Ids
<1> QED BY <1>2 DEF Old

\* Ids stay old when an item of an old id is queued.
LEMMA QueuedIdIsOld ==
  ASSUME NEW s \in Seq(Items), NEW it \in Items, NEW n \in Nat, it.id < n, Old(s, n)
  PROVE  Old(Append(s, it), n)
<1> USE DEF Old
<1> SUFFICES ASSUME NEW k \in DOMAIN Append(s, it) PROVE Append(s, it)[k].id < n
  OBVIOUS
<1>1. k \in 1 .. Len(s) + 1 /\ Len(s) \in Nat /\ DOMAIN s = 1 .. Len(s)
  OBVIOUS
<1>2. CASE k = Len(s) + 1
  BY <1>2
<1>3. CASE k \in 1 .. Len(s)
  BY <1>1, <1>3
<1> QED BY <1>1, <1>2, <1>3

LEMMA AddKeepsInv == ASSUME CameraInv, NEW a \in Addrs, Add(a) PROVE CameraInv'
<1> DEFINE i == m_camera_index
<1>0. TypeOK /\ Queues /\ Saving
  BY DEF CameraInv
<1>1. i \in Ids /\ MaxId \in Nat /\ Item(i, a) \in Items /\ Item(i, a).id = i
  BY CameraAssumption DEF Add, Item, Items
<1>2. /\ Registered' = Registered \cup {i}
      /\ m_camera_info_map'[i] = [addr |-> a, seen |-> NotSeen]
      /\ \A j \in Registered \ {i} : m_camera_info_map'[j] = m_camera_info_map[j]
      /\ m_camera_info_map' \in [Registered' -> Cameras]
  BY <1>0, <1>1 DEF Add, Put, Registered, Cameras, TypeOK
<1>3. m_checking' = Append(m_checking, Item(i, a)) /\ m_checking' \in Seq(Items)
  BY <1>0, <1>1 DEF Add, TypeOK
<1>4. UNCHANGED <<file, m_checkend, m_stoped, mpc, hand, wpc>> /\ dirty' = TRUE
  BY DEF Add, Change, worker
<1>5. TypeOK'
  <2>1. Registered' \subseteq Ids /\ changes' \in 0 .. MaxChanges
    BY <1>0, <1>1, <1>2, CameraAssumption DEF TypeOK, Add, Change
  <2>2. m_camera_index' \in 0 .. MaxId
    BY <1>1 DEF Add, Ids
  <2> QED BY <1>0, <1>2, <1>3, <1>4, <2>1, <2>2 DEF TypeOK
<1>6. LatestCheckIsCurrent'
  BY <1>0, <1>1, <1>2, <1>3, <1>4, QueuedCheckIsLatest DEF Queues
<1>7. OutstandingIdsAreOld'
  <2>1. m_camera_index' = i + 1 /\ i \in Nat
    BY <1>1 DEF Add, Ids
  <2>2. m_checking \in Seq(Items) /\ m_checkend \in Seq(Items) /\ hand \in Seq(Items)
    BY <1>0, HandIsSequence DEF TypeOK
  <2>3. Old(m_checking, i + 1) /\ Old(hand, i + 1) /\ Old(m_checkend, i + 1)
    BY <1>0, <2>1, <2>2, OldParts, OldStaysOld DEF Queues
  <2>4. Old(m_checking', i + 1)
    <3>1. Item(i, a).id < i + 1 /\ i + 1 \in Nat
      BY <1>1, <2>1
    <3> QED BY <1>1, <1>3, <2>1, <2>2, <2>3, <3>1, QueuedIdIsOld
  <2>5. Registered' \subseteq 0 .. m_camera_index' - 1
    <3>1. Registered \subseteq 0 .. i - 1
      BY <1>0, OldParts DEF Queues
    <3> QED BY <1>2, <2>1, <3>1
  <2> QED BY <1>4, <2>1, <2>3, <2>4, <2>5 DEF OutstandingIdsAreOld, Old
<1>8. Queues' /\ Saving'
  BY <1>0, <1>4, <1>6, <1>7 DEF Queues, Saving
<1> QED BY <1>5, <1>8 DEF CameraInv

LEMMA ModifyKeepsInv ==
  ASSUME CameraInv, NEW i \in Ids, NEW a \in Addrs, Modify(i, a) PROVE CameraInv'
<1>0. TypeOK /\ Queues /\ Saving
  BY DEF CameraInv
<1>1. /\ UNCHANGED <<m_camera_index, file, m_checkend, m_stoped, mpc, hand, wpc>>
      /\ dirty' = TRUE
  BY DEF Modify, Change, worker
<1>2. changes' \in 0 .. MaxChanges
  BY <1>0, CameraAssumption DEF TypeOK, Modify, Change
<1>3. Saving'
  BY <1>1 DEF Saving
<1>4. CASE i \in Registered
  <2>1. Item(i, a) \in Items /\ Item(i, a).id = i
    BY DEF Item, Items
  <2>2. /\ Registered' = Registered \cup {i}
        /\ m_camera_info_map'[i].addr = a
        /\ \A j \in Registered \ {i} : m_camera_info_map'[j] = m_camera_info_map[j]
        /\ m_camera_info_map' \in [Registered' -> Cameras]
    <3>1. m_camera_info_map' = [m_camera_info_map EXCEPT ![i].addr = a]
      BY <1>4 DEF Modify
    <3>2. m_camera_info_map \in [Registered -> Cameras]
      BY <1>0 DEF TypeOK
    <3>3. Registered' = Registered /\ m_camera_info_map'[i] = [m_camera_info_map[i] EXCEPT !.addr = a]
      BY <1>4, <3>1, <3>2 DEF Registered
    <3>4. m_camera_info_map[i] \in Cameras
      BY <1>4, <3>2
    <3>5. m_camera_info_map'[i].addr = a /\ m_camera_info_map'[i] \in Cameras
      BY <3>3, <3>4 DEF Cameras
    <3>6. \A j \in Registered \ {i} : m_camera_info_map'[j] = m_camera_info_map[j]
      BY <3>1, <3>2
    <3>7. m_camera_info_map' \in [Registered -> Cameras]
      BY <3>1, <3>2, <3>5, <3>6
    <3> QED BY <1>4, <3>3, <3>5, <3>6, <3>7
  <2>3. m_checking' = Append(m_checking, Item(i, a)) /\ m_checking' \in Seq(Items)
    <3>1. m_checking' = Append(m_checking, Item(i, a))
      BY <1>4 DEF Modify
    <3> QED BY <1>0, <2>1, <3>1 DEF TypeOK
  <2>4. TypeOK'
    BY <1>0, <1>1, <1>2, <1>4, <2>2, <2>3 DEF TypeOK
  <2>5. LatestCheckIsCurrent'
    BY <1>0, <1>1, <2>2, <2>3, QueuedCheckIsLatest DEF Queues
  <2>6. Old(m_checking', m_camera_index)
    <3>1. m_camera_index \in Nat /\ m_checking \in Seq(Items)
      BY <1>0, CameraAssumption DEF TypeOK
    <3>2. Old(m_checking, m_camera_index) /\ Item(i, a).id < m_camera_index
      BY <1>0, <1>4, <2>1, <3>1, OldParts DEF Queues
    <3> QED BY <2>1, <2>3, <3>1, <3>2, QueuedIdIsOld
  <2>7. OutstandingIdsAreOld'
    BY <1>0, <1>1, <1>4, <2>2, <2>6, OldParts DEF OutstandingIdsAreOld, Old, Queues
  <2> QED BY <1>0, <1>1, <1>3, <2>4, <2>5, <2>7 DEF CameraInv, Queues
<1>5. CASE i \notin Registered
  <2>1. UNCHANGED <<m_camera_info_map, m_checking>>
    BY <1>5 DEF Modify
  <2>2. TypeOK'
    BY <1>0, <1>1, <1>2, <2>1 DEF TypeOK, Registered
  <2>3. Queues'
    BY <1>0, <1>1, <2>1
    DEF Queues, LatestCheckIsCurrent, Latest, OutstandingIdsAreOld, Registered
  <2> QED BY <1>3, <2>2, <2>3 DEF CameraInv
<1> QED BY <1>4, <1>5

LEMMA DeleteKeepsInv == ASSUME CameraInv, NEW i \in Ids, Delete(i) PROVE CameraInv'
<1>0. TypeOK /\ Queues /\ Saving
  BY DEF CameraInv
<1>1. /\ UNCHANGED <<m_camera_index, m_checking, file, m_checkend, m_stoped, mpc, hand, wpc>>
      /\ dirty' = TRUE
  BY DEF Delete, Change, worker
<1>2. /\ Registered' = Registered \ {i}
      /\ \A j \in Registered' : m_camera_info_map'[j] = m_camera_info_map[j]
      /\ m_camera_info_map' \in [Registered' -> Cameras]
  BY <1>0 DEF Delete, Restrict, Registered, TypeOK
<1>3. changes' \in 0 .. MaxChanges
  BY <1>0, CameraAssumption DEF TypeOK, Delete, Change
<1>4. TypeOK'
  BY <1>0, <1>1, <1>2, <1>3 DEF TypeOK
<1>5. LatestCheckIsCurrent'
  BY <1>0, <1>1, <1>2 DEF Queues, LatestCheckIsCurrent, Latest
<1>6. OutstandingIdsAreOld'
  BY <1>0, <1>1, <1>2 DEF Queues, OutstandingIdsAreOld
<1>7. Queues' /\ Saving'
  BY <1>0, <1>1, <1>5, <1>6 DEF Queues, Saving
<1> QED BY <1>4, <1>7 DEF CameraInv

\* A round that queues all the cameras: each of them is checked at its address,
\* and nothing was queued before.
LEMMA RefreshKeepsInv == ASSUME CameraInv, Refresh PROVE CameraInv'
<1>0. TypeOK /\ Queues /\ Saving
  BY DEF CameraInv
<1>1. /\ UNCHANGED <<m_camera_info_map, m_camera_index, dirty, file, m_checkend, m_stoped,
                     hand, wpc, changes>>
      /\ mpc = "requests" /\ mpc' = "apply"
  BY DEF Refresh, registry, worker
<1>2. Saving'
  BY <1>0, <1>1 DEF Saving, AddrsOf
<1>3. CASE m_checking' = m_checking
  <2>1. TypeOK'
    BY <1>0, <1>1, <1>3 DEF TypeOK, Registered
  <2>2. Queues'
    BY <1>0, <1>1, <1>3
    DEF Queues, LatestCheckIsCurrent, Latest, OutstandingIdsAreOld, Registered
  <2> QED BY <1>2, <2>1, <2>2 DEF CameraInv
<1>4. CASE m_checking = << >> /\ m_checking' \in Snapshot(m_camera_info_map)
  <2>1. /\ m_checking' \in Seq(Items)
        /\ \A k \in DOMAIN m_checking' :
             /\ m_checking'[k].id \in Registered
             /\ m_checking'[k].addr = m_camera_info_map[m_checking'[k].id].addr
        /\ \A i \in Registered : LastOf(m_checking', i) # {}
    BY <1>0, <1>4, SnapshotChecksAll DEF TypeOK, Registered, Cameras
  <2>2. TypeOK'
    BY <1>0, <1>1, <2>1 DEF TypeOK, Registered
  <2>3. LatestCheckIsCurrent'
    <3> SUFFICES ASSUME NEW i \in Registered PROVE Latest(i)' = m_camera_info_map[i].addr
      BY <1>1 DEF LatestCheckIsCurrent, Registered
    <3>1. PICK k \in DOMAIN m_checking' : k \in LastOf(m_checking', i) /\ m_checking'[k].id = i
      BY <2>1 DEF LastOf
    <3>2. LastAddr(m_checking', i) = m_camera_info_map[i].addr
      BY <2>1, <3>1, LastIsUnique
    <3> QED BY <2>1, <3>2 DEF Latest
  <2>4. OutstandingIdsAreOld'
    <3>1. m_camera_index \in Nat
      BY <1>0, CameraAssumption DEF TypeOK
    <3>2. Registered \subseteq 0 .. m_camera_index - 1
      BY <1>0, OldParts DEF Queues
    <3>3. Old(m_checking', m_camera_index)
      <4> SUFFICES ASSUME NEW k \in DOMAIN m_checking' PROVE m_checking'[k].id < m_camera_index
        BY DEF Old
      <4>1. m_checking'[k].id \in 0 .. m_camera_index - 1
        BY <2>1, <3>2
      <4> QED BY <3>1, <4>1
    <3> QED BY <1>0, <1>1, <3>2, <3>3, OldParts DEF Queues, OutstandingIdsAreOld, Old, Registered
  <2>5. Queues'
    BY <1>0, <1>1, <2>3, <2>4 DEF Queues
  <2> QED BY <1>2, <2>2, <2>5 DEF CameraInv
<1> QED BY <1>3, <1>4 DEF Refresh

\* The results are taken out of the queue and into the map in one step: for
\* each camera the last of them, which Latest pointed to if no check followed.
LEMMA ApplyKeepsInv == ASSUME CameraInv, Apply PROVE CameraInv'
<1>0. TypeOK /\ Queues /\ Saving
  BY DEF CameraInv
<1>1. /\ UNCHANGED <<m_camera_index, dirty, file, m_checking, m_stoped, hand, wpc, changes>>
      /\ mpc = "apply" /\ mpc' = (IF dirty THEN "save" ELSE "requests")
      /\ m_checkend' = << >>
  BY DEF Apply, worker
<1>2. /\ Registered' = Registered
      /\ \A i \in Registered :
           /\ m_camera_info_map'[i].addr = m_camera_info_map[i].addr
           /\ LastOf(m_checkend, i) = {} =>
                m_camera_info_map'[i].seen = m_camera_info_map[i].seen
           /\ LastOf(m_checkend, i) # {} =>
                m_camera_info_map'[i].seen = LastAddr(m_checkend, i)
      /\ m_camera_info_map' \in [Registered -> Cameras]
  <2>1. m_camera_info_map \in [Registered -> Cameras] /\ m_checkend \in Seq(Items)
    BY <1>0 DEF TypeOK
  <2>2. ASSUME NEW i \in Registered, LastOf(m_checkend, i) # {}
        PROVE  LastAddr(m_checkend, i) \in Addrs
    <3>1. PICK k \in DOMAIN m_checkend : k \in LastOf(m_checkend, i)
      BY <2>2 DEF LastOf
    <3>2. m_checkend[k] \in Items
      BY <2>1, <3>1
    <3> QED BY <2>1, <3>1, <3>2, LastIsUnique DEF Items
  <2>3. Registered' = Registered
    BY DEF Apply, Registered
  <2>4. \A i \in Registered :
          m_camera_info_map'[i] =
            IF LastOf(m_checkend, i) = {} THEN m_camera_info_map[i]
            ELSE [m_camera_info_map[i] EXCEPT !.seen = LastAddr(m_checkend, i)]
    BY DEF Apply
  <2>5. \A i \in Registered : m_camera_info_map'[i] \in Cameras
    BY <2>1, <2>2, <2>4 DEF Cameras
  <2>6. m_camera_info_map' \in [Registered -> Cameras]
    BY <2>3, <2>5 DEF Apply, Registered
  <2> QED BY <2>1, <2>3, <2>4, <2>6 DEF Cameras
<1>3. TypeOK'
  BY <1>0, <1>1, <1>2 DEF TypeOK
<1>4. LatestCheckIsCurrent'
  <2> SUFFICES ASSUME NEW i \in Registered PROVE Latest(i)' = m_camera_info_map'[i].addr
    BY <1>2 DEF LatestCheckIsCurrent
  <2>1. LastOf(m_checkend', i) = {}
    BY <1>1, LastOfNone
  <2>2. Latest(i)' = Latest(i)
    BY <1>1, <1>2, <2>1 DEF Latest
  <2> QED BY <1>0, <1>2, <2>2 DEF Queues, LatestCheckIsCurrent
<1>5. OutstandingIdsAreOld'
  BY <1>0, <1>1, <1>2 DEF Queues, OutstandingIdsAreOld
<1>6. AddrsOf(m_camera_info_map)' = AddrsOf(m_camera_info_map)
  BY <1>2 DEF AddrsOf, Registered
<1> QED BY <1>0, <1>1, <1>3, <1>4, <1>5, <1>6 DEF CameraInv, Queues, Saving

LEMMA TakeKeepsInv == ASSUME CameraInv, Take PROVE CameraInv'
<1>0. TypeOK /\ Queues /\ Saving
  BY DEF CameraInv
<1> DEFINE h == Head(m_checking)
<1>1. /\ UNCHANGED <<m_camera_info_map, m_camera_index, dirty, file, m_checkend, m_stoped,
                     mpc, changes>>
      /\ hand = << >> /\ hand' = <<h>> /\ m_checking' = Tail(m_checking)
      /\ wpc' = "taken"
  BY <1>0 DEF Take, registry, Queues
<1>2. m_checking \in Seq(Items) /\ m_checking # << >> /\ h \in Items /\ m_checking' \in Seq(Items)
  BY <1>0, <1>1 DEF Take, TypeOK
<1>3. TypeOK'
  BY <1>0, <1>1, <1>2 DEF TypeOK, Registered
<1>4. LatestCheckIsCurrent'
  <2> SUFFICES ASSUME NEW i \in Registered PROVE Latest(i)' = Latest(i)
    BY <1>0, <1>1 DEF Queues, LatestCheckIsCurrent, Registered
  <2>1. LastOf(hand, i) = {}
    BY <1>1, LastOfNone
  <2>2. CASE LastOf(m_checking', i) # {}
    BY <1>1, <1>2, <2>2, LastOfTail DEF Latest
  <2>3. CASE LastOf(m_checking', i) = {} /\ LastOf(m_checking, i) # {}
    <3>1. h.id = i /\ LastAddr(m_checking, i) = h.addr
      BY <1>1, <1>2, <2>3, LastOfTail
    <3>2. LastOf(hand', i) # {} /\ LastAddr(hand', i) = h.addr
      BY <1>1, <1>2, <3>1, LastOfOne
    <3> QED BY <2>3, <3>1, <3>2 DEF Latest
  <2>4. CASE LastOf(m_checking', i) = {} /\ LastOf(m_checking, i) = {}
    <3>1. h.id # i
      BY <1>1, <1>2, <2>4, LastOfTail
    <3>2. LastOf(hand', i) = {}
      BY <1>1, <1>2, <3>1, LastOfOne
    <3> QED BY <1>1, <2>1, <2>4, <3>2 DEF Latest
  <2> QED BY <2>2, <2>3, <2>4
<1>5. OutstandingIdsAreOld'
  <2>1. Old(m_checking', m_camera_index) /\ h.id < m_camera_index
    <3>1. Old(m_checking, m_camera_index)
      BY <1>0, OldParts DEF Queues
    <3>2. /\ DOMAIN m_checking = 1 .. Len(m_checking) /\ Len(m_checking) \in Nat \ {0}
          /\ DOMAIN m_checking' = 1 .. Len(m_checking) - 1
          /\ h = m_checking[1]
          /\ \A k \in 1 .. Len(m_checking) - 1 : m_checking'[k] = m_checking[k + 1]
      BY <1>1, <1>2
    <3>3. h.id < m_camera_index
      <4>1. 1 \in DOMAIN m_checking
        BY <3>2
      <4> QED BY <3>1, <3>2, <4>1 DEF Old
    <3>4. Old(m_checking', m_camera_index)
      <4> SUFFICES ASSUME NEW k \in DOMAIN m_checking' PROVE m_checking'[k].id < m_camera_index
        BY DEF Old
      <4>1. k + 1 \in DOMAIN m_checking /\ m_checking'[k] = m_checking[k + 1]
        BY <3>2
      <4> QED BY <3>1, <4>1 DEF Old
    <3> QED BY <3>3, <3>4
  <2>2. Old(hand', m_camera_index)
    BY <1>1, <2>1 DEF Old
  <2> QED BY <1>0, <1>1, <2>1, <2>2, OldParts
          DEF Queues, OutstandingIdsAreOld, Old, Registered
<1> QED BY <1>0, <1>1, <1>3, <1>4, <1>5 DEF CameraInv, Queues, Saving

LEMMA PushKeepsInv == ASSUME CameraInv, Push PROVE CameraInv'
<1>0. TypeOK /\ Queues /\ Saving
  BY DEF CameraInv
<1>1. /\ UNCHANGED <<m_camera_info_map, m_camera_index, dirty, file, m_checking, m_stoped,
                     mpc, changes>>
      /\ hand' = << >> /\ m_checkend' = m_checkend \o hand /\ wpc' = "take"
  BY DEF Push, registry
<1>2. m_checkend \in Seq(Items)
  BY <1>0 DEF TypeOK
<1>3. \A i : LastOf(hand', i) = {}
  BY <1>1, LastOfNone
<1>4. CASE hand = << >>
  <2>1. m_checkend' = m_checkend
    BY <1>1, <1>2, <1>4
  <2>2. TypeOK'
    BY <1>0, <1>1, <2>1 DEF TypeOK, Registered
  <2>3. LatestCheckIsCurrent' /\ OutstandingIdsAreOld'
    BY <1>0, <1>1, <1>4, <2>1
    DEF Queues, LatestCheckIsCurrent, Latest, OutstandingIdsAreOld, Registered
  <2> QED BY <1>0, <1>1, <2>2, <2>3 DEF CameraInv, Queues, Saving
<1>5. ASSUME NEW it \in Items, hand = <<it>> PROVE CameraInv'
  <2>1. m_checkend' = Append(m_checkend, it) /\ m_checkend' \in Seq(Items)
    BY <1>1, <1>2, <1>5
  <2>2. TypeOK'
    BY <1>0, <1>1, <2>1 DEF TypeOK, Registered
  <2>3. LatestCheckIsCurrent'
    <3> SUFFICES ASSUME NEW i \in Registered PROVE Latest(i)' = Latest(i)
      BY <1>0, <1>1 DEF Queues, LatestCheckIsCurrent, Registered
    <3>0. LastOf(hand', i) = {}
      BY <1>3
    <3>1. CASE it.id = i
      <4>1. LastOf(hand, i) # {} /\ LastAddr(hand, i) = it.addr
        BY <1>5, <3>1, LastOfOne
      <4>2. LastOf(m_checkend', i) # {} /\ LastAddr(m_checkend', i) = it.addr
        BY <1>2, <2>1, <3>1, LastOfAppend
      <4> QED BY <1>1, <3>0, <4>1, <4>2 DEF Latest
    <3>2. CASE it.id # i
      <4>1. LastOf(hand, i) = {}
        BY <1>5, <3>2, LastOfOne
      <4>2. /\ LastOf(m_checkend', i) = LastOf(m_checkend, i)
            /\ LastOf(m_checkend, i) # {} =>
                 LastAddr(m_checkend', i) = LastAddr(m_checkend, i)
        BY <1>2, <2>1, <3>2, LastOfAppend
      <4> QED BY <1>1, <3>0, <4>1, <4>2 DEF Latest
    <3> QED BY <3>1, <3>2
  <2>4. OutstandingIdsAreOld'
    <3>1. m_camera_index \in Nat
      BY <1>0, CameraAssumption DEF TypeOK
    <3>2. Old(m_checkend, m_camera_index) /\ it.id < m_camera_index
      BY <1>0, <1>5, OldParts DEF Queues, Old
    <3>3. Old(m_checkend', m_camera_index)
      BY <1>2, <2>1, <3>1, <3>2, QueuedIdIsOld
    <3>4. Old(hand', m_camera_index)
      BY <1>1 DEF Old
    <3> QED BY <1>0, <1>1, <3>3, <3>4 DEF Queues, OutstandingIdsAreOld, Old, Registered
  <2> QED BY <1>0, <1>1, <2>2, <2>3, <2>4 DEF CameraInv, Queues, Saving
<1> QED BY <1>0, <1>4, <1>5 DEF TypeOK

\* The steps that leave the map and the queues alone.
LEMMA OtherStepsKeepInv ==
  ASSUME CameraInv,
         \/ SkipRefresh \/ BeginSave \/ EndSave \/ Begin \/ Leave \/ Stop \/ Join \/ Crash
         \/ UNCHANGED vars
  PROVE  CameraInv'
<1>0. TypeOK /\ Queues /\ Saving
  BY DEF CameraInv
<1>1. /\ UNCHANGED <<m_camera_info_map, m_camera_index, m_checking, hand, m_checkend, changes>>
      /\ wpc' = "take" => wpc = "take"
  BY DEF SkipRefresh, BeginSave, EndSave, Begin, Leave, Stop, Join, Crash, vars, registry, worker
<1>2. Queues'
  BY <1>0, <1>1
  DEF Queues, LatestCheckIsCurrent, Latest, OutstandingIdsAreOld, Registered
<1> SUFFICES TypeOK' /\ Saving'
  BY <1>2 DEF CameraInv
<1> USE DEF TypeOK, Saving, Registered
<1>3. CASE SkipRefresh
  BY <1>0, <1>1, <1>3 DEF SkipRefresh, registry, worker
<1>4. CASE BeginSave
  <2>1. DOMAIN NoCamera \subseteq Ids /\ NoCamera \in [DOMAIN NoCamera -> Addrs]
    BY DEF NoCamera
  <2> QED BY <1>0, <1>1, <1>4, <2>1 DEF BeginSave, registry, worker
<1>5. CASE EndSave
  <2>1. /\ DOMAIN AddrsOf(m_camera_info_map) \subseteq Ids
        /\ AddrsOf(m_camera_info_map) \in [DOMAIN AddrsOf(m_camera_info_map) -> Addrs]
    BY <1>0 DEF AddrsOf, Cameras
  <2> QED BY <1>0, <1>1, <1>5, <2>1 DEF EndSave, worker
<1>6. CASE Begin
  BY <1>0, <1>1, <1>6 DEF Begin, registry
<1>7. CASE Leave
  BY <1>0, <1>1, <1>7 DEF Leave, registry
<1>8. CASE Stop
  BY <1>0, <1>1, <1>8 DEF Stop, registry, worker
<1>9. CASE Join
  BY <1>0, <1>1, <1>9 DEF Join, registry, worker
<1>10. CASE Crash
  BY <1>0, <1>1, <1>10 DEF Crash, registry, worker
<1>11. CASE UNCHANGED vars
  BY <1>0, <1>1, <1>11 DEF vars
<1> QED BY <1>3, <1>4, <1>5, <1>6, <1>7, <1>8, <1>9, <1>10, <1>11

\* A process that starts again gives out ids above all those it has read, and
\* checks every camera before it knows anything of it.
LEMMA BootKeepsInv == ASSUME CameraInv, Boot PROVE CameraInv'
<1>0. TypeOK
  BY DEF CameraInv
<1>1. /\ file' = file /\ dirty' = FALSE /\ m_stoped' = FALSE /\ mpc' = "requests"
      /\ wpc' = "take" /\ changes' = 0 /\ hand' = << >> /\ m_checkend' = << >>
      /\ m_checking' \in Snapshot(m_camera_info_map')
      /\ m_camera_index' \in NextIndex(file)
  BY DEF Boot
<1>2. /\ Registered' = DOMAIN file
      /\ \A i \in Registered' : m_camera_info_map'[i] = [addr |-> file[i], seen |-> NotSeen]
      /\ m_camera_info_map' \in [Registered' -> Cameras]
  <2>1. file \in [DOMAIN file -> Addrs]
    BY <1>0 DEF TypeOK
  <2> QED BY <2>1 DEF Boot, Unchecked, Registered, Cameras
<1>3. Registered' \subseteq Ids /\ \A i \in Registered' : m_camera_info_map'[i].addr \in Addrs
  BY <1>0, <1>2 DEF TypeOK
<1>4. /\ m_checking' \in Seq(Items)
      /\ \A k \in DOMAIN m_checking' :
           /\ m_checking'[k].id \in Registered'
           /\ m_checking'[k].addr = m_camera_info_map'[m_checking'[k].id].addr
      /\ \A i \in Registered' : LastOf(m_checking', i) # {}
  BY <1>1, <1>3, SnapshotChecksAll DEF Registered
<1>5. TypeOK'
  <2>1. m_camera_index' \in 0 .. MaxId
    BY <1>1 DEF NextIndex
  <2>2. 0 \in 0 .. MaxChanges
    BY CameraAssumption
  <2>3. /\ DOMAIN file' \subseteq Ids /\ file' \in [DOMAIN file' -> Addrs]
    BY <1>0, <1>1 DEF TypeOK
  <2>4. m_camera_info_map' \in [Registered' -> Cameras]
    BY <1>2
  <2>5. /\ dirty' \in BOOLEAN /\ m_stoped' \in BOOLEAN /\ changes' \in 0 .. MaxChanges
    BY <1>1, <2>2
  <2>6. m_checkend' \in Seq(Items) /\ hand' = << >>
    BY <1>1
  <2> QED BY <1>1, <1>3, <1>4, <2>1, <2>3, <2>4, <2>5, <2>6 DEF TypeOK
<1>6. LatestCheckIsCurrent'
  <2> SUFFICES ASSUME NEW i \in Registered' PROVE Latest(i)' = m_camera_info_map'[i].addr
    BY DEF LatestCheckIsCurrent
  <2>1. PICK k \in DOMAIN m_checking' : k \in LastOf(m_checking', i) /\ m_checking'[k].id = i
    BY <1>4 DEF LastOf
  <2>2. LastAddr(m_checking', i) = m_camera_info_map'[i].addr
    BY <1>4, <2>1, LastIsUnique
  <2> QED BY <1>4, <2>2 DEF Latest
<1>7. OutstandingIdsAreOld'
  <2>1. m_camera_index' \in Nat /\ \A j \in DOMAIN file : j < m_camera_index'
    BY <1>1, CameraAssumption DEF NextIndex
  <2>2. Registered' \subseteq 0 .. m_camera_index' - 1
    BY <1>2, <1>3, <2>1 DEF Ids
  <2>3. Old(m_checking', m_camera_index')
    BY <1>2, <1>4, <2>1 DEF Old
  <2>4. Old(hand', m_camera_index') /\ Old(m_checkend', m_camera_index')
    BY <1>1 DEF Old
  <2> QED BY <2>2, <2>3, <2>4 DEF OutstandingIdsAreOld, Old
<1>8. Saving'
  <2>1. AddrsOf(m_camera_info_map') = [i \in DOMAIN file |-> file[i]]
    BY <1>2 DEF AddrsOf, Registered
  <2> QED BY <1>0, <1>1, <2>1 DEF Saving, TypeOK
<1> QED BY <1>1, <1>5, <1>6, <1>7, <1>8 DEF CameraInv, Queues

LEMMA InitCameraInv == Init => CameraInv
<1> SUFFICES ASSUME Init PROVE CameraInv
  OBVIOUS
<1>1. Registered = {} /\ << >> \in Seq(Items)
  BY DEF Init, Registered, NoCamera
<1>2. TypeOK
  <2>1. 0 \in 0 .. MaxId /\ 0 \in 0 .. MaxChanges
    BY CameraAssumption
  <2>2. NoCamera \in [{} -> Cameras] /\ NoCamera \in [{} -> Addrs] /\ DOMAIN NoCamera = {}
    BY DEF NoCamera
  <2> QED BY <1>1, <2>1, <2>2 DEF Init, TypeOK, Registered
<1>3. Queues
  BY <1>1 DEF Init, Queues, LatestCheckIsCurrent, OutstandingIdsAreOld
<1>4. Saving
  BY DEF Init, Saving, AddrsOf, NoCamera
<1> QED BY <1>2, <1>3, <1>4 DEF CameraInv

\* CameraInv holds of every reachable state: the queues between the main loop
\* and the check thread, and the file, are as the code relies on.
THEOREM CameraInvariant == Spec => []CameraInv
<1>1. CameraInv /\ [Next]_vars => CameraInv'
  <2> SUFFICES ASSUME CameraInv, [Next]_vars PROVE CameraInv'
    OBVIOUS
  <2>1. CASE Request
    BY <2>1, AddKeepsInv, ModifyKeepsInv, DeleteKeepsInv DEF Request
  <2>2. CASE Tick
    BY <2>2, RefreshKeepsInv, ApplyKeepsInv, OtherStepsKeepInv DEF Tick
  <2>3. CASE Check
    BY <2>3, TakeKeepsInv, PushKeepsInv, OtherStepsKeepInv DEF Check
  <2>4. CASE Stop \/ Join \/ Crash \/ UNCHANGED vars
    BY <2>4, OtherStepsKeepInv
  <2>5. CASE Boot
    BY <2>5, BootKeepsInv
  <2> QED BY <2>1, <2>2, <2>3, <2>4, <2>5 DEF Next
<1> QED BY <1>1, InitCameraInv, PTL DEF Spec

\* However late a result comes back, the last check of a camera that is queued,
\* made or applied is one of the camera's present address.
THEOREM LatestCheckIsAlwaysCurrent == Spec => []LatestCheckIsCurrent
<1>1. CameraInv => LatestCheckIsCurrent
  BY DEF CameraInv, Queues
<1> QED BY <1>1, CameraInvariant, PTL

\* No result is outstanding for an id that can be given to another camera.
THEOREM OutstandingIdsAreAlwaysOld == Spec => []OutstandingIdsAreOld
<1>1. CameraInv => OutstandingIdsAreOld
  BY DEF CameraInv, Queues
<1> QED BY <1>1, CameraInvariant, PTL

\* Between two ticks an unmarked registry is the one that a restart reads.
THEOREM CleanAlwaysMeansSaved == Spec => []CleanMeansSaved
<1>1. CameraInv => CleanMeansSaved
  BY DEF CameraInv, Saving, CleanMeansSaved
<1> QED BY <1>1, CameraInvariant, PTL
=============================================================================
