------------------------------- MODULE Camera -------------------------------
(***************************************************************************)
(* ccamera_info_mgr: the registered cameras and the thread that checks     *)
(* whether each one sends.                                                 *)
(*                                                                         *)
(* The main loop owns the map of cameras.  A request that adds or changes  *)
(* a camera queues a copy of it for the check thread; when that queue is   *)
(* empty a tick may queue all of them again.  The thread takes a copy,     *)
(* listens to its address for up to five seconds without any lock, and     *)
(* queues the result.  A tick applies the results by camera id.  So a      *)
(* result may come back after its camera was changed or deleted.           *)
(*                                                                         *)
(* What a check finds is abstracted to the address it was made at: `seen'  *)
(* is the address that the state of a camera comes from.                   *)
(***************************************************************************)
EXTENDS Naturals, Sequences, FiniteSets, Functions

CONSTANTS
  Addrs,        \* ip, address and port of a camera
  NotSeen,      \* where the state of a camera that was never checked comes from
  MaxId,        \* bound: camera ids given out
  MaxChanges    \* bound: requests that change the registry in one run of the process

ASSUME CameraAssumption ==
  NotSeen \notin Addrs /\ MaxId \in Nat /\ MaxChanges \in Nat

VARIABLES
  m_camera_info_map,
  m_camera_index,
  dirty,            \* m_data_type # EDataNone
  file,             \* camera_list.json: the address of each camera
  m_checking,       \* m_checking_camera_info_status_list
  hand,             \* camera_info of the check thread
  m_checkend,       \* m_checkend_camera_info_status_list
  m_stoped,
  mpc,              \* main thread: "requests", "apply", "save", "saving", "join", "down"
  wpc,              \* check thread: "take", "taken", "testing", "done"
  changes           \* requests so far

vars == <<m_camera_info_map, m_camera_index, dirty, file, m_checking, hand,
          m_checkend, m_stoped, mpc, wpc, changes>>
registry == <<m_camera_info_map, m_camera_index, dirty>>
worker == <<hand, wpc>>

Ids == 0 .. MaxId - 1
Registered == DOMAIN m_camera_info_map

Put(f, i, r) == [x \in DOMAIN f \cup {i} |-> IF x = i THEN r ELSE f[x]]
Item(i, a) == [id |-> i, addr |-> a]
AddrsOf(m) == [i \in DOMAIN m |-> m[i].addr]
Unchecked(f) == [i \in DOMAIN f |-> [addr |-> f[i], seen |-> NotSeen]]

\* The cameras of m in the order of their ids, as update queues them.
Snapshot(m) ==
  {s \in [1 .. Cardinality(DOMAIN m) -> {Item(i, m[i].addr) : i \in DOMAIN m}] :
     \A j, k \in DOMAIN s : j < k => s[j].id < s[k].id}

\* The places of the last item for camera i in s: one or none.
LastOf(s, i) == {k \in DOMAIN s : s[k].id = i /\ \A j \in DOMAIN s : j > k => s[j].id # i}
LastAddr(s, i) == s[CHOOSE k \in LastOf(s, i) : TRUE].addr

NoCamera == [i \in {} |-> NotSeen]

Init == /\ m_camera_info_map = NoCamera
        /\ m_camera_index = 0
        /\ dirty = FALSE
        /\ file = NoCamera
        /\ m_checking = << >>
        /\ hand = << >>
        /\ m_checkend = << >>
        /\ m_stoped = FALSE
        /\ mpc = "requests"
        /\ wpc = "take"
        /\ changes = 0

-----------------------------------------------------------------------------
(* Requests.                                                               *)

Change == /\ mpc = "requests"
          /\ changes < MaxChanges
          /\ changes' = changes + 1
          /\ dirty' = TRUE
          /\ UNCHANGED <<file, m_checkend, m_stoped, mpc, worker>>

\* Mutant of Add: the check waits for the next round.
AddUnchecked(a) ==
  /\ Change
  /\ m_camera_index \in Ids
  /\ m_camera_info_map' = Put(m_camera_info_map, m_camera_index, [addr |-> a, seen |-> NotSeen])
  /\ m_camera_index' = m_camera_index + 1
  /\ UNCHANGED m_checking

\* handler_add_camera_infos, for one camera; the check is queued under the
\* lock that the check thread takes cameras with.
Add(a) ==
  /\ Change
  /\ m_camera_index \in Ids
  /\ m_camera_info_map' = Put(m_camera_info_map, m_camera_index, [addr |-> a, seen |-> NotSeen])
  /\ m_camera_index' = m_camera_index + 1
  /\ m_checking' = Append(m_checking, Item(m_camera_index, a))

\* Mutant of Modify: the check is queued in front of older ones.
ModifyInFront(i, a) ==
  /\ Change
  /\ IF i \in Registered
       THEN /\ m_camera_info_map' = [m_camera_info_map EXCEPT ![i].addr = a]
            /\ m_checking' = <<Item(i, a)>> \o m_checking
       ELSE UNCHANGED <<m_camera_info_map, m_checking>>
  /\ UNCHANGED m_camera_index

\* handler_modify_camera_infos: the state stays until the check is made.  A
\* request for an unknown camera marks the registry as changed, too.
Modify(i, a) ==
  /\ Change
  /\ IF i \in Registered
       THEN /\ m_camera_info_map' = [m_camera_info_map EXCEPT ![i].addr = a]
            /\ m_checking' = Append(m_checking, Item(i, a))
       ELSE UNCHANGED <<m_camera_info_map, m_checking>>
  /\ UNCHANGED m_camera_index

\* handler_delete_camera: checks that are queued or being made stay.
Delete(i) == /\ Change
             /\ i \in Registered
             /\ m_camera_info_map' = Restrict(m_camera_info_map, Registered \ {i})
             /\ UNCHANGED <<m_camera_index, m_checking>>

-----------------------------------------------------------------------------
(* The tick of the main loop: update.                                      *)

\* If the period has passed and no check is queued, all the cameras are.
Refresh == /\ mpc = "requests"
           /\ m_checking' \in IF m_checking = << >> THEN Snapshot(m_camera_info_map)
                                                   ELSE {m_checking}
           /\ mpc' = "apply"
           /\ UNCHANGED <<registry, file, m_checkend, m_stoped, worker, changes>>

SkipRefresh == /\ mpc = "requests"
               /\ mpc' = "apply"
               /\ UNCHANGED <<registry, file, m_checking, m_checkend, m_stoped, worker, changes>>

\* Mutant of Apply: a camera keeps the first of its results.
ApplyFirst ==
  /\ mpc = "apply"
  /\ m_camera_info_map' =
       [i \in Registered |->
          LET ks == {k \in DOMAIN m_checkend : m_checkend[k].id = i} IN
          IF ks = {} THEN m_camera_info_map[i]
          ELSE [m_camera_info_map[i] EXCEPT
                  !.seen = m_checkend[CHOOSE k \in ks : \A j \in ks : k <= j].addr]]
  /\ m_checkend' = << >>
  /\ mpc' = IF dirty THEN "save" ELSE "requests"
  /\ UNCHANGED <<m_camera_index, dirty, file, m_checking, m_stoped, worker, changes>>

\* The results are applied in their order, and dropped if the camera is gone.
Apply ==
  /\ mpc = "apply"
  /\ m_camera_info_map' =
       [i \in Registered |->
          IF LastOf(m_checkend, i) = {} THEN m_camera_info_map[i]
          ELSE [m_camera_info_map[i] EXCEPT !.seen = LastAddr(m_checkend, i)]]
  /\ m_checkend' = << >>
  /\ mpc' = IF dirty THEN "save" ELSE "requests"
  /\ UNCHANGED <<m_camera_index, dirty, file, m_checking, m_stoped, worker, changes>>

\* _write_all_camera_config: fopen("wb+") truncates, fwrite fills.
BeginSave == /\ mpc = "save"
             /\ file' = NoCamera
             /\ mpc' = "saving"
             /\ UNCHANGED <<registry, m_checking, m_checkend, m_stoped, worker, changes>>

\* Mutant of EndSave: the file has the addresses that were checked.
EndSaveSeen == /\ mpc = "saving"
               /\ file' = [i \in Registered |-> m_camera_info_map[i].seen]
               /\ dirty' = FALSE
               /\ mpc' = IF m_stoped THEN "down" ELSE "requests"
               /\ UNCHANGED <<m_camera_info_map, m_camera_index, m_checking, m_checkend,
                              m_stoped, worker, changes>>

EndSave == /\ mpc = "saving"
           /\ file' = AddrsOf(m_camera_info_map)
           /\ dirty' = FALSE
           /\ mpc' = IF m_stoped THEN "down" ELSE "requests"
           /\ UNCHANGED <<m_camera_info_map, m_camera_index, m_checking, m_checkend,
                          m_stoped, worker, changes>>

-----------------------------------------------------------------------------
(* The check thread: _pthread_check_camera_status.                         *)

Alive == mpc # "down"

\* The front of the queue is taken; with an empty queue the thread sleeps.
Take == /\ Alive /\ wpc = "take" /\ ~m_stoped
        /\ m_checking # << >>
        /\ hand' = <<Head(m_checking)>>
        /\ m_checking' = Tail(m_checking)
        /\ wpc' = "taken"
        /\ UNCHANGED <<registry, file, m_checkend, m_stoped, mpc, changes>>

Begin == /\ Alive /\ wpc = "taken" /\ ~m_stoped
         /\ wpc' = "testing"
         /\ UNCHANGED <<registry, file, m_checking, hand, m_checkend, m_stoped, mpc, changes>>

\* Mutant of Push: the result of a check is lost.
PushNothing == /\ Alive /\ wpc = "testing"
               /\ hand' = << >>
               /\ wpc' = "take"
               /\ UNCHANGED <<registry, file, m_checking, m_checkend, m_stoped, mpc, changes>>

\* test_udp_connect has returned: its result is queued for the main loop.
Push == /\ Alive /\ wpc = "testing"
        /\ m_checkend' = m_checkend \o hand
        /\ hand' = << >>
        /\ wpc' = "take"
        /\ UNCHANGED <<registry, file, m_checking, m_stoped, mpc, changes>>

\* Mutant of Leave: the stop is seen only when a check has been made.
LeaveAfterTest == /\ Alive /\ wpc = "testing" /\ m_stoped
                  /\ wpc' = "done"
                  /\ UNCHANGED <<registry, file, m_checking, hand, m_checkend, m_stoped,
                                 mpc, changes>>

\* A camera in hand is dropped if the thread sees the stop before its test.
Leave == /\ Alive /\ wpc \in {"take", "taken"} /\ m_stoped
         /\ wpc' = "done"
         /\ UNCHANGED <<registry, file, m_checking, hand, m_checkend, m_stoped, mpc, changes>>

-----------------------------------------------------------------------------
(* Stopping, crashing and starting again.                                  *)

\* destroy: the flag is set, the thread joined, what has changed is saved.
Stop == /\ mpc = "requests"
        /\ m_stoped' = TRUE
        /\ mpc' = "join"
        /\ UNCHANGED <<registry, file, m_checking, m_checkend, worker, changes>>

Join == /\ mpc = "join" /\ wpc = "done"
        /\ mpc' = IF dirty THEN "save" ELSE "down"
        /\ UNCHANGED <<registry, file, m_checking, m_checkend, m_stoped, worker, changes>>

Crash == /\ Alive
         /\ mpc' = "down"
         /\ UNCHANGED <<registry, file, m_checking, m_checkend, m_stoped, worker, changes>>

\* _parse_json_data leaves m_camera_index one above every id it has read.
NextIndex(f) == {i \in 0 .. MaxId : /\ i = 0 \/ \E j \in DOMAIN f : i = j + 1
                                    /\ \A j \in DOMAIN f : j < i}

\* init: the file is read and every camera is queued before the thread starts.
Boot == /\ mpc = "down"
        /\ m_camera_info_map' = Unchecked(file)
        /\ m_camera_index' \in NextIndex(file)
        /\ dirty' = FALSE
        /\ m_checking' \in Snapshot(m_camera_info_map')
        /\ hand' = << >>
        /\ m_checkend' = << >>
        /\ m_stoped' = FALSE
        /\ mpc' = "requests"
        /\ wpc' = "take"
        /\ changes' = 0
        /\ UNCHANGED file

-----------------------------------------------------------------------------
Request == \E i \in Ids, a \in Addrs : Add(a) \/ Modify(i, a) \/ Delete(i)
Tick == Refresh \/ SkipRefresh \/ Apply \/ BeginSave \/ EndSave
Check == Take \/ Begin \/ Push \/ Leave

Next == Request \/ Tick \/ Check \/ Stop \/ Join \/ Crash \/ Boot

Spec == Init /\ [][Next]_vars

\* The main loop ticks for as long as it runs, and both threads are scheduled;
\* nothing makes anybody start the process again.
FairSpec == Spec /\ WF_vars(Tick) /\ WF_vars(Check) /\ WF_vars(Join)

-----------------------------------------------------------------------------
(* Properties.                                                             *)

Items == [id : Ids, addr : Addrs]
Cameras == [addr : Addrs, seen : Addrs \cup {NotSeen}]

TypeOK ==
  /\ Registered \subseteq Ids /\ m_camera_info_map \in [Registered -> Cameras]
  /\ DOMAIN file \subseteq Ids /\ file \in [DOMAIN file -> Addrs]
  /\ m_camera_index \in 0 .. MaxId
  /\ m_checking \in Seq(Items) /\ m_checkend \in Seq(Items)
  /\ hand = << >> \/ \E it \in Items : hand = <<it>>
  /\ dirty \in BOOLEAN /\ m_stoped \in BOOLEAN
  /\ mpc \in {"requests", "apply", "save", "saving", "join", "down"}
  /\ wpc \in {"take", "taken", "testing", "done"}
  /\ changes \in 0 .. MaxChanges

\* The address that the state of camera i will come from when all that is
\* queued, being made and unapplied now is done.
Latest(i) == IF LastOf(m_checking, i) # {} THEN LastAddr(m_checking, i)
             ELSE IF LastOf(hand, i) # {} THEN LastAddr(hand, i)
             ELSE IF LastOf(m_checkend, i) # {} THEN LastAddr(m_checkend, i)
             ELSE m_camera_info_map[i].seen

\* However requests, ticks and the slow checks interleave, the last word on a
\* camera is a check at the address it has now: a result that comes back late,
\* made at an address the camera no longer has, is always followed by another.
\* In particular a camera with no check outstanding shows the state of its
\* present address.
LatestCheckIsCurrent ==
  \A i \in Registered : Latest(i) = m_camera_info_map[i].addr

\* Results are applied by id alone.  So none may be outstanding for an id that
\* can still be given out: it would be applied to another camera.
OutstandingIdsAreOld ==
  /\ Registered \subseteq 0 .. m_camera_index - 1
  /\ \A s \in {m_checking, hand, m_checkend} : \A k \in DOMAIN s : s[k].id < m_camera_index

\* Between two ticks, a registry that is not marked as changed is the one that
\* a restart reads.
CleanMeansSaved ==
  (mpc = "requests" /\ ~dirty) => file = AddrsOf(m_camera_info_map)

\* The inductive invariant: the thread has no camera in hand when it takes one,
\* and an unmarked registry is saved at every point but inside a save.
Queues == /\ LatestCheckIsCurrent
          /\ OutstandingIdsAreOld
          /\ wpc = "take" => hand = << >>

Saving == /\ mpc \in {"save", "saving"} => dirty
          /\ (mpc # "down" /\ ~dirty) => file = AddrsOf(m_camera_info_map)

CameraInv == TypeOK /\ Queues /\ Saving

\* A camera that was added or given another address is checked at it, unless
\* it is changed again or deleted, or the process stops.
ChangesAreChecked ==
  \A i \in Ids, a \in Addrs :
    (i \in Registered /\ m_camera_info_map[i].addr = a) ~>
      \/ m_stoped \/ mpc = "down"
      \/ i \notin Registered
      \/ m_camera_info_map[i].addr # a
      \/ m_camera_info_map[i].seen = a

\* destroy returns although a check may be in its five seconds.
StopReturns == m_stoped ~> mpc = "down"
=============================================================================
