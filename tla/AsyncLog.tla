------------------------------ MODULE AsyncLog ------------------------------
(***************************************************************************)
(* The asynchronous log (clib/casync_log.cpp).                             *)
(*                                                                         *)
(* Every thread of the server appends lines to m_log_item under m_lock and *)
(* notifies m_condition after the unlock.  One worker thread waits for     *)
(* lines, takes them one at a time and writes them; it tests m_stoped and  *)
(* m_log_item.empty() without the lock.  LOG::destroy is the last call of  *)
(* cvideo_split_server::Destroy, when the other threads have been joined:  *)
(* it stores m_stoped and notifies, without the lock, and joins the        *)
(* worker.                                                                 *)
(***************************************************************************)
EXTENDS Naturals, Sequences

CONSTANTS
  Writers,     \* threads that log
  MaxLines,    \* bound: lines each of them logs
  NoLine       \* the worker holds no line

Lines == Writers \X (1 .. MaxLines)

ASSUME AsyncLogAssumption == MaxLines \in Nat /\ NoLine \notin Lines

VARIABLES
  m_log_item,  \* lines appended and not taken, oldest first
  m_stoped,
  logged,      \* how many lines each writer has given to append_var
  wpc,         \* each writer: "idle", "tested" m_stoped, "pushed" a line
  kpc,         \* the worker: "loop", "asleep", "drain", "write", "done",
               \* and "wait" (in wait, lock to take), "unready" (lock held,
               \* predicate found false)
  taken,       \* the line the worker writes
  written,     \* lines in the file, oldest first
  dpc          \* LOG::destroy: "run", "stored", "notified", "freed"

vars == <<m_log_item, m_stoped, logged, wpc, kpc, taken, written, dpc>>

Init == /\ m_log_item = << >>
        /\ m_stoped = FALSE
        /\ logged = [w \in Writers |-> 0]
        /\ wpc = [w \in Writers |-> "idle"]
        /\ kpc = "loop"
        /\ taken = NoLine
        /\ written = << >>
        /\ dpc = "run"

Unlocked == kpc # "unready"

-----------------------------------------------------------------------------
(* casync_log::append_var, and append_fix, which does the same.            *)

\* After a stop the line is dropped.
TestStoped(w) ==
  /\ wpc[w] = "idle"
  /\ logged[w] < MaxLines
  /\ logged' = [logged EXCEPT ![w] = @ + 1]
  /\ wpc' = [wpc EXCEPT ![w] = IF m_stoped THEN "idle" ELSE "tested"]
  /\ UNCHANGED <<m_log_item, m_stoped, kpc, taken, written, dpc>>

\* Mutant of Push: the lock is not taken, so the worker may be between its
\* test of the predicate and its sleep.
PushUnlocked(w) ==
  /\ wpc[w] = "tested"
  /\ m_log_item' = Append(m_log_item, <<w, logged[w]>>)
  /\ wpc' = [wpc EXCEPT ![w] = "pushed"]
  /\ UNCHANGED <<m_stoped, logged, kpc, taken, written, dpc>>

Push(w) ==
  /\ wpc[w] = "tested"
  /\ Unlocked
  /\ m_log_item' = Append(m_log_item, <<w, logged[w]>>)
  /\ wpc' = [wpc EXCEPT ![w] = "pushed"]
  /\ UNCHANGED <<m_stoped, logged, kpc, taken, written, dpc>>

NotifyOne(w) ==
  /\ wpc[w] = "pushed"
  /\ wpc' = [wpc EXCEPT ![w] = "idle"]
  /\ kpc' = IF kpc = "asleep" THEN "wait" ELSE kpc
  /\ UNCHANGED <<m_log_item, m_stoped, logged, taken, written, dpc>>

-----------------------------------------------------------------------------
(* casync_log::_work_pthread.                                              *)

Work(from, to) == kpc = from /\ kpc' = to
Rest == <<logged, wpc, dpc>>

\* while (!m_stoped || !m_log_item.empty()), without the lock.
TestLoop ==
  /\ kpc = "loop"
  /\ kpc' = IF m_stoped /\ m_log_item = << >> THEN "done" ELSE "wait"
  /\ UNCHANGED <<m_log_item, m_stoped, taken, written, Rest>>

\* Mutant of TestPredicate: the predicate does not look at m_stoped.
TestPredicateIgnoresStop ==
  /\ kpc = "wait"
  /\ kpc' = IF m_log_item # << >> THEN "drain" ELSE "unready"
  /\ UNCHANGED <<m_log_item, m_stoped, taken, written, Rest>>

\* m_condition.wait takes the lock and tests its predicate.
TestPredicate ==
  /\ kpc = "wait"
  /\ kpc' = IF m_log_item # << >> \/ m_stoped THEN "drain" ELSE "unready"
  /\ UNCHANGED <<m_log_item, m_stoped, taken, written, Rest>>

\* It unlocks and sleeps in one step.
Sleep == Work("unready", "asleep") /\ UNCHANGED <<m_log_item, m_stoped, taken, written, Rest>>

SpuriousWakeup ==
  Work("asleep", "wait") /\ UNCHANGED <<m_log_item, m_stoped, taken, written, Rest>>

Drained == /\ Work("drain", "loop")
           /\ m_log_item = << >>
           /\ UNCHANGED <<m_log_item, m_stoped, taken, written, Rest>>

\* Mutant of Take: the newest line first.
TakeLast == /\ Work("drain", "write")
            /\ m_log_item # << >>
            /\ taken' = m_log_item[Len(m_log_item)]
            /\ m_log_item' = SubSeq(m_log_item, 1, Len(m_log_item) - 1)
            /\ UNCHANGED <<m_stoped, written, Rest>>

\* The worker is the only thread that takes lines, so the list is not empty
\* between its test and the front().
Take == /\ Work("drain", "write")
        /\ m_log_item # << >>
        /\ taken' = Head(m_log_item)
        /\ m_log_item' = Tail(m_log_item)
        /\ UNCHANGED <<m_stoped, written, Rest>>

\* _handler_log_item, and the deletion of the line.
Write == /\ Work("write", "drain")
         /\ written' = Append(written, taken)
         /\ taken' = NoLine
         /\ UNCHANGED <<m_log_item, m_stoped, Rest>>

-----------------------------------------------------------------------------
(* casync_log::destroy.                                                    *)

\* The threads that log have been joined, or are the caller.
StoreStoped == /\ dpc = "run"
               /\ \A w \in Writers : wpc[w] = "idle"
               /\ m_stoped' = TRUE
               /\ dpc' = "stored"
               /\ UNCHANGED <<m_log_item, logged, wpc, kpc, taken, written>>

NotifyAll == /\ dpc = "stored"
             /\ dpc' = "notified"
             /\ kpc' = IF kpc = "asleep" THEN "wait" ELSE kpc
             /\ UNCHANGED <<m_log_item, m_stoped, logged, wpc, taken, written>>

Join == /\ dpc = "notified"
        /\ kpc = "done"
        /\ dpc' = "freed"
        /\ UNCHANGED <<m_log_item, m_stoped, logged, wpc, kpc, taken, written>>

-----------------------------------------------------------------------------
Writer(w) == TestStoped(w) \/ Push(w) \/ NotifyOne(w)

Worker == \/ TestLoop \/ TestPredicate \/ Sleep \/ Drained \/ Take \/ Write

Destroyer == StoreStoped \/ NotifyAll \/ Join

Next == Worker \/ SpuriousWakeup \/ Destroyer \/ \E w \in Writers : Writer(w)

\* The threads are scheduled; a writer that has begun a call ends it.  Nobody
\* need log or destroy, and no wakeup need be spurious.
Fairness == /\ WF_vars(Worker)
            /\ WF_vars(NotifyAll \/ Join)
            /\ \A w \in Writers : WF_vars(Push(w) \/ NotifyOne(w))

Spec == Init /\ [][Next]_vars
FairSpec == Spec /\ Fairness

-----------------------------------------------------------------------------
(* Properties.                                                             *)

TypeOK == /\ m_log_item \in Seq(Lines)
          /\ m_stoped \in BOOLEAN
          /\ logged \in [Writers -> 0 .. MaxLines]
          /\ wpc \in [Writers -> {"idle", "tested", "pushed"}]
          /\ \A w \in Writers : wpc[w] # "idle" => logged[w] # 0
          /\ kpc \in {"loop", "wait", "unready", "asleep", "drain", "write", "done"}
          /\ taken \in Lines \cup {NoLine}
          /\ written \in Seq(Lines)
          /\ dpc \in {"run", "stored", "notified", "freed"}

\* The worker sleeps over a line only while the writer that appended it has
\* still to notify: the unlocked tests lose no wakeup of append_var.
WakeupIsOwed ==
  /\ kpc = "asleep" /\ m_log_item # << >> => \E w \in Writers : wpc[w] = "pushed"
  /\ kpc = "unready" => m_log_item = << >>

\* The worker ends only after the stop and with nothing left to write, when no
\* writer is in a call.
EndsEmpty ==
  /\ kpc = "done" => m_stoped /\ m_log_item = << >>
  /\ kpc = "write" <=> taken # NoLine
  /\ m_stoped <=> dpc # "run"
  /\ m_stoped => \A w \in Writers : wpc[w] = "idle"
  /\ dpc = "freed" => kpc = "done"

\* The inductive invariant: no notification of append_var is missed, and the
\* worker's end is the end of the log.
LogInv == TypeOK /\ WakeupIsOwed /\ EndsEmpty

InHand == IF taken = NoLine THEN << >> ELSE <<taken>>

\* When destroy closes the file every line that was appended is in it.
NothingIsLost == dpc = "freed" => InHand \o m_log_item = << >>

\* The log is a first-in first-out channel from its writers to the file that
\* never fails: each line once, in the order of the appends.
ToFile == INSTANCE Channel WITH Messages <- Lines, buffer <- InHand \o m_log_item,
                                received <- written, failed <- FALSE
ImplementsChannel == ToFile!Spec

\* A line that has been appended is written.
LinesAreWritten ==
  \A w \in Writers : wpc[w] = "pushed" ~> m_log_item = << >> /\ taken = NoLine

\* LOG::destroy returns when its notification finds the worker anywhere but
\* between its test of the predicate and its sleep.  (There it is lost, and the
\* join is for ever: m_stoped is stored without the lock.)
SeenStopReturns ==
  (dpc = "notified" /\ kpc \notin {"unready", "asleep"}) ~> dpc = "freed"
=============================================================================
