------------------------------ MODULE SyncCall ------------------------------
(***************************************************************************)
(* A synchronous call from an HTTP thread into the main loop.              *)
(*                                                                         *)
(* The HTTP thread builds a method call whose Event lives on its stack,    *)
(* posts it to g_http_queue_mgr and waits for the event (cproxy.cpp,       *)
(* event.h).  The main loop drains the queue once per tick, runs each call *)
(* and sets its event (chttp_queue_mgr.cpp).  Event::Set stores m_run      *)
(* without the lock the waiter holds, and Event::Wait stores m_run before  *)
(* it tests it, so each load, store and notification is a step of its own. *)
(*                                                                         *)
(* When the server is told to stop, the main loop ends after its tick and  *)
(* the destructor of the web interface joins the HTTP threads.             *)
(***************************************************************************)
EXTENDS Naturals, Sequences, FiniteSets

CONSTANTS Callers,      \* HTTP threads
          MaxCalls      \* bound: calls one thread makes in a behaviour

ASSUME SyncCallAssumption == /\ IsFiniteSet(Callers)
                             /\ MaxCalls \in Nat \ {0}

VARIABLES
  m_list,    \* chttp_queue_mgr::m_list, each call named by its caller
  temp,      \* temp_message of update(): the calls of this tick, not yet run
  cur,       \* a set: the call the main thread is dispatching, or nothing
  mpc,       \* where the main thread is
  m_stoped,  \* cvideo_split_server::m_stoped, set by the signal handler
  cpc,       \* where each HTTP thread is
  m_run,     \* Event::m_run of the latest call of each HTTP thread
  posted,    \* how many calls each HTTP thread has posted
  served     \* how many calls of each HTTP thread the main thread has run

mainVars == <<m_list, temp, cur, mpc, m_stoped>>
vars == <<m_list, temp, cur, mpc, m_stoped, cpc, m_run, posted, served>>

Calling == {"store", "load", "predicate", "block", "asleep"}

TypeOK == /\ m_list \in Seq(Callers)
          /\ temp \in Seq(Callers)
          /\ cur \in SUBSET Callers
          /\ mpc \in {"loop", "dispatch", "set", "notify",
                      "destroy", "join", "ended"}
          /\ m_stoped \in BOOLEAN
          /\ cpc \in [Callers -> {"idle"} \cup Calling]
          /\ m_run \in [Callers -> BOOLEAN]
          /\ posted \in [Callers -> Nat]
          /\ served \in [Callers -> Nat]

Init == /\ m_list = << >>
        /\ temp = << >>
        /\ cur = {}
        /\ mpc = "loop"
        /\ m_stoped = FALSE
        /\ cpc = [c \in Callers |-> "idle"]
        /\ m_run = [c \in Callers |-> TRUE]
        /\ posted = [c \in Callers |-> 0]
        /\ served = [c \in Callers |-> 0]

-----------------------------------------------------------------------------
(* The HTTP thread: SynchronousMethodCall::Invoke.                         *)

\* The server hands a request to a thread until m_server.stop().
Accepting == mpc \notin {"join", "ended"}

\* Mutant of Post: the message goes to the front of the list.
PostInFront(c) == /\ cpc[c] = "idle"
                  /\ Accepting
                  /\ posted[c] < MaxCalls
                  /\ posted' = [posted EXCEPT ![c] = @ + 1]
                  /\ m_run' = [m_run EXCEPT ![c] = TRUE]
                  /\ m_list' = << c >> \o m_list
                  /\ cpc' = [cpc EXCEPT ![c] = "store"]
                  /\ UNCHANGED <<temp, cur, mpc, m_stoped, served>>

Post(c) == /\ cpc[c] = "idle"
           /\ Accepting
           /\ posted[c] < MaxCalls
           /\ posted' = [posted EXCEPT ![c] = @ + 1]
           /\ m_run' = [m_run EXCEPT ![c] = TRUE]
           /\ m_list' = Append(m_list, c)
           /\ cpc' = [cpc EXCEPT ![c] = "store"]
           /\ UNCHANGED <<temp, cur, mpc, m_stoped, served>>

\* Event::Wait(int) raises m_run, whatever Set has done to it by then.
StoreRun(c) == /\ cpc[c] = "store"
               /\ m_run' = [m_run EXCEPT ![c] = TRUE]
               /\ cpc' = [cpc EXCEPT ![c] = "load"]
               /\ UNCHANGED <<mainVars, posted, served>>

\* The test of the while loop; Invoke returns when m_run is down.
LoadRun(c) == /\ cpc[c] = "load"
              /\ cpc' = [cpc EXCEPT ![c] = IF m_run[c] THEN "predicate"
                                                       ELSE "idle"]
              /\ UNCHANGED <<mainVars, m_run, posted, served>>

\* condition_variable::wait tests its predicate with the lock held ...
TestPredicate(c) == /\ cpc[c] = "predicate"
                    /\ cpc' = [cpc EXCEPT ![c] = IF m_run[c] THEN "block"
                                                             ELSE "load"]
                    /\ UNCHANGED <<mainVars, m_run, posted, served>>

\* ... then releases it and sleeps in one step.
Block(c) == /\ cpc[c] = "block"
            /\ cpc' = [cpc EXCEPT ![c] = "asleep"]
            /\ UNCHANGED <<mainVars, m_run, posted, served>>

SpuriousWakeup(c) == /\ cpc[c] = "asleep"
                     /\ cpc' = [cpc EXCEPT ![c] = "predicate"]
                     /\ UNCHANGED <<mainVars, m_run, posted, served>>

-----------------------------------------------------------------------------
(* The main thread: cvideo_split_server::Loop and chttp_queue_mgr::update. *)

\* Mutant of Drain: the copied list is not cleared.
DrainWithoutClear == /\ mpc = "loop"
                     /\ ~m_stoped
                     /\ temp' = m_list
                     /\ mpc' = "dispatch"
                     /\ UNCHANGED <<m_list, cur, m_stoped, cpc, m_run, posted, served>>

Drain == /\ mpc = "loop"
         /\ ~m_stoped
         /\ temp' = m_list
         /\ m_list' = << >>
         /\ mpc' = "dispatch"
         /\ UNCHANGED <<cur, m_stoped, cpc, m_run, posted, served>>

\* Mutant of EndTick: one message is dispatched per update, the rest dropped.
EndTickDrops == /\ mpc = "dispatch"
                /\ temp' = << >>
                /\ mpc' = "loop"
                /\ UNCHANGED <<m_list, cur, m_stoped, cpc, m_run, posted, served>>

EndTick == /\ mpc = "dispatch"
           /\ temp = << >>
           /\ mpc' = "loop"
           /\ UNCHANGED <<m_list, temp, cur, m_stoped, cpc, m_run, posted, served>>

\* Dispatch: the proxied method runs on the main thread.
Execute(c) == /\ mpc = "dispatch"
              /\ temp # << >>
              /\ c = Head(temp)
              /\ temp' = Tail(temp)
              /\ cur' = {c}
              /\ served' = [served EXCEPT ![c] = @ + 1]
              /\ mpc' = "set"
              /\ UNCHANGED <<m_list, m_stoped, cpc, m_run, posted>>

\* Event::Set, first half.
LowerRun(c) == /\ mpc = "set"
               /\ c \in cur
               /\ m_run' = [m_run EXCEPT ![c] = FALSE]
               /\ mpc' = "notify"
               /\ UNCHANGED <<m_list, temp, cur, m_stoped, cpc, posted, served>>

\* Mutant of Notify: Event::Set only stores m_run.
NotifyNobody(c) == /\ mpc = "notify"
                   /\ c \in cur
                   /\ cur' = {}
                   /\ mpc' = "dispatch"
                   /\ UNCHANGED <<m_list, temp, m_stoped, cpc, m_run, posted, served>>

\* Event::Set, second half.  The caller may have seen m_run down, returned
\* and destroyed the event; the notification then reaches nobody, or whoever
\* sleeps on the event that took its place on the stack.
Notify(c) == /\ mpc = "notify"
             /\ c \in cur
             /\ \/ /\ cpc[c] = "asleep"
                   /\ cpc' = [cpc EXCEPT ![c] = "predicate"]
                \/ /\ cpc[c] # "asleep" \/ posted[c] # served[c]
                   /\ UNCHANGED cpc
             /\ cur' = {}
             /\ mpc' = "dispatch"
             /\ UNCHANGED <<m_list, temp, m_stoped, m_run, posted, served>>

\* SIGINT or SIGTERM: cvideo_split_server::stop.
RequestStop == /\ ~m_stoped
               /\ m_stoped' = TRUE
               /\ UNCHANGED <<m_list, temp, cur, mpc, cpc, m_run, posted, served>>

LeaveLoop == /\ mpc = "loop"
             /\ m_stoped
             /\ mpc' = "destroy"
             /\ UNCHANGED <<m_list, temp, cur, m_stoped, cpc, m_run, posted, served>>

\* cweb_http_api_mgr::destroy: m_server.stop(), then join.
StopServer == /\ mpc = "destroy"
              /\ mpc' = "join"
              /\ UNCHANGED <<m_list, temp, cur, m_stoped, cpc, m_run, posted, served>>

JoinServer == /\ mpc = "join"
              /\ \A c \in Callers : cpc[c] = "idle"
              /\ mpc' = "ended"
              /\ UNCHANGED <<m_list, temp, cur, m_stoped, cpc, m_run, posted, served>>

-----------------------------------------------------------------------------
Main == \/ Drain \/ EndTick \/ LeaveLoop \/ StopServer \/ JoinServer
        \/ \E c \in Callers : Execute(c) \/ LowerRun(c) \/ Notify(c)

Wait(c) == StoreRun(c) \/ LoadRun(c) \/ TestPredicate(c) \/ Block(c)

Next == \/ Main
        \/ RequestStop
        \/ \E c \in Callers : Post(c) \/ Wait(c) \/ SpuriousWakeup(c)

\* Both threads run whenever they can; nothing makes a request arrive, a
\* signal come or a wait end spuriously.
Fairness == /\ WF_vars(Main)
            /\ \A c \in Callers : WF_vars(Wait(c))

Spec == Init /\ [][Next]_vars
FairSpec == Spec /\ Fairness

-----------------------------------------------------------------------------
(* Properties.                                                             *)

Outstanding(c) == posted[c] # served[c]

\* The calls posted and not yet run, in the order the main loop will run them.
Backlog == temp \o m_list

\* An HTTP thread that is back from Invoke (cproxy.cpp) has had each of its
\* calls run by the main loop, so the result the proxy reads is there; and a
\* call is never run before it is posted.
ReturnedCallsAreServed ==
  \A c \in Callers : /\ cpc[c] = "idle" => ~Outstanding(c)
                     /\ served[c] <= posted[c]

\* A call that has been posted and not run is in the queue or in the copy
\* update() took of it, once: the copy and the clear of chttp_queue_mgr::update
\* neither lose nor repeat a call posted in between.
OutstandingCallsAreQueuedOnce ==
  /\ \A c \in Callers : Outstanding(c) <=> \E i \in DOMAIN Backlog : Backlog[i] = c
  /\ \A i, j \in DOMAIN Backlog : Backlog[i] = Backlog[j] => i = j

\* The inductive invariant of the module: the two properties above hold of
\* every reachable state because the call being dispatched is still waited for
\* until m_run goes down, and nothing is left of a batch between two ticks.
CallStands(c) == /\ posted[c] <= served[c] + 1
                 /\ Outstanding(c) => m_run[c]
                 /\ (mpc = "set" /\ c \in cur) =>
                      (m_run[c] /\ ~Outstanding(c) /\ cpc[c] # "idle")

IndInv == /\ TypeOK
          /\ ReturnedCallsAreServed
          /\ OutstandingCallsAreQueuedOnce
          /\ \A c \in Callers : CallStands(c)
          /\ mpc \notin {"dispatch", "set", "notify"} => temp = << >>

\* SyncCall implements RemoteCall: a call is outstanding until Dispatch runs
\* it, and the order of service is the order of Post.
Phase(c) == CASE Outstanding(c)                         -> "called"
              [] ~Outstanding(c) /\ cpc[c] # "idle"     -> "served"
              [] ~Outstanding(c) /\ cpc[c] = "idle"     -> "idle"

RC == INSTANCE RemoteCall WITH phase <- [c \in Callers |-> Phase(c)],
                               waiting <- Backlog

ImplementsRemoteCall == RC!Spec

\* While the main loop runs, every posted call is run.
PostedCallsAreServed ==
  \A c \in Callers : Outstanding(c) ~> (~Outstanding(c) \/ m_stoped)

\* A thread that sleeps on its event while Event::Set stands between its
\* store and its notification gets back from Invoke, whether or not the server
\* is stopping: the one order of Set and Wait in which the event works.
SleeperReturns ==
  \A c \in Callers :
    (mpc = "notify" /\ c \in cur /\ cpc[c] = "asleep" /\ ~m_run[c])
      ~> (cpc[c] = "idle")

\* What event.h says of Wait: it "waits for the event to become signaled" and
\* returns true when it was.  So a thread whose event has been set returns.
SignalledWaitReturns ==
  \A c \in Callers : (mpc = "notify" /\ c \in cur) ~> (cpc[c] = "idle")
=============================================================================
