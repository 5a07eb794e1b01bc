--------------------------- MODULE SyncCallProofs ---------------------------
(***************************************************************************)
(* For every set of HTTP threads and every bound on their calls: IndInv is *)
(* an invariant of SyncCall, and SyncCall implements RemoteCall.           *)
(***************************************************************************)
EXTENDS SyncCall, SequenceTheorems, TLAPS

(* Three facts about the calls not yet run, Backlog == temp \o m_list.       *)

\* Posting a call puts it behind every call not yet run.
LEMMA BacklogAppend ==
  ASSUME TypeOK, NEW c \in Callers
  PROVE  temp \o Append(m_list, c) = Append(Backlog, c)
<1>1. temp \in Seq(Callers) /\ m_list \in Seq(Callers) /\ <<c>> \in Seq(Callers)
  BY DEF TypeOK
<1>2. Append(m_list, c) = m_list \o <<c>>
  BY <1>1, AppendIsConcat
<1>3. temp \o m_list \in Seq(Callers)
  BY <1>1, ConcatProperties
<1>4. Append(temp \o m_list, c) = (temp \o m_list) \o <<c>>
  BY <1>3, AppendIsConcat
<1>5. (temp \o m_list) \o <<c>> = temp \o (m_list \o <<c>>)
  BY <1>1, ConcatAssociative
<1> QED
  BY <1>2, <1>4, <1>5 DEF Backlog

\* The copy that update() takes of the queue leaves the calls not yet run, and
\* their order, as they were.
LEMMA BacklogDrain ==
  ASSUME TypeOK, temp = << >>
  PROVE  m_list \o << >> = Backlog
  BY DEF TypeOK, Backlog

\* Dispatch takes the oldest call that has not been run.
LEMMA BacklogHead ==
  ASSUME TypeOK, temp # << >>
  PROVE  /\ Backlog \in Seq(Callers)
         /\ Backlog # << >>
         /\ Head(Backlog) = Head(temp)
         /\ Tail(Backlog) = Tail(temp) \o m_list
<1>1. temp \in Seq(Callers) /\ m_list \in Seq(Callers)
  BY DEF TypeOK
<1> QED
  BY <1>1 DEF Backlog

-----------------------------------------------------------------------------
LEMMA InitIndInv == Init => IndInv
<1> SUFFICES ASSUME Init PROVE IndInv
  OBVIOUS
<1> USE DEF Init
<1>1. TypeOK
  <2>1. << >> \in Seq(Callers)
    OBVIOUS
  <2>2. cpc \in [Callers -> {"idle"} \cup Calling] /\ m_run \in [Callers -> BOOLEAN]
    OBVIOUS
  <2>3. posted \in [Callers -> Nat] /\ served \in [Callers -> Nat]
    OBVIOUS
  <2> QED
    BY <2>1, <2>2, <2>3 DEF TypeOK
<1>2. Backlog = << >>
  BY ConcatEmptySeq, <1>1 DEF TypeOK, Backlog
<1>3. \A c \in Callers : ~Outstanding(c) /\ CallStands(c)
  BY DEF CallStands, Outstanding
<1>4. ReturnedCallsAreServed
  BY <1>3 DEF ReturnedCallsAreServed
<1>5. OutstandingCallsAreQueuedOnce
  BY <1>2, <1>3 DEF OutstandingCallsAreQueuedOnce
<1> QED
  BY <1>1, <1>3, <1>4, <1>5 DEF IndInv

\* Steps that leave the queue, the event flags and the counters alone.
LEMMA QuietStep ==
  ASSUME IndInv, TypeOK',
         UNCHANGED <<m_list, temp, posted, served, m_run>>,
         \A c \in Callers : cpc'[c] = "idle" => (cpc[c] = "idle" \/ ~m_run[c]),
         mpc' = "set" => (mpc = "set" /\ cur' = cur),
         mpc' \notin {"dispatch", "set", "notify"} => temp = << >>
  PROVE  IndInv'
<1> USE DEF IndInv
<1>1. OutstandingCallsAreQueuedOnce'
  BY DEF OutstandingCallsAreQueuedOnce, Outstanding, Backlog
<1>2. ReturnedCallsAreServed'
  BY DEF ReturnedCallsAreServed, CallStands, Outstanding
<1>3. \A c \in Callers : CallStands(c)'
  BY DEF CallStands, Outstanding
<1> QED
  BY <1>1, <1>2, <1>3

LEMMA StepIndInv == IndInv /\ [Next]_vars => IndInv'
<1> SUFFICES ASSUME IndInv, [Next]_vars PROVE IndInv'
  OBVIOUS
<1> USE DEF IndInv
<1>1. ASSUME NEW c \in Callers, Post(c) PROVE IndInv'
  <2>1. TypeOK'
    BY <1>1 DEF Post, TypeOK, Calling
  <2>2. Backlog' = Append(Backlog, c)
    BY <1>1, BacklogAppend DEF Post, Backlog
  <2>3. Backlog \in Seq(Callers)
    BY DEF TypeOK, Backlog
  <2>4. ~Outstanding(c)
    BY <1>1 DEF Post, ReturnedCallsAreServed
  <2>5. /\ DOMAIN Backlog = 1 .. Len(Backlog)
        /\ DOMAIN Backlog' = 1 .. Len(Backlog) + 1
        /\ Backlog'[Len(Backlog) + 1] = c
        /\ \A i \in DOMAIN Backlog : Backlog'[i] = Backlog[i]
        /\ \A i \in DOMAIN Backlog : Backlog[i] # c
        /\ Len(Backlog) \in Nat
    BY <2>2, <2>3, <2>4 DEF OutstandingCallsAreQueuedOnce
  <2>6. /\ Outstanding(c)' /\ posted'[c] = served'[c] + 1 /\ served'[c] <= posted'[c]
        /\ m_run'[c] /\ cpc'[c] # "idle"
        /\ \A d \in Callers \ {c} : /\ Outstanding(d)' <=> Outstanding(d)
                                    /\ cpc'[d] = cpc[d] /\ m_run'[d] = m_run[d]
                                    /\ posted'[d] = posted[d] /\ served'[d] = served[d]
    BY <1>1, <2>4 DEF Post, Outstanding, TypeOK
  <2>7. OutstandingCallsAreQueuedOnce'
    <3>1. \A d \in Callers : Outstanding(d)' <=> \E i \in DOMAIN Backlog' : Backlog'[i] = d
      BY <2>5, <2>6 DEF OutstandingCallsAreQueuedOnce
    <3>2. \A i, j \in DOMAIN Backlog' : Backlog'[i] = Backlog'[j] => i = j
      BY <2>5 DEF OutstandingCallsAreQueuedOnce
    <3> QED
      BY <3>1, <3>2 DEF OutstandingCallsAreQueuedOnce
  <2>8. \A d \in Callers : CallStands(d)'
    <3>1. ~(mpc = "set" /\ c \in cur)
      BY <1>1 DEF Post, CallStands
    <3>2. CallStands(c)'
      BY <1>1, <2>1, <2>6, <3>1 DEF Post, CallStands, TypeOK
    <3>3. ASSUME NEW d \in Callers \ {c} PROVE CallStands(d)'
      BY <1>1, <2>6 DEF Post, CallStands
    <3> QED
      BY <3>2, <3>3
  <2>9. ReturnedCallsAreServed'
    BY <2>6 DEF ReturnedCallsAreServed
  <2> QED
    BY <1>1, <2>1, <2>7, <2>8, <2>9 DEF Post
<1>2. ASSUME NEW c \in Callers, StoreRun(c) PROVE IndInv'
  <2>1. TypeOK'
    BY <1>2 DEF StoreRun, mainVars, TypeOK, Calling
  <2>2. UNCHANGED <<m_list, temp, cur, mpc, posted, served>>
    BY <1>2 DEF StoreRun, mainVars
  <2>3. OutstandingCallsAreQueuedOnce'
    BY <2>2 DEF OutstandingCallsAreQueuedOnce, Outstanding, Backlog
  <2>4. /\ m_run'[c] /\ cpc'[c] # "idle"
        /\ \A d \in Callers \ {c} : m_run'[d] = m_run[d] /\ cpc'[d] = cpc[d]
    BY <1>2 DEF StoreRun, TypeOK
  <2>5. ReturnedCallsAreServed'
    BY <2>2, <2>4 DEF ReturnedCallsAreServed, Outstanding
  <2>6. \A d \in Callers : CallStands(d)'
    BY <2>2, <2>4 DEF CallStands, Outstanding
  <2> QED
    BY <2>1, <2>2, <2>3, <2>5, <2>6
<1>3. ASSUME NEW c \in Callers, LoadRun(c) \/ TestPredicate(c) \/ Block(c) \/ SpuriousWakeup(c)
      PROVE IndInv'
  <2>1. TypeOK'
    BY <1>3 DEF LoadRun, TestPredicate, Block, SpuriousWakeup, mainVars, TypeOK, Calling
  <2> QED
    BY <1>3, <2>1, QuietStep
       DEF LoadRun, TestPredicate, Block, SpuriousWakeup, mainVars, TypeOK
<1>4. CASE Drain
  <2>1. TypeOK' /\ Backlog' = Backlog
    BY <1>4, BacklogDrain DEF Drain, TypeOK, Backlog
  <2>2. ReturnedCallsAreServed' /\ OutstandingCallsAreQueuedOnce'
    BY <1>4, <2>1 DEF Drain, ReturnedCallsAreServed, Outstanding,
                      OutstandingCallsAreQueuedOnce
  <2>3. \A c \in Callers : CallStands(c)'
    BY <1>4 DEF Drain, CallStands, Outstanding
  <2> QED
    BY <1>4, <2>1, <2>2, <2>3 DEF Drain
<1>5. CASE EndTick \/ LeaveLoop \/ StopServer \/ JoinServer \/ RequestStop
  <2>1. TypeOK'
    BY <1>5 DEF EndTick, LeaveLoop, StopServer, JoinServer, RequestStop, TypeOK
  <2> QED
    BY <1>5, <2>1, QuietStep DEF EndTick, LeaveLoop, StopServer, JoinServer, RequestStop
<1>6. ASSUME NEW c \in Callers, Execute(c) PROVE IndInv'
  <2>1. TypeOK'
    BY <1>6 DEF Execute, TypeOK
  <2>2. /\ Backlog \in Seq(Callers) /\ Backlog # << >> /\ c = Head(Backlog)
        /\ Backlog' = Tail(Backlog)
    BY <1>6, BacklogHead DEF Execute, Backlog
  <2>3. /\ 1 \in DOMAIN Backlog
        /\ Backlog[1] = c
        /\ DOMAIN Backlog = 1 .. Len(Backlog)
        /\ DOMAIN Backlog' = 1 .. Len(Backlog) - 1
        /\ \A i \in DOMAIN Backlog' : Backlog'[i] = Backlog[i + 1]
        /\ Len(Backlog) \in Nat
    BY <2>2
  <2>4. Outstanding(c)
    BY <2>3 DEF OutstandingCallsAreQueuedOnce
  <2>5. /\ ~Outstanding(c)' /\ posted'[c] = served'[c] /\ m_run[c] /\ cpc[c] # "idle"
        /\ \A d \in Callers \ {c} : /\ Outstanding(d)' <=> Outstanding(d)
                                    /\ posted'[d] = posted[d] /\ served'[d] = served[d]
    <3>1. posted[c] = served[c] + 1
      BY <2>4 DEF Outstanding, TypeOK, CallStands, ReturnedCallsAreServed
    <3>2. m_run[c] /\ cpc[c] # "idle"
      BY <2>4 DEF CallStands, ReturnedCallsAreServed
    <3> QED
      BY <1>6, <3>1, <3>2 DEF Execute, Outstanding, TypeOK
  <2>6. OutstandingCallsAreQueuedOnce'
    <3>1. \A i \in DOMAIN Backlog' : i + 1 \in DOMAIN Backlog /\ i \in DOMAIN Backlog
                                      /\ Backlog'[i] # c
      BY <2>3 DEF OutstandingCallsAreQueuedOnce
    <3>2. ASSUME NEW d \in Callers \ {c}, Outstanding(d)
          PROVE \E i \in DOMAIN Backlog' : Backlog'[i] = d
      <4>1. PICK i \in DOMAIN Backlog : Backlog[i] = d
        BY <3>2 DEF OutstandingCallsAreQueuedOnce
      <4>2. i - 1 \in DOMAIN Backlog' /\ Backlog'[i - 1] = d
        BY <2>3, <4>1
      <4> QED
        BY <4>2
    <3>3. \A d \in Callers : Outstanding(d)' <=> \E i \in DOMAIN Backlog' : Backlog'[i] = d
      BY <2>3, <2>5, <3>1, <3>2 DEF OutstandingCallsAreQueuedOnce
    <3>4. \A i, j \in DOMAIN Backlog' : Backlog'[i] = Backlog'[j] => i = j
      BY <2>3, <3>1 DEF OutstandingCallsAreQueuedOnce
    <3> QED
      BY <3>3, <3>4 DEF OutstandingCallsAreQueuedOnce
  <2>7. \A d \in Callers : CallStands(d)'
    <3>1. CallStands(c)'
      BY <1>6, <2>1, <2>5 DEF Execute, CallStands, TypeOK
    <3>2. ASSUME NEW d \in Callers \ {c} PROVE CallStands(d)'
      BY <1>6, <2>1, <2>5 DEF Execute, CallStands, TypeOK
    <3> QED
      BY <3>1, <3>2
  <2>8. ReturnedCallsAreServed'
    BY <1>6, <2>1, <2>5 DEF Execute, ReturnedCallsAreServed, TypeOK
  <2> QED
    BY <1>6, <2>1, <2>6, <2>7, <2>8 DEF Execute
<1>7. ASSUME NEW c \in Callers, LowerRun(c) PROVE IndInv'
  <2>1. TypeOK'
    BY <1>7 DEF LowerRun, TypeOK
  <2>2. UNCHANGED <<m_list, temp, cur, cpc, posted, served>> /\ mpc = "set" /\ mpc' = "notify"
    BY <1>7 DEF LowerRun
  <2>3. OutstandingCallsAreQueuedOnce' /\ ReturnedCallsAreServed'
    BY <2>2 DEF OutstandingCallsAreQueuedOnce, ReturnedCallsAreServed, Outstanding, Backlog
  <2>4. ~Outstanding(c) /\ \A d \in Callers \ {c} : m_run'[d] = m_run[d]
    BY <1>7 DEF LowerRun, TypeOK, CallStands
  <2>5. \A d \in Callers : CallStands(d)'
    BY <2>2, <2>4 DEF CallStands, Outstanding
  <2> QED
    BY <2>1, <2>2, <2>3, <2>5
<1>8. ASSUME NEW c \in Callers, Notify(c) PROVE IndInv'
  <2>1. TypeOK'
    BY <1>8 DEF Notify, TypeOK, Calling
  <2> QED
    BY <1>8, <2>1, QuietStep DEF Notify, TypeOK
<1>9. CASE UNCHANGED vars
  <2>1. TypeOK'
    BY <1>9 DEF vars, TypeOK
  <2> QED
    BY <1>9, <2>1, QuietStep DEF vars
<1> QED
  BY <1>1, <1>2, <1>3, <1>4, <1>5, <1>6, <1>7, <1>8, <1>9 DEF Next, Main, Wait

\* IndInv, and so type correctness and the two properties of SyncCall it
\* contains, hold of every state of the call protocol.
THEOREM Invariance == Spec => []IndInv
<1>1. Init => IndInv
  BY InitIndInv
<1>2. IndInv /\ [Next]_vars => IndInv'
  BY StepIndInv
<1> QED
  BY <1>1, <1>2, PTL DEF Spec

-----------------------------------------------------------------------------
(* Refinement: every step of the protocol is a step of RemoteCall or leaves  *)
(* the phases of the callers and the calls not yet run unchanged.            *)

Phases == [c \in Callers |-> Phase(c)]

LEMMA InitRefines == Init => RC!Init
<1> SUFFICES ASSUME Init PROVE RC!Init
  OBVIOUS
<1>1. Backlog = << >>
  BY DEF Init, Backlog
<1>2. \A c \in Callers : Phase(c) = "idle"
  BY DEF Init, Phase, Outstanding
<1> QED
  BY <1>1, <1>2 DEF RC!Init

\* A caller's phase depends on whether its call is outstanding and whether it
\* is inside Invoke, and on nothing else.
LEMMA PhaseOf ==
  ASSUME NEW c \in Callers
  PROVE  /\ Outstanding(c) => Phase(c) = "called"
         /\ (~Outstanding(c) /\ cpc[c] # "idle") => Phase(c) = "served"
         /\ (~Outstanding(c) /\ cpc[c] = "idle") => Phase(c) = "idle"
  BY DEF Phase

LEMMA PhaseOfNext ==
  ASSUME NEW c \in Callers
  PROVE  /\ Outstanding(c)' => Phase(c)' = "called"
         /\ (~Outstanding(c)' /\ cpc'[c] # "idle") => Phase(c)' = "served"
         /\ (~Outstanding(c)' /\ cpc'[c] = "idle") => Phase(c)' = "idle"
  BY DEF Phase

LEMMA StepRefines ==
  IndInv /\ [Next]_vars => [RC!Next]_<<Phases, Backlog>>
<1> SUFFICES ASSUME IndInv, [Next]_vars PROVE [RC!Next]_<<Phases, Backlog>>
  OBVIOUS
<1> USE DEF IndInv
<1>1. ASSUME NEW c \in Callers, Post(c) PROVE RC!Next
  <2>1. Backlog' = Append(Backlog, c)
    BY <1>1, BacklogAppend DEF Post, Backlog
  <2>2. Phase(c) = "idle"
    BY <1>1, PhaseOf DEF Post, ReturnedCallsAreServed
  <2>3. /\ Outstanding(c)'
        /\ \A d \in Callers \ {c} : (Outstanding(d)' <=> Outstanding(d)) /\ cpc'[d] = cpc[d]
    BY <1>1 DEF Post, Outstanding, TypeOK, ReturnedCallsAreServed
  <2>4. /\ Phase(c)' = "called"
        /\ \A d \in Callers \ {c} : Phase(d)' = Phase(d)
    BY <2>3, PhaseOf, PhaseOfNext
  <2>5. Phases' = [Phases EXCEPT ![c] = "called"]
    BY <2>4 DEF Phases
  <2> QED
    BY <2>1, <2>2, <2>5 DEF RC!Next, RC!Call, Phases
<1>2. ASSUME NEW c \in Callers, Execute(c) PROVE RC!Next
  <2>1. Backlog # << >> /\ c = Head(Backlog) /\ Backlog' = Tail(Backlog)
    BY <1>2, BacklogHead DEF Execute, Backlog
  <2>2. 1 \in DOMAIN Backlog /\ Backlog[1] = c
    BY <1>2, <2>1, BacklogHead DEF Execute
  <2>3. Outstanding(c)
    BY <2>2 DEF OutstandingCallsAreQueuedOnce
  <2>4. posted[c] = served[c] + 1
    BY <2>3 DEF Outstanding, TypeOK, CallStands, ReturnedCallsAreServed
  <2>5. /\ ~Outstanding(c)' /\ cpc'[c] # "idle"
        /\ \A d \in Callers \ {c} : (Outstanding(d)' <=> Outstanding(d)) /\ cpc'[d] = cpc[d]
    BY <1>2, <2>3, <2>4 DEF Execute, Outstanding, TypeOK, ReturnedCallsAreServed
  <2>6. /\ Phase(c) = "called" /\ Phase(c)' = "served"
        /\ \A d \in Callers \ {c} : Phase(d)' = Phase(d)
    BY <2>3, <2>5, PhaseOf, PhaseOfNext
  <2>7. Phases' = [Phases EXCEPT ![c] = "served"]
    BY <2>6 DEF Phases
  <2> QED
    BY <2>1, <2>6, <2>7 DEF RC!Next, RC!Serve, Phases
<1>3. ASSUME NEW c \in Callers, LoadRun(c), ~m_run[c] PROVE RC!Next
  <2>1. /\ ~Outstanding(c) /\ ~Outstanding(c)' /\ cpc[c] # "idle" /\ cpc'[c] = "idle"
        /\ \A d \in Callers \ {c} : (Outstanding(d)' <=> Outstanding(d)) /\ cpc'[d] = cpc[d]
    BY <1>3 DEF LoadRun, Outstanding, TypeOK, CallStands
  <2>2. /\ Phase(c) = "served" /\ Phase(c)' = "idle"
        /\ \A d \in Callers \ {c} : Phase(d)' = Phase(d)
    BY <2>1, PhaseOf, PhaseOfNext
  <2>3. Phases' = [Phases EXCEPT ![c] = "idle"]
    BY <2>2 DEF Phases
  <2>4. Backlog' = Backlog
    BY <1>3 DEF LoadRun, mainVars, Backlog
  <2> QED
    BY <2>2, <2>3, <2>4 DEF RC!Next, RC!Return, Phases
<1>4. ASSUME UNCHANGED <<posted, served>>,
             \A d \in Callers : cpc'[d] = "idle" <=> cpc[d] = "idle"
      PROVE  Phases' = Phases
  <2>1. \A d \in Callers : Outstanding(d)' <=> Outstanding(d)
    BY <1>4 DEF Outstanding
  <2>2. \A d \in Callers : Phase(d)' = Phase(d)
    BY <1>4, <2>1, PhaseOf, PhaseOfNext
  <2> QED
    BY <2>2 DEF Phases
<1>5. ASSUME NEW c \in Callers,
             \/ StoreRun(c) \/ TestPredicate(c) \/ Block(c) \/ SpuriousWakeup(c)
             \/ LowerRun(c) \/ Notify(c) \/ (LoadRun(c) /\ m_run[c])
      PROVE  Phases' = Phases /\ Backlog' = Backlog
  <2>1. UNCHANGED <<posted, served, temp, m_list>>
    BY <1>5 DEF StoreRun, TestPredicate, Block, SpuriousWakeup, LowerRun, Notify,
                LoadRun, mainVars
  <2>2. \A d \in Callers : cpc'[d] = "idle" <=> cpc[d] = "idle"
    BY <1>5 DEF StoreRun, TestPredicate, Block, SpuriousWakeup, LowerRun, Notify,
                LoadRun, TypeOK
  <2> QED
    BY <1>4, <2>1, <2>2 DEF Backlog
<1>6. CASE Drain
  <2>1. Backlog' = Backlog
    BY <1>6, BacklogDrain DEF Drain, Backlog
  <2> QED
    BY <1>4, <1>6, <2>1 DEF Drain
<1>7. CASE \/ EndTick \/ LeaveLoop \/ StopServer \/ JoinServer \/ RequestStop
           \/ UNCHANGED vars
  BY <1>4, <1>7 DEF EndTick, LeaveLoop, StopServer, JoinServer, RequestStop, vars, Backlog
<1> QED
  BY <1>1, <1>2, <1>3, <1>5, <1>6, <1>7 DEF Next, Main, Wait

\* The calls of the HTTP threads are served one at a time, in the order of
\* Post, each once, and a thread returns only from a call that was served.
THEOREM Refinement == Spec => ImplementsRemoteCall
<1>1. Init => RC!Init
  BY InitRefines
<1>2. IndInv /\ [Next]_vars => [RC!Next]_<<Phases, Backlog>>
  BY StepRefines
<1> QED
  BY <1>1, <1>2, Invariance, PTL DEF Spec, ImplementsRemoteCall, RC!Spec, Phases
=============================================================================
