--------------------------- MODULE AsyncLogProofs ---------------------------
(***************************************************************************)
(* For any set of writers and any number of lines: LogInv is an invariant  *)
(* of the log, destroy leaves no line behind, and the log implements       *)
(* Channel.                                                                *)
(***************************************************************************)
EXTENDS AsyncLog, SequenceTheorems, TLAPS

\* Appending to the second of two sequences appends to their concatenation.
LEMMA AppendBehindConcat ==
  ASSUME NEW S, NEW s \in Seq(S), NEW t \in Seq(S), NEW e \in S
  PROVE  s \o Append(t, e) = Append(s \o t, e)
<1>1. <<e>> \in Seq(S)
  OBVIOUS
<1>2. s \o t \in Seq(S)
  BY ConcatProperties
<1>3. Append(s \o t, e) = (s \o t) \o <<e>>
  BY <1>2, AppendIsConcat
<1>4. Append(t, e) = t \o <<e>>
  BY AppendIsConcat
<1>5. (s \o t) \o <<e>> = s \o (t \o <<e>>)
  BY <1>1, ConcatAssociative
<1> QED
  BY <1>3, <1>4, <1>5

\* A sequence that is not empty is its head and then its tail.
LEMMA HeadThenTail ==
  ASSUME NEW S, NEW s \in Seq(S), s # << >>
  PROVE  /\ Head(s) \in S /\ Tail(s) \in Seq(S)
         /\ <<Head(s)>> \o Tail(s) = s
<1>1. Head(s) \in S /\ Tail(s) \in Seq(S)
  BY HeadTailProperties
<1>2. <<Head(s)>> \o Tail(s) = s
  BY <1>1
<1> QED
  BY <1>1, <1>2

\* An element put in front is the head, and what it is put before the tail.
LEMMA HeadOfConcat ==
  ASSUME NEW S, NEW s \in Seq(S), NEW e \in S
  PROVE  /\ <<e>> \o s # << >>
         /\ Head(<<e>> \o s) = e
         /\ Tail(<<e>> \o s) = s
<1>1. <<e>> \o s \in Seq(S) /\ Len(<<e>> \o s) = 1 + Len(s)
  OBVIOUS
<1>2. <<e>> \o s # << >> /\ Head(<<e>> \o s) = e
  BY <1>1
<1>3. Tail(<<e>> \o s) = s
  BY <1>1
<1> QED
  BY <1>2, <1>3

LEMMA InitLogInv == Init => LogInv
<1> SUFFICES ASSUME Init PROVE LogInv
  OBVIOUS
<1>1. << >> \in Seq(Lines)
  OBVIOUS
<1>2. logged \in [Writers -> 0 .. MaxLines]
  BY AsyncLogAssumption DEF Init
<1>5. TypeOK
  BY <1>1, <1>2 DEF Init, TypeOK
<1>3. WakeupIsOwed
  BY DEF Init, WakeupIsOwed
<1>4. EndsEmpty
  BY DEF Init, EndsEmpty
<1> QED
  BY <1>3, <1>4, <1>5 DEF LogInv

\* What a writer appends is a line.
LEMMA PushIsLine ==
  ASSUME TypeOK, NEW w \in Writers, wpc[w] # "idle"
  PROVE  <<w, logged[w]>> \in Lines
<1>1. logged[w] \in 0 .. MaxLines /\ logged[w] # 0
  BY DEF TypeOK
<1>2. logged[w] \in 1 .. MaxLines
  BY <1>1, AsyncLogAssumption
<1> QED
  BY <1>2 DEF Lines

LEMMA StepLogInv == LogInv /\ [Next]_vars => LogInv'
<1> SUFFICES ASSUME LogInv, [Next]_vars PROVE LogInv'
  OBVIOUS
<1>0. TypeOK /\ WakeupIsOwed /\ EndsEmpty
  BY DEF LogInv
<1> SUFFICES TypeOK' /\ WakeupIsOwed' /\ EndsEmpty'
  BY DEF LogInv
<1>1. ASSUME NEW w \in Writers, TestStoped(w) PROVE TypeOK' /\ WakeupIsOwed' /\ EndsEmpty'
  <2>1. TypeOK'
    BY <1>0, <1>1, AsyncLogAssumption DEF TestStoped, TypeOK
  <2>2. WakeupIsOwed'
    BY <1>0, <1>1 DEF TestStoped, WakeupIsOwed, TypeOK
  <2>3. EndsEmpty'
    BY <1>0, <1>1, AsyncLogAssumption DEF TestStoped, EndsEmpty, TypeOK
  <2> QED
    BY <2>1, <2>2, <2>3
<1>2. ASSUME NEW w \in Writers, Push(w) PROVE TypeOK' /\ WakeupIsOwed' /\ EndsEmpty'
  <2>0. /\ <<w, logged[w]>> \in Lines
        /\ m_log_item' \in Seq(Lines) /\ ~m_stoped /\ kpc # "unready"
    <3>1. <<w, logged[w]>> \in Lines
      BY <1>0, <1>2, PushIsLine DEF Push
    <3>2. m_log_item' \in Seq(Lines)
      BY <1>0, <1>2, <3>1, AppendProperties DEF Push, TypeOK
    <3> QED
      BY <1>0, <1>2, <3>1, <3>2 DEF Push, EndsEmpty, Unlocked
  <2>1. TypeOK'
    BY <1>0, <1>2, <2>0 DEF Push, TypeOK
  <2>2. WakeupIsOwed'
    BY <1>0, <1>2, <2>0 DEF Push, WakeupIsOwed, TypeOK
  <2>3. EndsEmpty'
    BY <1>0, <1>2, <2>0 DEF Push, EndsEmpty, TypeOK
  <2> QED
    BY <2>1, <2>2, <2>3
<1>3. ASSUME NEW w \in Writers, NotifyOne(w) PROVE TypeOK' /\ WakeupIsOwed' /\ EndsEmpty'
  <2>1. TypeOK'
    BY <1>0, <1>3 DEF NotifyOne, TypeOK
  <2>2. WakeupIsOwed'
    BY <1>0, <1>3 DEF NotifyOne, WakeupIsOwed, TypeOK
  <2>3. EndsEmpty'
    BY <1>0, <1>3 DEF NotifyOne, EndsEmpty, TypeOK
  <2> QED
    BY <2>1, <2>2, <2>3
<1>4. CASE TestLoop
  <2>1. TypeOK'
    BY <1>0, <1>4 DEF TestLoop, Rest, TypeOK
  <2>2. WakeupIsOwed'
    BY <1>0, <1>4 DEF TestLoop, Rest, WakeupIsOwed, TypeOK
  <2>3. EndsEmpty'
    BY <1>0, <1>4 DEF TestLoop, Rest, EndsEmpty, TypeOK
  <2> QED
    BY <2>1, <2>2, <2>3
<1>5. CASE TestPredicate
  <2>1. TypeOK'
    BY <1>0, <1>5 DEF TestPredicate, Rest, TypeOK
  <2>2. WakeupIsOwed'
    BY <1>0, <1>5 DEF TestPredicate, Rest, WakeupIsOwed, TypeOK
  <2>3. EndsEmpty'
    BY <1>0, <1>5 DEF TestPredicate, Rest, EndsEmpty, TypeOK
  <2> QED
    BY <2>1, <2>2, <2>3
<1>6. CASE Sleep \/ SpuriousWakeup \/ Drained
  <2>1. TypeOK'
    BY <1>0, <1>6 DEF Sleep, SpuriousWakeup, Drained, Work, Rest, TypeOK
  <2>2. WakeupIsOwed'
    BY <1>0, <1>6 DEF Sleep, SpuriousWakeup, Drained, Work, Rest, WakeupIsOwed, TypeOK
  <2>3. EndsEmpty'
    BY <1>0, <1>6 DEF Sleep, SpuriousWakeup, Drained, Work, Rest, EndsEmpty, TypeOK
  <2> QED
    BY <2>1, <2>2, <2>3
<1>7. CASE Take
  <2>0. taken' \in Lines /\ m_log_item' \in Seq(Lines)
    BY <1>0, <1>7, HeadTailProperties DEF Take, TypeOK
  <2>1. TypeOK'
    BY <1>0, <1>7, <2>0, AsyncLogAssumption DEF Take, Work, Rest, TypeOK
  <2>2. WakeupIsOwed'
    BY <1>0, <1>7, <2>0 DEF Take, Work, Rest, WakeupIsOwed, TypeOK
  <2>3. EndsEmpty'
    BY <1>0, <1>7, <2>0, AsyncLogAssumption DEF Take, Work, Rest, EndsEmpty, TypeOK
  <2> QED
    BY <2>1, <2>2, <2>3
<1>8. CASE Write
  <2>0. taken \in Lines /\ written' \in Seq(Lines)
    <3>1. taken \in Lines
      BY <1>0, <1>8 DEF Write, Work, TypeOK, EndsEmpty
    <3> QED
      BY <1>0, <1>8, <3>1, AppendProperties DEF Write, TypeOK
  <2>1. TypeOK'
    BY <1>0, <1>8, <2>0 DEF Write, Work, Rest, TypeOK
  <2>2. WakeupIsOwed'
    BY <1>0, <1>8, <2>0 DEF Write, Work, Rest, WakeupIsOwed, TypeOK
  <2>3. EndsEmpty'
    BY <1>0, <1>8, <2>0 DEF Write, Work, Rest, EndsEmpty, TypeOK
  <2> QED
    BY <2>1, <2>2, <2>3
<1>9. CASE Destroyer
  <2>1. TypeOK'
    BY <1>0, <1>9 DEF Destroyer, StoreStoped, NotifyAll, Join, TypeOK
  <2>2. WakeupIsOwed'
    BY <1>0, <1>9 DEF Destroyer, StoreStoped, NotifyAll, Join, WakeupIsOwed, TypeOK
  <2>3. EndsEmpty'
    BY <1>0, <1>9 DEF Destroyer, StoreStoped, NotifyAll, Join, EndsEmpty, TypeOK
  <2> QED
    BY <2>1, <2>2, <2>3
<1>10. CASE UNCHANGED vars
  <2>1. TypeOK'
    BY <1>0, <1>10 DEF vars, TypeOK
  <2>2. WakeupIsOwed'
    BY <1>0, <1>10 DEF vars, WakeupIsOwed, TypeOK
  <2>3. EndsEmpty'
    BY <1>0, <1>10 DEF vars, EndsEmpty, TypeOK
  <2> QED
    BY <2>1, <2>2, <2>3
<1> QED
  BY <1>1, <1>2, <1>3, <1>4, <1>5, <1>6, <1>7, <1>8, <1>9, <1>10 DEF Next, Writer, Worker

\* The worker's unlocked tests of m_stoped and of the list miss no line: it
\* sleeps over one only while its writer has still to notify, and it ends only
\* when there is none and there can be none.
THEOREM Invariance == Spec => []LogInv
<1>1. Init => LogInv
  BY InitLogInv
<1>2. LogInv /\ [Next]_vars => LogInv'
  BY StepLogInv
<1> QED
  BY <1>1, <1>2, PTL DEF Spec

\* When LOG::destroy has joined the worker, every appended line is in the file.
THEOREM Complete == Spec => []NothingIsLost
<1>1. LogInv => NothingIsLost
  <2> SUFFICES ASSUME LogInv, dpc = "freed" PROVE InHand \o m_log_item = << >>
    BY DEF NothingIsLost
  <2>1. kpc = "done" /\ m_log_item = << >> /\ InHand = << >>
    BY DEF LogInv, EndsEmpty, InHand
  <2> QED
    BY <2>1, ConcatEmptySeq
<1> QED
  BY <1>1, Invariance, PTL

-----------------------------------------------------------------------------
(* Refinement.                                                               *)

Pending == InHand \o m_log_item

LEMMA InitRefines == Init => ToFile!Init
  BY DEF Init, ToFile!Init, InHand

LEMMA StepRefines ==
  LogInv /\ [Next]_vars => [ToFile!Next]_<<Pending, written, FALSE>>
<1> SUFFICES ASSUME LogInv, [Next]_vars
             PROVE  [ToFile!Next]_<<Pending, written, FALSE>>
  OBVIOUS
<1>0. TypeOK /\ EndsEmpty
  BY DEF LogInv
<1>1. ASSUME NEW w \in Writers, Push(w) PROVE ToFile!Next
  <2>1. <<w, logged[w]>> \in Lines
    BY <1>0, <1>1, PushIsLine DEF Push
  <2>2. InHand \in Seq(Lines) /\ m_log_item \in Seq(Lines)
    BY <1>0 DEF InHand, TypeOK
  <2>3. InHand' = InHand
    BY <1>1 DEF Push, InHand
  <2>4. InHand \o Append(m_log_item, <<w, logged[w]>>)
          = Append(InHand \o m_log_item, <<w, logged[w]>>)
    BY <2>1, <2>2, AppendBehindConcat
  <2>5. ToFile!Send(<<w, logged[w]>>)
    BY <1>1, <2>3, <2>4 DEF Push, ToFile!Send
  <2> QED
    BY <2>1, <2>5 DEF ToFile!Next
<1>2. CASE Take
  <2>1. m_log_item \in Seq(Lines) /\ m_log_item # << >> /\ taken = NoLine
    BY <1>0, <1>2 DEF Take, Work, TypeOK, EndsEmpty
  <2>2. Head(m_log_item) \in Lines /\ <<Head(m_log_item)>> \o Tail(m_log_item) = m_log_item
    BY <2>1, HeadThenTail
  <2>3. InHand = << >> /\ InHand' = <<Head(m_log_item)>>
    BY <1>2, <2>1, <2>2, AsyncLogAssumption DEF Take, InHand
  <2>4. Pending' = Pending
    BY <1>2, <2>1, <2>2, <2>3, ConcatEmptySeq DEF Take, Pending
  <2> QED
    BY <1>2, <2>4 DEF Take
<1>3. CASE Write
  <2>1. taken \in Lines /\ m_log_item \in Seq(Lines)
    BY <1>0, <1>3 DEF Write, Work, TypeOK, EndsEmpty
  <2>2. InHand = <<taken>> /\ InHand' = << >>
    BY <1>3, <2>1, AsyncLogAssumption DEF Write, InHand
  <2>3. Pending # << >> /\ Head(Pending) = taken /\ Tail(Pending) = m_log_item
    BY <2>1, <2>2, HeadOfConcat DEF Pending
  <2>4. Pending' = m_log_item
    BY <1>3, <2>1, <2>2, ConcatEmptySeq DEF Write, Pending
  <2>5. ToFile!Receive
    BY <1>3, <2>3, <2>4 DEF Write, ToFile!Receive, Pending
  <2> QED
    BY <2>5 DEF ToFile!Next
<1>4. ASSUME NEW w \in Writers, TestStoped(w) \/ NotifyOne(w)
      PROVE  UNCHANGED <<Pending, written, FALSE>>
  BY <1>4 DEF TestStoped, NotifyOne, Pending, InHand
<1>5. CASE TestLoop \/ TestPredicate \/ Sleep \/ SpuriousWakeup \/ Drained
  BY <1>5 DEF TestLoop, TestPredicate, Sleep, SpuriousWakeup, Drained, Pending, InHand
<1>6. CASE Destroyer \/ UNCHANGED vars
  BY <1>6 DEF Destroyer, StoreStoped, NotifyAll, Join, vars, Pending, InHand
<1> QED
  BY <1>1, <1>2, <1>3, <1>4, <1>5, <1>6 DEF Next, Writer, Worker

\* No line is lost, written twice or overtaken, whichever thread logs it.
THEOREM Refinement == Spec => ImplementsChannel
<1>1. Init => ToFile!Init
  BY InitRefines
<1>2. LogInv /\ [Next]_vars => [ToFile!Next]_<<Pending, written, FALSE>>
  BY StepRefines
<1> QED
  BY <1>1, <1>2, Invariance, PTL DEF Spec, ImplementsChannel, ToFile!Spec, Pending
=============================================================================
