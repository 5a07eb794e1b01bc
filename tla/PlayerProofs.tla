---------------------------- MODULE PlayerProofs ----------------------------
(***************************************************************************)
(* The invariants of the live players.                                     *)
(***************************************************************************)
EXTENDS Player, SequenceTheorems, WellFoundedInduction, TLAPS

-----------------------------------------------------------------------------
(* The operators on the worker.                                            *)

Connecting == [Idle EXCEPT !.ws = "connecting"]

\* What WorkerConsistent says of the worker alone.
SoundWorker(w, failed) ==
  /\ w.ws # "open" => w.asked = 0 /\ w.wire = << >>
  /\ w.ws = "none" => ~w.hDec /\ ~w.cacheBuffer
  /\ w.hDec => w.cacheBuffer
  /\ w.cacheBuffer => w.buffers > 0
  /\ w.buffers <= failed + (IF w.hDec THEN 1 ELSE 0)

LEMMA IdleFacts ==
  ASSUME NEW packets, NEW failed \in Nat
  PROVE  /\ Idle \in WorkerStates(packets) /\ Connecting \in WorkerStates(packets)
         /\ SoundWorker(Idle, failed) /\ SoundWorker(Connecting, failed)
         /\ Idle.ws = "none" /\ Connecting.ws = "connecting"
<1>1. << >> \in Seq(packets)
  OBVIOUS
<1>2. Idle \in WorkerStates(packets) /\ Connecting \in WorkerStates(packets)
  BY <1>1 DEF Idle, Connecting, WorkerStates
<1>3. SoundWorker(Idle, failed) /\ Idle.ws = "none"
  BY DEF Idle, SoundWorker
<1>4. SoundWorker(Connecting, failed) /\ Connecting.ws = "connecting"
  BY DEF Idle, Connecting, SoundWorker
<1> QED
  BY <1>2, <1>3, <1>4

\* A request of the page keeps a worker sound; afterwards it has a socket when
\* the request was to play, or it had one and the request was not to stop.
LEMMA RequestKeeps ==
  ASSUME NEW packets, NEW failed \in Nat, NEW w \in WorkerStates(packets),
         SoundWorker(w, failed), NEW r \in Requests
  PROVE  /\ processReq(w, r) \in WorkerStates(packets)
         /\ SoundWorker(processReq(w, r), failed)
         /\ processReq(w, r).ws # "none" <=> r = "create" \/ (r # "close" /\ w.ws # "none")
<1>1. CASE r = "create"
  <2>1. processReq(w, r) = IF w.ws = "none" THEN [w EXCEPT !.ws = "connecting"] ELSE w
    BY <1>1 DEF processReq, CreateVideoDec
  <2> QED
    BY <1>1, <2>1 DEF WorkerStates, SoundWorker
<1>2. CASE r = "close"
  <2> DEFINE kept == w.buffers - (IF w.cacheBuffer THEN 1 ELSE 0)
  <2>1. processReq(w, r) = [Idle EXCEPT !.buffers = kept]
    BY <1>2 DEF processReq, ReleaseVideoDecode
  <2>2. kept \in Nat /\ kept <= failed
    BY DEF WorkerStates, SoundWorker
  <2> HIDE DEF kept
  <2>3. processReq(w, r) = [ws |-> "none", hDec |-> FALSE, cacheBuffer |-> FALSE,
                            buffers |-> kept, asked |-> 0, wire |-> << >>]
    BY <2>1 DEF Idle
  <2>4. << >> \in Seq(packets)
    OBVIOUS
  <2>5. processReq(w, r) \in WorkerStates(packets)
    BY <2>2, <2>3, <2>4 DEF WorkerStates
  <2>6. SoundWorker(processReq(w, r), failed)
    BY <2>2, <2>3 DEF SoundWorker
  <2> QED
    BY <1>2, <2>3, <2>5, <2>6
<1>3. CASE r = "visible"
  <2>1. CASE w.ws = "open"
    <3>1. processReq(w, r) = [w EXCEPT !.asked = w.asked + 1]
      BY <1>3, <2>1 DEF processReq
    <3>2. w.asked + 1 \in Nat
      BY DEF WorkerStates
    <3>3. processReq(w, r) \in WorkerStates(packets)
      BY <3>1, <3>2 DEF WorkerStates
    <3>4. /\ processReq(w, r).ws = "open" /\ processReq(w, r).hDec = w.hDec
          /\ processReq(w, r).cacheBuffer = w.cacheBuffer /\ processReq(w, r).buffers = w.buffers
      BY <2>1, <3>1 DEF WorkerStates
    <3>5. SoundWorker(processReq(w, r), failed)
      BY <3>4 DEF SoundWorker
    <3> QED
      BY <1>3, <2>1, <3>3, <3>4, <3>5
  <2>2. CASE w.ws # "open"
    <3>1. processReq(w, r) = w
      BY <1>3, <2>2 DEF processReq
    <3> QED
      BY <1>3, <3>1
  <2> QED
    BY <2>1, <2>2
<1> QED
  BY <1>1, <1>2, <1>3 DEF Requests

-----------------------------------------------------------------------------
(* The last word of a queue.                                               *)

\* The last word of the first n requests of q.
WordOf(now, q, n) ==
  \/ \E i \in 1..n : q[i] = "create" /\ \A j \in i..n : q[j] # "close"
  \/ now /\ \A i \in 1..n : q[i] # "close"

LEMMA LastWordOf ==
  ASSUME NEW now, NEW q \in Seq(Requests)
  PROVE  LastWord(now, q) <=> WordOf(now, q, Len(q))
BY DEF LastWord, WordOf

LEMMA WordOfNext ==
  ASSUME NEW now \in BOOLEAN, NEW q, NEW n \in Nat, q[n + 1] \in Requests
  PROVE  WordOf(now, q, n + 1)
           <=> q[n + 1] = "create" \/ (q[n + 1] # "close" /\ WordOf(now, q, n))
<1>1. \A i \in 1..n + 1 : i \in 1..n \/ i = n + 1
  OBVIOUS
<1>2. (\A i \in 1..n + 1 : q[i] # "close") <=> q[n + 1] # "close" /\ \A i \in 1..n : q[i] # "close"
  BY <1>1
<1>3. \A i \in 1..n : (\A j \in i..n + 1 : q[j] # "close")
                        <=> q[n + 1] # "close" /\ \A j \in i..n : q[j] # "close"
  <2> TAKE i \in 1..n
  <2>1. \A j \in i..n + 1 : j \in i..n \/ j = n + 1
    OBVIOUS
  <2> QED
    BY <2>1
<1>4. (\A j \in n + 1..n + 1 : q[j] # "close") <=> q[n + 1] # "close"
  OBVIOUS
<1>5. (\E i \in 1..n + 1 : q[i] = "create" /\ \A j \in i..n + 1 : q[j] # "close")
        <=> \/ q[n + 1] = "create"
            \/ q[n + 1] # "close" /\ \E i \in 1..n : q[i] = "create" /\ \A j \in i..n : q[j] # "close"
  BY <1>1, <1>3, <1>4
<1> QED
  BY <1>2, <1>5 DEF WordOf, Requests

\* The same from the other end.
LEMMA LastWordOfTail ==
  ASSUME NEW now \in BOOLEAN, NEW q \in Seq(Requests), q # << >>
  PROVE  LastWord(now, q)
           <=> LastWord(Head(q) = "create" \/ (Head(q) # "close" /\ now), Tail(q))
<1>1. /\ Len(q) \in Nat \ {0} /\ Len(Tail(q)) = Len(q) - 1 /\ Head(q) = q[1]
      /\ DOMAIN q = 1..Len(q) /\ DOMAIN Tail(q) = 1..Len(q) - 1
      /\ \A k \in 1..Len(q) - 1 : Tail(q)[k] = q[k + 1]
  OBVIOUS
<1> DEFINE n == Len(q)
           quiet(k) == \A j \in k..n : q[j] # "close"
<1>2. \A k \in 1..n - 1 : (\A j \in k..n - 1 : Tail(q)[j] # "close") <=> quiet(k + 1)
  <2> TAKE k \in 1..n - 1
  <2>1. ASSUME quiet(k + 1), NEW j \in k..n - 1 PROVE Tail(q)[j] # "close"
    BY <1>1, <2>1
  <2>2. ASSUME \A j \in k..n - 1 : Tail(q)[j] # "close", NEW j \in k + 1..n PROVE q[j] # "close"
    <3>1. j - 1 \in k..n - 1 /\ Tail(q)[j - 1] = q[j]
      BY <1>1
    <3> QED
      BY <2>2, <3>1
  <2> QED
    BY <2>1, <2>2
<1>3. (\A j \in 1..n - 1 : Tail(q)[j] # "close") <=> quiet(2)
  <2>1. ASSUME quiet(2), NEW j \in 1..n - 1 PROVE Tail(q)[j] # "close"
    BY <1>1, <2>1
  <2>2. ASSUME \A j \in 1..n - 1 : Tail(q)[j] # "close", NEW j \in 2..n PROVE q[j] # "close"
    <3>1. j - 1 \in 1..n - 1 /\ Tail(q)[j - 1] = q[j]
      BY <1>1
    <3> QED
      BY <2>2, <3>1
  <2> QED
    BY <2>1, <2>2
<1>4. (\E k \in 1..n - 1 : Tail(q)[k] = "create" /\ \A j \in k..n - 1 : Tail(q)[j] # "close")
        <=> \E k \in 2..n : q[k] = "create" /\ quiet(k)
  <2>1. ASSUME NEW k \in 1..n - 1, Tail(q)[k] = "create", quiet(k + 1)
        PROVE  \E i \in 2..n : q[i] = "create" /\ quiet(i)
    BY <1>1, <2>1
  <2>2. ASSUME NEW k \in 2..n, q[k] = "create", quiet(k)
        PROVE  \E i \in 1..n - 1 : Tail(q)[i] = "create" /\ quiet(i + 1)
    <3>1. k - 1 \in 1..n - 1 /\ Tail(q)[k - 1] = q[k] /\ (k - 1) + 1 = k
      BY <1>1
    <3> QED
      BY <2>2, <3>1
  <2> QED
    BY <1>2, <2>1, <2>2
<1>5. \A j \in 1..n : j = 1 \/ j \in 2..n
  OBVIOUS
<1>6. quiet(1) <=> q[1] # "close" /\ quiet(2)
  BY <1>1, <1>5
<1>7. (\E k \in 1..n : q[k] = "create" /\ quiet(k))
        <=> (q[1] = "create" /\ quiet(1)) \/ \E k \in 2..n : q[k] = "create" /\ quiet(k)
  BY <1>1, <1>5
<1>8. LastWord(now, q) <=> (\E k \in 1..n : q[k] = "create" /\ quiet(k)) \/ (now /\ quiet(1))
  BY <1>1 DEF LastWord
<1>9. LastWord(Head(q) = "create" \/ (Head(q) # "close" /\ now), Tail(q))
        <=> \/ \E k \in 2..n : q[k] = "create" /\ quiet(k)
            \/ (Head(q) = "create" \/ (Head(q) # "close" /\ now)) /\ quiet(2)
  BY <1>1, <1>3, <1>4 DEF LastWord
<1> HIDE DEF quiet
<1> QED
  BY <1>1, <1>6, <1>7, <1>8, <1>9

\* What is posted last decides.
LEMMA LastWordOfAppended ==
  ASSUME NEW now \in BOOLEAN, NEW q \in Seq(Requests), NEW r \in Requests
  PROVE  /\ Append(q, r) \in Seq(Requests)
         /\ LastWord(now, Append(q, r)) <=> r = "create" \/ (r # "close" /\ LastWord(now, q))
<1> DEFINE a == Append(q, r)
           n == Len(q)
<1>1. /\ a \in Seq(Requests) /\ Len(a) = n + 1 /\ n \in Nat /\ a[n + 1] = r
      /\ \A i \in 1..n : a[i] = q[i]
  OBVIOUS
<1>2. WordOf(now, a, n) <=> WordOf(now, q, n)
  BY <1>1 DEF WordOf
<1>3. (LastWord(now, a) <=> WordOf(now, a, n + 1)) /\ (LastWord(now, q) <=> WordOf(now, q, n))
  BY <1>1, LastWordOf
<1>4. WordOf(now, a, n + 1) <=> r = "create" \/ (r # "close" /\ WordOf(now, a, n))
  BY <1>1, WordOfNext
<1> QED
  BY <1>1, <1>2, <1>3, <1>4

\* Visibility changes decide nothing.
LEMMA LastWordOfVisible ==
  ASSUME NEW now \in BOOLEAN, NEW q \in Seq(Requests), NEW n \in Nat
  PROVE  LET v == [i \in 1..n |-> "visible"]
         IN  q \o v \in Seq(Requests) /\ (LastWord(now, q \o v) <=> LastWord(now, q))
<1> DEFINE v == [i \in 1..n |-> "visible"]
           a == q \o v
<1>1. v \in Seq(Requests) /\ Len(v) = n
  BY DEF Requests
<1>2. /\ a \in Seq(Requests) /\ Len(a) = Len(q) + n /\ Len(q) \in Nat
      /\ \A i \in 1..Len(q) : a[i] = q[i]
      /\ \A i \in Len(q) + 1..Len(q) + n : a[i] = "visible"
  BY <1>1
<1> HIDE DEF a
<1>3. \A i \in 1..Len(a) : i \in 1..Len(q) \/ i \in Len(q) + 1..Len(q) + n
  BY <1>2
<1>4. (\A i \in 1..Len(a) : a[i] # "close") <=> \A i \in 1..Len(q) : q[i] # "close"
  BY <1>2, <1>3
<1>5. \A i \in 1..Len(q) : (\A j \in i..Len(a) : a[j] # "close") <=> \A j \in i..Len(q) : q[j] # "close"
  BY <1>2, <1>3
<1>6. (\E i \in 1..Len(a) : a[i] = "create" /\ \A j \in i..Len(a) : a[j] # "close")
        <=> \E i \in 1..Len(q) : q[i] = "create" /\ \A j \in i..Len(q) : q[j] # "close"
  BY <1>2, <1>3, <1>5
<1>7. DOMAIN a = 1..Len(a) /\ DOMAIN q = 1..Len(q)
  BY <1>2
<1> QED
  BY <1>2, <1>4, <1>6, <1>7 DEF LastWord, a

-----------------------------------------------------------------------------
(* What onWasmLoaded does with the requests it has kept.                   *)

\* A set of numbers has a least one.
LEMMA LeastOf ==
  ASSUME NEW S \in SUBSET Nat, S # {}
  PROVE  \E n \in S : \A k \in S : n <= k
<1> DEFINE R == {p \in Nat \X Nat : p[1] < p[2]}
<1>1. IsWellFoundedOn(R, Nat)
  BY NatLessThanWellFounded DEF OpToRel
<1>2. \A k, n \in Nat : k < n => <<k, n>> \in R
  OBVIOUS
<1> HIDE DEF R
<1>3. PICK n \in S : \A k \in S : ~ (<<k, n>> \in R)
  BY <1>1, WFMin
<1> SUFFICES ASSUME NEW k \in S PROVE n <= k
  OBVIOUS
<1>4. k \in Nat /\ n \in Nat /\ ~ (k < n)
  BY <1>2, <1>3
<1> QED
  BY <1>4

\* Induction, for the numbers of a set.
LEMMA UpTo ==
  ASSUME NEW n \in Nat, NEW S, 0 \in S, \A i \in 0..n - 1 : i \in S => i + 1 \in S
  PROVE  \A i \in 0..n : i \in S
<1> DEFINE Rest == {i \in 0..n : i \notin S}
<1> SUFFICES ASSUME Rest # {} PROVE FALSE
  OBVIOUS
<1>1. PICK k \in Rest : \A i \in Rest : k <= i
  <2>1. Rest \in SUBSET Nat
    OBVIOUS
  <2> HIDE DEF Rest
  <2> QED
    BY <2>1, LeastOf
<1>2. k \in 1..n /\ k - 1 \in 0..n - 1 /\ k - 1 \notin Rest /\ (k - 1) + 1 = k
  BY <1>1
<1> QED
  BY <1>2

\* The worker after each of the requests in q, and that there is such a function.
IsAfter(f, w, q, n) ==
  f = [i \in 0..n |-> IF i = 0 THEN w ELSE processReq(f[i - 1], q[i])]

LEMMA AfterExists ==
  ASSUME NEW w, NEW q, NEW n \in Nat
  PROVE  \E f : IsAfter(f, w, q, n)
<1> DEFINE S == {m \in 0..n : \E f : IsAfter(f, w, q, m)}
<1>1. 0 \in S
  <2> DEFINE f == [i \in 0..0 |-> w]
  <2>1. IsAfter(f, w, q, 0)
    BY DEF IsAfter
  <2> QED
    BY <2>1
<1>2. ASSUME NEW m \in 0..n - 1, m \in S PROVE m + 1 \in S
  <2> PICK f : IsAfter(f, w, q, m)
    BY <1>2
  <2> DEFINE g == [i \in 0..m + 1 |-> IF i = m + 1 THEN processReq(f[m], q[m + 1]) ELSE f[i]]
             h == [i \in 0..m + 1 |-> IF i = 0 THEN w ELSE processReq(g[i - 1], q[i])]
  <2>1. \A i \in 0..m : f[i] = IF i = 0 THEN w ELSE processReq(f[i - 1], q[i])
    BY DEF IsAfter
  <2>2. \A i \in 0..m + 1 : g[i] = h[i]
    <3> TAKE i \in 0..m + 1
    <3>1. CASE i = m + 1
      BY <3>1
    <3>2. CASE i # m + 1
      <4>1. i \in 0..m /\ (i # 0 => i - 1 \in 0..m + 1 /\ i - 1 # m + 1)
        BY <3>2
      <4>2. g[i] = f[i] /\ (i # 0 => g[i - 1] = f[i - 1])
        BY <4>1
      <4> QED
        BY <2>1, <4>1, <4>2
    <3> QED
      BY <3>1, <3>2
  <2>3. g = h
    BY <2>2
  <2>4. IsAfter(g, w, q, m + 1)
    BY <2>3 DEF IsAfter
  <2> QED
    BY <2>4
<1> HIDE DEF S
<1>3. \A i \in 0..n : i \in S
  BY <1>1, <1>2, UpTo
<1> QED
  BY <1>3 DEF S

\* A worker that is idle until its code is there then connects exactly when the
\* last word of the requests kept for it is to play.
LEMMA DrainedFollows ==
  ASSUME NEW q \in Seq(Requests)
  PROVE  /\ Drained(Idle, q) \in {Idle, Connecting}
         /\ Drained(Idle, q).ws # "none" <=> LastWord(FALSE, q)
<1> DEFINE n == Len(q)
           f == CHOOSE f : IsAfter(f, Idle, q, n)
           S == {i \in 0..n : /\ f[i] \in {Idle, Connecting}
                              /\ f[i].ws # "none" <=> WordOf(FALSE, q, i)}
<1>1. n \in Nat /\ \A i \in 1..n : q[i] \in Requests
  OBVIOUS
<1>2. Drained(Idle, q) = f[n]
  BY DEF Drained, IsAfter
<1>3. IsAfter(f, Idle, q, n)
  BY <1>1, AfterExists
<1> HIDE DEF f
<1>4. f[0] = Idle /\ \A i \in 0..n - 1 : f[i + 1] = processReq(f[i], q[i + 1])
  <2>1. \A i \in 0..n : f[i] = IF i = 0 THEN Idle ELSE processReq(f[i - 1], q[i])
    BY <1>3 DEF IsAfter
  <2> QED
    BY <1>1, <2>1
<1>5. Idle.ws = "none" /\ Connecting.ws = "connecting"
  BY IdleFacts
<1>6. 0 \in S
  <2>1. ~WordOf(FALSE, q, 0)
    BY DEF WordOf
  <2>2. 0 \in 0..n /\ f[0] \in {Idle, Connecting} /\ ~ (f[0].ws # "none")
    BY <1>1, <1>4, <1>5
  <2> QED
    BY <2>1, <2>2
<1>7. ASSUME NEW i \in 0..n - 1, i \in S PROVE i + 1 \in S
  <2>1. /\ q[i + 1] \in Requests /\ i \in Nat /\ i + 1 \in 0..n
        /\ f[i] \in {Idle, Connecting} /\ f[i + 1] = processReq(f[i], q[i + 1])
    BY <1>1, <1>4, <1>7
  <2>2. WordOf(FALSE, q, i + 1)
          <=> q[i + 1] = "create" \/ (q[i + 1] # "close" /\ WordOf(FALSE, q, i))
    BY <2>1, WordOfNext
  <2>3. f[i + 1] \in {Idle, Connecting}
    <3>1. /\ Idle.buffers = 0 /\ ~Idle.cacheBuffer /\ [Idle EXCEPT !.buffers = 0] = Idle
          /\ Connecting.buffers = 0 /\ ~Connecting.cacheBuffer
      BY DEF Idle, Connecting
    <3>2. CASE q[i + 1] = "create"
      <4>1. f[i + 1] = IF f[i].ws = "none" THEN [f[i] EXCEPT !.ws = "connecting"] ELSE f[i]
        BY <2>1, <3>2 DEF processReq, CreateVideoDec
      <4> QED
        BY <2>1, <4>1, <1>5 DEF Connecting
    <3>3. CASE q[i + 1] = "close"
      <4>1. f[i].buffers = 0 /\ ~f[i].cacheBuffer
        BY <2>1, <3>1
      <4>2. f[i + 1] = [Idle EXCEPT !.buffers = 0]
        BY <2>1, <3>3, <4>1 DEF processReq, ReleaseVideoDecode
      <4> QED
        BY <3>1, <4>2
    <3>4. CASE q[i + 1] = "visible"
      <4>1. f[i + 1] = f[i]
        BY <1>5, <2>1, <3>4 DEF processReq
      <4> QED
        BY <2>1, <4>1
    <3> QED
      BY <2>1, <3>2, <3>3, <3>4 DEF Requests
  <2>4. f[i + 1].ws # "none" <=> q[i + 1] = "create" \/ (q[i + 1] # "close" /\ f[i].ws # "none")
    <3>1. f[i] \in WorkerStates({}) /\ SoundWorker(f[i], 0)
      BY <2>1, IdleFacts
    <3> QED
      BY <2>1, <3>1, RequestKeeps
  <2> QED
    BY <1>7, <2>1, <2>2, <2>3, <2>4
<1> HIDE DEF S
<1>8. n \in S
  <2>1. \A i \in 0..n : i \in S
    BY <1>1, <1>6, <1>7, UpTo
  <2> QED
    BY <1>1, <2>1
<1> QED
  BY <1>2, <1>8, LastWordOf DEF S

-----------------------------------------------------------------------------
(* Requests that are posted, kept and handled.                             *)

LEMMA LastWordType == ASSUME NEW now, NEW q PROVE LastWord(now, q) \in BOOLEAN
BY DEF LastWord

\* A request that is posted comes last.
LEMMA PostedLast ==
  ASSUME NEW now \in BOOLEAN, NEW kept \in Seq(Requests), NEW q \in Seq(Requests),
         NEW r \in Requests
  PROVE  LastWord(now, kept \o Append(q, r))
           <=> r = "create" \/ (r # "close" /\ LastWord(now, kept \o q))
<1>1. <<r>> \in Seq(Requests) /\ kept \o q \in Seq(Requests)
  BY ConcatProperties
<1>2. Append(kept \o q, r) = (kept \o q) \o <<r>> /\ Append(q, r) = q \o <<r>>
  BY <1>1, AppendIsConcat
<1>3. (kept \o q) \o <<r>> = kept \o (q \o <<r>>)
  BY <1>1, ConcatAssociative
<1>4. kept \o Append(q, r) = Append(kept \o q, r)
  BY <1>2, <1>3
<1>5. LastWord(now, Append(kept \o q, r)) <=> r = "create" \/ (r # "close" /\ LastWord(now, kept \o q))
  <2> DEFINE a == kept \o q
  <2>1. a \in Seq(Requests)
    BY <1>1
  <2> HIDE DEF a
  <2>2. LastWord(now, Append(a, r)) <=> r = "create" \/ (r # "close" /\ LastWord(now, a))
    BY <2>1, LastWordOfAppended
  <2> QED
    BY <2>2 DEF a
<1> QED
  BY <1>4, <1>5

LEMMA PostedPlay ==
  ASSUME NEW now \in BOOLEAN, NEW kept \in Seq(Requests), NEW q \in Seq(Requests)
  PROVE  /\ q \o <<"create", "visible">> \in Seq(Requests)
         /\ LastWord(now, kept \o (q \o <<"create", "visible">>))
<1>1. "create" \in Requests /\ "visible" \in Requests
  BY DEF Requests
<1>2. q \o <<"create", "visible">> = Append(Append(q, "create"), "visible")
  OBVIOUS
<1>3. Append(q, "create") \in Seq(Requests) /\ Append(Append(q, "create"), "visible") \in Seq(Requests)
  BY <1>1
<1>4. LastWord(now, kept \o Append(q, "create"))
  BY <1>1, PostedLast
<1>5. LastWord(now, kept \o Append(Append(q, "create"), "visible"))
  BY <1>1, <1>3, <1>4, PostedLast
<1> QED
  BY <1>2, <1>3, <1>5

LEMMA PostedVisible ==
  ASSUME NEW now \in BOOLEAN, NEW kept \in Seq(Requests), NEW q \in Seq(Requests),
         NEW n \in Nat
  PROVE  LET v == [i \in 1..n |-> "visible"]
         IN  /\ q \o v \in Seq(Requests)
             /\ LastWord(now, kept \o (q \o v)) <=> LastWord(now, kept \o q)
<1> DEFINE v == [i \in 1..n |-> "visible"]
<1>1. v \in Seq(Requests)
  BY DEF Requests
<1>2. kept \o q \in Seq(Requests) /\ q \o v \in Seq(Requests)
  BY <1>1, ConcatProperties
<1>3. kept \o (q \o v) = (kept \o q) \o v
  BY <1>1, ConcatAssociative
<1>4. LastWord(now, (kept \o q) \o v) <=> LastWord(now, kept \o q)
  BY <1>2, LastWordOfVisible
<1> QED
  BY <1>2, <1>3, <1>4

\* A request that is kept stays in its place.
LEMMA KeptInPlace ==
  ASSUME NEW kept \in Seq(Requests), NEW q \in Seq(Requests), q # << >>
  PROVE  Append(kept, Head(q)) \o Tail(q) = kept \o q
<1>1. Head(q) \in Requests /\ Tail(q) \in Seq(Requests) /\ <<Head(q)>> \in Seq(Requests)
  OBVIOUS
<1>2. Append(kept, Head(q)) = kept \o <<Head(q)>>
  BY <1>1, AppendIsConcat
<1>3. <<Head(q)>> \o Tail(q) = q
  OBVIOUS
<1>4. (kept \o <<Head(q)>>) \o Tail(q) = kept \o (<<Head(q)>> \o Tail(q))
  BY <1>1, ConcatAssociative
<1> QED
  BY <1>2, <1>3, <1>4

\* What is kept comes before what is posted.
LEMMA LastWordOfBoth ==
  ASSUME NEW now \in BOOLEAN, NEW s \in Seq(Requests), NEW q \in Seq(Requests)
  PROVE  LastWord(now, s \o q) <=> LastWord(LastWord(now, s), q)
<1> DEFINE a == s \o q
           n == Len(s)
           m == Len(q)
           still(b, i, j) == \A k \in i..j : b[k] # "close"
<1>1. /\ n \in Nat /\ m \in Nat /\ Len(a) = n + m
      /\ DOMAIN s = 1..n /\ DOMAIN q = 1..m /\ DOMAIN a = 1..n + m
      /\ \A i \in 1..n : a[i] = s[i]
      /\ \A i \in 1..m : a[n + i] = q[i]
  OBVIOUS
<1> HIDE DEF a
<1>2. \A i \in 1..m : i + n \in n + 1..n + m /\ a[i + n] = q[i]
  BY <1>1
<1>3. \A i \in n + 1..n + m : i - n \in 1..m /\ a[i] = q[i - n] /\ (i - n) + n = i
  BY <1>1
<1>4. \A i \in 1..m : still(a, i + n, n + m) <=> still(q, i, m)
  <2> TAKE i \in 1..m
  <2>1. ASSUME still(q, i, m), NEW k \in i + n..n + m PROVE a[k] # "close"
    <3>1. k - n \in i..m /\ k \in n + 1..n + m
      BY <1>1
    <3> QED
      BY <1>3, <2>1, <3>1
  <2>2. ASSUME still(a, i + n, n + m), NEW k \in i..m PROVE q[k] # "close"
    <3>1. k + n \in i + n..n + m /\ k \in 1..m
      BY <1>1
    <3> QED
      BY <1>2, <2>2, <3>1
  <2> QED
    BY <2>1, <2>2
<1>5. \A i \in 1..n : still(a, i, n + m) <=> still(s, i, n) /\ still(q, 1, m)
  <2> TAKE i \in 1..n
  <2>1. ASSUME still(s, i, n), still(q, 1, m), NEW k \in i..n + m PROVE a[k] # "close"
    <3>1. k \in i..n \/ k \in n + 1..n + m
      BY <1>1
    <3> QED
      BY <1>1, <1>3, <2>1, <3>1
  <2>2. ASSUME still(a, i, n + m), NEW k \in i..n PROVE s[k] # "close"
    BY <1>1, <2>2
  <2>3. ASSUME still(a, i, n + m), NEW k \in 1..m PROVE q[k] # "close"
    <3>1. k + n \in i..n + m
      BY <1>1
    <3> QED
      BY <1>2, <2>3, <3>1
  <2> QED
    BY <2>1, <2>2, <2>3
<1>6. still(a, 1, n + m) <=> still(s, 1, n) /\ still(q, 1, m)
  <2>1. ASSUME still(s, 1, n), still(q, 1, m), NEW k \in 1..n + m PROVE a[k] # "close"
    <3>1. k \in 1..n \/ k \in n + 1..n + m
      BY <1>1
    <3> QED
      BY <1>1, <1>3, <2>1, <3>1
  <2>2. ASSUME still(a, 1, n + m), NEW k \in 1..n PROVE s[k] # "close"
    BY <1>1, <2>2
  <2>3. ASSUME still(a, 1, n + m), NEW k \in 1..m PROVE q[k] # "close"
    <3>1. k + n \in 1..n + m
      BY <1>1
    <3> QED
      BY <1>2, <2>3, <3>1
  <2> QED
    BY <2>1, <2>2, <2>3
<1>7. LastWord(now, a) <=> (\E i \in 1..n + m : a[i] = "create" /\ still(a, i, n + m))
                            \/ (now /\ still(a, 1, n + m))
  BY <1>1 DEF LastWord
<1>8. LastWord(now, s) <=> (\E i \in 1..n : s[i] = "create" /\ still(s, i, n))
                            \/ (now /\ still(s, 1, n))
  BY <1>1 DEF LastWord
<1>9. LastWord(LastWord(now, s), q)
        <=> (\E i \in 1..m : q[i] = "create" /\ still(q, i, m))
            \/ (LastWord(now, s) /\ still(q, 1, m))
  <2> DEFINE b == LastWord(now, s)
  <2> HIDE DEF b
  <2>1. LastWord(b, q) <=> (\E i \in 1..m : q[i] = "create" /\ still(q, i, m))
                            \/ (b /\ still(q, 1, m))
    BY <1>1 DEF LastWord
  <2> QED
    BY <2>1 DEF b
<1> HIDE DEF still
<1>10. (\E i \in 1..n + m : a[i] = "create" /\ still(a, i, n + m))
         <=> \/ \E i \in 1..n : s[i] = "create" /\ still(s, i, n) /\ still(q, 1, m)
             \/ \E i \in 1..m : q[i] = "create" /\ still(q, i, m)
  <2>1. ASSUME NEW i \in 1..n + m, a[i] = "create", still(a, i, n + m)
        PROVE  \/ \E k \in 1..n : s[k] = "create" /\ still(s, k, n) /\ still(q, 1, m)
               \/ \E k \in 1..m : q[k] = "create" /\ still(q, k, m)
    <3>1. CASE i \in 1..n
      BY <1>1, <1>5, <2>1, <3>1
    <3>2. CASE i \in n + 1..n + m
      BY <1>3, <1>4, <2>1, <3>2
    <3> QED
      BY <1>1, <3>1, <3>2
  <2>2. ASSUME NEW i \in 1..n, s[i] = "create", still(s, i, n), still(q, 1, m)
        PROVE  \E k \in 1..n + m : a[k] = "create" /\ still(a, k, n + m)
    BY <1>1, <1>5, <2>2
  <2>3. ASSUME NEW i \in 1..m, q[i] = "create", still(q, i, m)
        PROVE  \E k \in 1..n + m : a[k] = "create" /\ still(a, k, n + m)
    <3>1. i + n \in 1..n + m /\ a[i + n] = "create" /\ still(a, i + n, n + m)
      BY <1>1, <1>2, <1>4, <2>3
    <3> QED
      BY <3>1
  <2> QED
    BY <2>1, <2>2, <2>3
<1>11. LastWord(now, a) <=> LastWord(LastWord(now, s), q)
  BY <1>6, <1>7, <1>8, <1>9, <1>10
<1> QED
  BY <1>11 DEF a

-----------------------------------------------------------------------------
(* The invariant, in the parts that the steps keep.                        *)

PlayersInv == PlayerInv /\ NoPlayerLost /\ LastWordCounts

LEMMA ConsistentParts ==
  \A p \in Players :
    WorkerConsistent(p) <=> /\ ~loaded[p] => worker[p] = Idle
                            /\ loaded[p] => tmpReqQue[p] = << >>
                            /\ SoundWorker(worker[p], fails)
BY DEF WorkerConsistent, SoundWorker

LEMMA CountsNext ==
  LastWordCounts'
    <=> \A p \in Players :
          LastWord(worker'[p].ws # "none", tmpReqQue'[p] \o requests'[p]) <=> wanted'[p]
BY DEF LastWordCounts, LastWord, Players

LEMMA ShownType ==
  ASSUME NEW S, NEW buffer \in Seq(S)
  PROVE  Shown(buffer) \in Seq(S)
<1>1. CASE Len(buffer) < 2
  BY <1>1 DEF Shown
<1>2. CASE ~ (Len(buffer) < 2)
  <2>1. SubSeq(buffer, 3, Len(buffer)) \in Seq(S)
    OBVIOUS
  <2> QED
    BY <1>2, <2>1 DEF Shown
<1> QED
  BY <1>1, <1>2

\* What Player.stop and Player.play do to the players' variables.
LEMMA SwitchTypes ==
  ASSUME TypeOK, NEW old, NEW new \in Players, NEW url \in BOOLEAN, Switch(old, new, url)
  PROVE  /\ playing' \in [Players -> BOOLEAN] /\ looping' \in [Players -> BOOLEAN]
         /\ wanted' \in [Players -> BOOLEAN]
         /\ requests' \in [Players -> Seq(Requests)]
         /\ frameBuffer' \in [Players -> Seq(1..sent)]
         /\ decWork' \in {decWork, new} /\ listeners' \in {listeners, listeners + 1}
         /\ \A p \in Players : p # new /\ ~playing[p] => requests'[p] = requests[p] /\ ~playing'[p]
         /\ \A p \in Players : playing'[p] => p = new \/ (playing[p] /\ p # old)
<1>1. /\ playing' \in [Players -> BOOLEAN] /\ looping' \in [Players -> BOOLEAN]
      /\ wanted' \in [Players -> BOOLEAN]
      /\ decWork' \in {decWork, new} /\ listeners' \in {listeners, listeners + 1}
      /\ \A p \in Players : playing'[p] => p = new \/ (playing[p] /\ p # old)
  BY Zenon DEF Switch
<1>2. requests' \in [Players -> Seq(Requests)]
  <2>1. ASSUME NEW q \in Seq(Requests)
        PROVE  Append(q, "close") \in Seq(Requests) /\ q \o <<"create", "visible">> \in Seq(Requests)
    BY PostedPlay DEF Requests
  <2>2. \A p \in Players : requests[p] \in Seq(Requests)
    BY DEF TypeOK
  <2> QED
    BY <2>1, <2>2 DEF Switch
<1>3. frameBuffer' \in [Players -> Seq(1..sent)]
  BY ShownType DEF Switch, TypeOK
<1>4. \A p \in Players : p # new /\ ~playing[p] => requests'[p] = requests[p] /\ ~playing'[p]
  BY DEF Switch
<1> QED
  BY <1>1, <1>2, <1>3, <1>4

\* The page's last word stays what the worker will do.
LEMMA SwitchCounts ==
  ASSUME TypeOK, LastWordCounts, NEW old, NEW new \in Players, old # new, NEW url \in BOOLEAN,
         Switch(old, new, url), UNCHANGED <<tmpReqQue, worker>>
  PROVE  LastWordCounts'
<1> SUFFICES ASSUME NEW p \in Players
             PROVE  LastWord(worker[p].ws # "none", tmpReqQue[p] \o requests'[p]) <=> wanted'[p]
  BY CountsNext
<1> DEFINE now == worker[p].ws # "none"
           stops == p \in {old} \ {0} /\ playing[p]
           starts == url /\ p = new
<1>1. /\ now \in BOOLEAN /\ tmpReqQue[p] \in Seq(Requests) /\ requests[p] \in Seq(Requests)
      /\ wanted[p] \in BOOLEAN
  BY DEF TypeOK
<1>2. LastWord(now, tmpReqQue[p] \o requests[p]) <=> wanted[p]
  BY DEF LastWordCounts
<1>3. /\ requests'[p] = IF stops THEN Append(requests[p], "close")
                        ELSE IF starts THEN requests[p] \o <<"create", "visible">>
                        ELSE requests[p]
      /\ wanted'[p] <=> starts \/ (wanted[p] /\ ~stops)
  BY Zenon DEF Switch
<1>4. ~ (stops /\ starts)
  OBVIOUS
<1> HIDE DEF now, stops, starts
<1>5. CASE stops
  <2>1. ~LastWord(now, tmpReqQue[p] \o Append(requests[p], "close"))
    BY <1>1, PostedLast DEF Requests
  <2> QED
    BY <1>3, <1>4, <1>5, <2>1 DEF now
<1>6. CASE ~stops /\ starts
  <2>1. LastWord(now, tmpReqQue[p] \o (requests[p] \o <<"create", "visible">>))
    BY <1>1, PostedPlay
  <2> QED
    BY <1>3, <1>6, <2>1 DEF now
<1>7. CASE ~stops /\ ~starts
  BY <1>2, <1>3, <1>7 DEF now
<1> QED
  BY <1>5, <1>6, <1>7

-----------------------------------------------------------------------------
(* The steps of the page.                                                  *)

\* A step that leaves the workers alone.
LEMMA PageKeeps ==
  ASSUME PlayersInv, UNCHANGED <<loaded, tmpReqQue, worker, sent, fails, max>>,
         made' \in made..MaxPlayers, slot' \in [Slots -> 0..made'],
         playing' \in [Players -> BOOLEAN], looping' \in [Players -> BOOLEAN],
         wanted' \in [Players -> BOOLEAN], visible' \in BOOLEAN,
         decWork' \in 0..made', plays' \in Nat, toggles' \in Nat, listeners' \in 0..plays',
         frameBuffer' \in [Players -> Seq(1..sent)], frames' \in [Players -> Seq(1..sent)],
         requests' \in [Players -> Seq(Requests)],
         \A p \in Players : p > made' => requests'[p] = << >> /\ ~playing'[p],
         NoPlayerLost', LastWordCounts'
  PROVE  PlayersInv'
<1>1. made \in Nat /\ MaxPlayers \in Nat /\ made' \in 0..MaxPlayers /\ made <= made'
  BY BudgetAssumption DEF PlayersInv, PlayerInv, TypeOK
<1>2. \A p \in Players : p > made' => p > made
  BY <1>1 DEF Players
<1>3. \A p \in Players : p > made' => worker'[p] = Idle
  BY <1>2 DEF PlayersInv, PlayerInv, TypeOK
<1>4. /\ loaded' \in [Players -> BOOLEAN] /\ max' \in Budgets /\ fails' \in Nat /\ sent' \in Nat
      /\ tmpReqQue' \in [Players -> Seq(Requests)]
      /\ worker' \in [Players -> WorkerStates(0..sent)] /\ sent' = sent
  BY DEF PlayersInv, PlayerInv, TypeOK
<1>5. TypeOK'
  BY <1>1, <1>3, <1>4 DEF TypeOK, Players, Slots, Requests, WorkerStates, Idle
<1>6. \A p \in Players : WorkerConsistent(p)'
  BY DEF PlayersInv, PlayerInv, WorkerConsistent, Idle, Players
<1> QED
  BY <1>5, <1>6 DEF PlayersInv, PlayerInv, Players

LEMMA ExecuteCanvasKeeps ==
  ASSUME PlayersInv, NEW s \in PanelSlots, NEW url \in BOOLEAN, ExecuteCanvas(s, url)
  PROVE  PlayersInv'
<1> SUFFICES ASSUME NEW new, NEW old, new = made + 1, old = slot[s]
             PROVE  PlayersInv'
  OBVIOUS
<1>1. /\ UNCHANGED <<loaded, tmpReqQue, worker, sent, fails, max, visible, toggles, frames>>
      /\ Switch(old, new, url) /\ made' = new /\ plays' = plays + 1
      /\ slot' = [slot EXCEPT ![s] = new] /\ made < max.players
  BY DEF ExecuteCanvas, viewVars, workVars
<1>2. /\ made \in 0..MaxPlayers /\ slot \in [Slots -> 0..made] /\ s \in Slots /\ max \in Budgets
      /\ plays \in Nat /\ toggles \in Nat /\ visible \in BOOLEAN /\ listeners \in 0..plays
      /\ decWork \in 0..made /\ frames \in [Players -> Seq(1..sent)]
  BY DEF PlayersInv, PlayerInv, TypeOK, Slots
<1>3. max.players \in Players
  BY <1>2, BudgetAssumption
<1>4. new \in Players /\ new \in made..MaxPlayers /\ old \in 0..made /\ old # new
  BY <1>1, <1>2, <1>3, BudgetAssumption DEF Players
<1>5. slot' \in [Slots -> 0..made']
  BY <1>1, <1>2, <1>4
<1>6. TypeOK /\ LastWordCounts /\ NoPlayerLost
  BY DEF PlayersInv, PlayerInv
<1>7. LastWordCounts'
  BY <1>1, <1>4, <1>6, SwitchCounts
<1>8. /\ playing' \in [Players -> BOOLEAN] /\ looping' \in [Players -> BOOLEAN]
      /\ wanted' \in [Players -> BOOLEAN]
      /\ requests' \in [Players -> Seq(Requests)]
      /\ frameBuffer' \in [Players -> Seq(1..sent)]
      /\ decWork' \in {decWork, new} /\ listeners' \in {listeners, listeners + 1}
      /\ \A p \in Players : p # new /\ ~playing[p] => requests'[p] = requests[p] /\ ~playing'[p]
      /\ \A p \in Players : playing'[p] => p = new \/ (playing[p] /\ p # old)
  <2>1. /\ playing' \in [Players -> BOOLEAN] /\ looping' \in [Players -> BOOLEAN]
        /\ wanted' \in [Players -> BOOLEAN]
        /\ requests' \in [Players -> Seq(Requests)]
        /\ frameBuffer' \in [Players -> Seq(1..sent)]
        /\ decWork' \in {decWork, new} /\ listeners' \in {listeners, listeners + 1}
    BY <1>1, <1>4, <1>6, SwitchTypes
  <2>2. \A p \in Players : p # new /\ ~playing[p] => requests'[p] = requests[p] /\ ~playing'[p]
    BY <1>1 DEF Switch
  <2>3. \A p \in Players : playing'[p] => p = new \/ (playing[p] /\ p # old)
    BY Zenon, <1>1 DEF Switch
  <2> QED
    BY <2>1, <2>2, <2>3
<1>9. decWork' \in 0..made' /\ plays' \in Nat /\ listeners' \in 0..plays'
  BY <1>1, <1>2, <1>4, <1>8
<1>10. \A p \in Players : p > made' => requests'[p] = << >> /\ ~playing'[p]
  <2> SUFFICES ASSUME NEW p \in Players, p > made' PROVE requests'[p] = << >> /\ ~playing'[p]
    OBVIOUS
  <2>1. p # new /\ p > made
    BY <1>1, <1>2, <1>4 DEF Players
  <2> QED
    BY <1>6, <1>8, <2>1 DEF TypeOK
<1>11. NoPlayerLost'
  <2> SUFFICES ASSUME NEW p \in Players, playing'[p] PROVE \E x \in Slots : slot'[x] = p
    BY DEF NoPlayerLost, Players, Slots
  <2>1. CASE p = new
    BY <1>1, <1>2, <2>1
  <2>2. CASE playing[p] /\ p # old
    <3>1. PICK x \in Slots : slot[x] = p
      BY <1>6, <2>2 DEF NoPlayerLost
    <3>2. x # s
      BY <2>2, <3>1
    <3> QED
      BY <1>1, <1>2, <3>1, <3>2
  <2> QED
    BY <1>8, <2>1, <2>2
<1> QED
  BY <1>1, <1>2, <1>4, <1>5, <1>7, <1>8, <1>9, <1>10, <1>11, PageKeeps

\* A player that plays without stopping another: the one of the slot, or a new one.
LEMMA PlayKeeps ==
  ASSUME PlayersInv, NEW s \in MainSlots, NEW p \in Players,
         p = IF slot[s] = 0 THEN made + 1 ELSE slot[s],
         Switch(0, p, TRUE), made' = IF slot[s] = 0 THEN p ELSE made, plays' = plays + 1,
         slot' = [slot EXCEPT ![s] = p], UNCHANGED <<viewVars, frames, workVars, sent, fails>>
  PROVE  PlayersInv'
<1>1. UNCHANGED <<loaded, tmpReqQue, worker, sent, fails, max, visible, toggles, frames>>
  BY DEF viewVars, workVars
<1>2. /\ made \in 0..MaxPlayers /\ slot \in [Slots -> 0..made] /\ s \in Slots
      /\ plays \in Nat /\ toggles \in Nat /\ visible \in BOOLEAN /\ listeners \in 0..plays
      /\ decWork \in 0..made /\ frames \in [Players -> Seq(1..sent)]
  BY DEF PlayersInv, PlayerInv, TypeOK, Slots
<1>3. p \in Nat /\ p # 0 /\ p <= MaxPlayers
  BY BudgetAssumption DEF Players
<1>4. made' \in made..MaxPlayers /\ p <= made'
  <2>1. CASE slot[s] = 0
    BY <1>2, <1>3, <2>1, BudgetAssumption
  <2>2. CASE slot[s] # 0
    <3>1. slot[s] \in 0..made
      BY <1>2
    <3> QED
      BY <1>2, <1>3, <2>2, <3>1, BudgetAssumption
  <2> QED
    BY <2>1, <2>2
<1>5. slot' \in [Slots -> 0..made']
  <2>1. 0..made \subseteq 0..made' /\ p \in 0..made'
    BY <1>2, <1>3, <1>4, BudgetAssumption
  <2> QED
    BY <1>2, <2>1
<1>6. TypeOK /\ LastWordCounts /\ NoPlayerLost
  BY DEF PlayersInv, PlayerInv
<1>7. LastWordCounts'
  BY <1>1, <1>3, <1>6, SwitchCounts
<1>8. /\ playing' \in [Players -> BOOLEAN] /\ looping' \in [Players -> BOOLEAN]
      /\ wanted' \in [Players -> BOOLEAN]
      /\ requests' \in [Players -> Seq(Requests)]
      /\ frameBuffer' \in [Players -> Seq(1..sent)]
      /\ decWork' \in {decWork, p} /\ listeners' \in {listeners, listeners + 1}
      /\ \A x \in Players : x # p /\ ~playing[x] => requests'[x] = requests[x] /\ ~playing'[x]
      /\ \A x \in Players : playing'[x] => x = p \/ (playing[x] /\ x # 0)
  BY <1>6, SwitchTypes
<1>9. decWork' \in 0..made' /\ plays' \in Nat /\ listeners' \in 0..plays'
  BY <1>2, <1>3, <1>4, <1>8
<1>10. \A x \in Players : x > made' => requests'[x] = << >> /\ ~playing'[x]
  <2> SUFFICES ASSUME NEW x \in Players, x > made' PROVE requests'[x] = << >> /\ ~playing'[x]
    OBVIOUS
  <2>1. x # p /\ x > made
    BY <1>2, <1>3, <1>4, BudgetAssumption DEF Players
  <2> QED
    BY <1>6, <1>8, <2>1 DEF TypeOK
<1>11. NoPlayerLost'
  <2> SUFFICES ASSUME NEW x \in Players, playing'[x] PROVE \E y \in Slots : slot'[y] = x
    BY DEF NoPlayerLost, Players, Slots
  <2>1. CASE x = p
    BY <1>2, <2>1
  <2>2. CASE x # p /\ playing[x]
    <3>1. PICK y \in Slots : slot[y] = x
      BY <1>6, <2>2 DEF NoPlayerLost
    <3>2. y # s
      BY <2>2, <3>1 DEF Players
    <3> QED
      BY <1>2, <3>1, <3>2
  <2> QED
    BY <1>8, <2>1, <2>2
<1> QED
  BY <1>1, <1>2, <1>4, <1>5, <1>7, <1>8, <1>9, <1>10, <1>11, PageKeeps

LEMMA MainPlayersKeep ==
  ASSUME PlayersInv, NEW s \in MainSlots,
         playVideo(s) \/ \E canvas \in BOOLEAN : camera_player_play(s, canvas)
  PROVE  PlayersInv'
<1>1. /\ made \in 0..MaxPlayers /\ slot \in [Slots -> 0..made] /\ s \in Slots
      /\ max.players \in Players
  BY BudgetAssumption DEF PlayersInv, PlayerInv, TypeOK, Slots
<1>2. CASE playVideo(s)
  <2> DEFINE p == IF slot[s] = 0 THEN made + 1 ELSE slot[s]
  <2>1. p \in Players
    <3>1. p <= max.players /\ slot[s] \in 0..made
      BY <1>1, <1>2 DEF playVideo
    <3> QED
      BY <1>1, <3>1, BudgetAssumption DEF Players
  <2>2. /\ Switch(0, p, TRUE) /\ made' = (IF slot[s] = 0 THEN p ELSE made) /\ plays' = plays + 1
        /\ slot' = [slot EXCEPT ![s] = p] /\ UNCHANGED <<viewVars, frames, workVars, sent, fails>>
    BY <1>2 DEF playVideo
  <2>3. p = IF slot[s] = 0 THEN made + 1 ELSE slot[s]
    OBVIOUS
  <2> HIDE DEF p
  <2> QED
    BY <2>1, <2>2, <2>3, PlayKeeps
<1>3. CASE camera_player_play(s, TRUE)
  <2> DEFINE p == made + 1
  <2>1. p \in Players /\ slot[s] = 0
    BY <1>1, <1>3, BudgetAssumption DEF camera_player_play, Players
  <2>2. /\ Switch(0, p, TRUE) /\ made' = p /\ plays' = plays + 1
        /\ slot' = [slot EXCEPT ![s] = p] /\ UNCHANGED <<viewVars, frames, workVars, sent, fails>>
    BY <1>3 DEF camera_player_play
  <2>3. p = IF slot[s] = 0 THEN made + 1 ELSE slot[s]
    BY <2>1
  <2> HIDE DEF p
  <2> QED
    BY <2>1, <2>2, <2>3, PlayKeeps
<1>4. CASE camera_player_play(s, FALSE)
  <2>1. /\ UNCHANGED <<playing, looping, decWork, listeners, wanted, requests, frameBuffer>>
        /\ UNCHANGED <<loaded, tmpReqQue, worker, sent, fails, max, visible, toggles, frames>>
        /\ slot[s] = 0 /\ made < max.players /\ made' = made + 1 /\ plays' = plays + 1
        /\ slot' = [slot EXCEPT ![s] = made + 1]
    BY <1>4 DEF camera_player_play, viewVars, workVars
  <2>2. TypeOK /\ LastWordCounts /\ NoPlayerLost
    BY DEF PlayersInv, PlayerInv
  <2>3. made' \in made..MaxPlayers /\ slot' \in [Slots -> 0..made']
    BY <1>1, <2>1, BudgetAssumption DEF Players
  <2>4. /\ decWork' \in 0..made' /\ plays' \in Nat /\ listeners' \in 0..plays' /\ toggles' \in Nat
        /\ visible' \in BOOLEAN
    BY <1>1, <2>1, <2>2 DEF TypeOK
  <2>5. /\ playing' \in [Players -> BOOLEAN] /\ looping' \in [Players -> BOOLEAN]
        /\ wanted' \in [Players -> BOOLEAN] /\ requests' \in [Players -> Seq(Requests)]
        /\ frameBuffer' \in [Players -> Seq(1..sent)] /\ frames' \in [Players -> Seq(1..sent)]
    BY <2>1, <2>2 DEF TypeOK
  <2>6. \A p \in Players : p > made' => requests'[p] = << >> /\ ~playing'[p]
    <3>1. \A p \in Players : p > made' => p > made
      BY <1>1, <2>1 DEF Players
    <3> QED
      BY <2>1, <2>2, <3>1 DEF TypeOK
  <2>7. LastWordCounts'
    BY <2>1, <2>2, CountsNext DEF LastWordCounts
  <2>8. NoPlayerLost'
    <3> SUFFICES ASSUME NEW p \in Players, playing[p] PROVE \E x \in Slots : slot'[x] = p
      BY <2>1 DEF NoPlayerLost, Players, Slots
    <3>1. PICK x \in Slots : slot[x] = p
      BY <2>2 DEF NoPlayerLost
    <3>2. x # s
      BY <2>1, <3>1 DEF Players
    <3> QED
      BY <1>1, <2>1, <3>1, <3>2
  <2> QED
    BY <2>1, <2>3, <2>4, <2>5, <2>6, <2>7, <2>8, PageKeeps
<1> QED
  BY <1>2, <1>3, <1>4

LEMMA StopVideoKeeps ==
  ASSUME PlayersInv, NEW s \in MainSlots, stopVideo(s)
  PROVE  PlayersInv'
<1> DEFINE p == slot[s]
<1>1. /\ UNCHANGED <<made, looping, decWork, listeners, plays, visible, toggles, max,
                     frameBuffer, frames, loaded, tmpReqQue, worker, sent, fails>>
      /\ p # 0 /\ slot' = [slot EXCEPT ![s] = 0]
      /\ playing' = [playing EXCEPT ![p] = FALSE]
      /\ wanted' = [wanted EXCEPT ![p] = wanted[p] /\ ~playing[p]]
      /\ requests' = [requests EXCEPT ![p] =
                        IF playing[p] THEN Append(requests[p], "close") ELSE requests[p]]
  BY DEF stopVideo, viewVars, frameVars, workVars
<1>2. TypeOK /\ LastWordCounts /\ NoPlayerLost
  BY DEF PlayersInv, PlayerInv
<1>3. p \in Players /\ s \in Slots /\ p <= made /\ made \in 0..MaxPlayers
  <2>1. s \in Slots /\ made \in 0..MaxPlayers /\ slot \in [Slots -> 0..made]
    BY <1>2 DEF TypeOK, Slots
  <2>2. p \in 0..made
    BY <2>1
  <2> QED
    BY <1>1, <2>1, <2>2, BudgetAssumption DEF Players
<1> HIDE DEF p
<1>4. /\ slot' \in [Slots -> 0..made'] /\ made' \in made..MaxPlayers
      /\ playing' \in [Players -> BOOLEAN]
  BY <1>1, <1>2, <1>3, BudgetAssumption DEF TypeOK
<1>5. wanted' \in [Players -> BOOLEAN]
  BY Zenon, <1>1, <1>2 DEF TypeOK
<1>6. requests' \in [Players -> Seq(Requests)]
  <2>1. requests \in [Players -> Seq(Requests)] /\ requests[p] \in Seq(Requests)
    BY <1>2, <1>3 DEF TypeOK
  <2>2. Append(requests[p], "close") \in Seq(Requests)
    BY <2>1 DEF Requests
  <2> DEFINE q == IF playing[p] THEN Append(requests[p], "close") ELSE requests[p]
  <2>3. q \in Seq(Requests) /\ requests' = [requests EXCEPT ![p] = q]
    BY <1>1, <2>1, <2>2
  <2> HIDE DEF q
  <2> QED
    BY <2>1, <2>3
<1>7. /\ decWork' \in 0..made' /\ plays' \in Nat /\ listeners' \in 0..plays' /\ toggles' \in Nat
      /\ visible' \in BOOLEAN /\ looping' \in [Players -> BOOLEAN]
      /\ frameBuffer' \in [Players -> Seq(1..sent)] /\ frames' \in [Players -> Seq(1..sent)]
  BY <1>1, <1>2 DEF TypeOK
<1>8. \A x \in Players : x > made' => requests'[x] = << >> /\ ~playing'[x]
  BY <1>1, <1>2, <1>3 DEF TypeOK
<1>9. NoPlayerLost'
  <2> SUFFICES ASSUME NEW x \in Players, playing'[x] PROVE \E y \in Slots : slot'[y] = x
    BY DEF NoPlayerLost, Players, Slots
  <2>1. x # p /\ playing[x]
    BY <1>1, <1>2, <1>3 DEF TypeOK
  <2>2. PICK y \in Slots : slot[y] = x
    BY <1>2, <2>1 DEF NoPlayerLost
  <2>3. y # s
    BY <2>1, <2>2 DEF p
  <2> QED
    BY <1>1, <1>2, <2>2, <2>3 DEF TypeOK
<1>10. LastWordCounts'
  <2> SUFFICES ASSUME NEW x \in Players
               PROVE  LastWord(worker[x].ws # "none", tmpReqQue[x] \o requests'[x]) <=> wanted'[x]
    BY <1>1, CountsNext
  <2>1. LastWord(worker[x].ws # "none", tmpReqQue[x] \o requests[x]) <=> wanted[x]
    BY <1>2 DEF LastWordCounts
  <2>2. CASE x = p /\ playing[p]
    <3>1. requests'[x] = Append(requests[x], "close")
      BY <1>1, <1>2, <2>2 DEF TypeOK
    <3>2. ~wanted'[x]
      BY <1>1, <1>2, <2>2 DEF TypeOK
    <3>3. ~LastWord(worker[x].ws # "none", tmpReqQue[x] \o Append(requests[x], "close"))
      <4>1. tmpReqQue[x] \in Seq(Requests) /\ requests[x] \in Seq(Requests) /\ "close" \in Requests
        BY <1>2 DEF TypeOK, Requests
      <4> QED
        BY <4>1, PostedLast
    <3> QED
      BY <3>1, <3>2, <3>3
  <2>3. CASE x # p \/ ~playing[p]
    <3>1. requests'[x] = requests[x]
      BY <1>1, <1>2, <2>3 DEF TypeOK
    <3>2. wanted'[x] <=> wanted[x]
      BY Zenon, <1>1, <1>2, <2>3 DEF TypeOK
    <3> QED
      BY <2>1, <3>1, <3>2
  <2> QED
    BY <2>2, <2>3
<1> QED
  BY <1>1, <1>4, <1>5, <1>6, <1>7, <1>8, <1>9, <1>10, PageKeeps

LEMMA OnchangeKeeps ==
  ASSUME PlayersInv, onchange
  PROVE  PlayersInv'
<1>1. /\ UNCHANGED <<loaded, tmpReqQue, worker, sent, fails, max>>
      /\ UNCHANGED <<slot, made, playing, looping, decWork, listeners, wanted, plays>>
      /\ UNCHANGED <<frameBuffer, frames>>
      /\ toggles' = toggles + 1 /\ visible' = ~visible
  BY DEF onchange, slotVars, frameVars, workVars
<1>2. TypeOK /\ LastWordCounts /\ NoPlayerLost
  BY DEF PlayersInv, PlayerInv
<1>3. /\ requests \in [Players -> Seq(Requests)] /\ tmpReqQue \in [Players -> Seq(Requests)]
      /\ listeners \in Nat /\ decWork \in 0..made /\ made \in 0..MaxPlayers
      /\ listeners \in 0..plays /\ plays \in Nat
  BY <1>2 DEF TypeOK
<1> SUFFICES ASSUME NEW v, v = [i \in 1..listeners |-> "visible"]
             PROVE  PlayersInv'
  OBVIOUS
<1>4. ASSUME NEW q \in Seq(Requests) PROVE q \o v \in Seq(Requests)
  BY <1>3, PostedVisible DEF LastWord
<1>5. \A p \in Players : requests'[p] = IF p = decWork THEN requests[p] \o v ELSE requests[p]
  <2>1. CASE decWork = 0
    BY <2>1 DEF onchange, Players
  <2>2. CASE decWork # 0
    <3>1. requests' = [requests EXCEPT ![decWork] = requests[decWork] \o v]
      BY <2>2 DEF onchange
    <3> QED
      BY <1>3, <3>1
  <2> QED
    BY <2>1, <2>2
<1>6. requests' \in [Players -> Seq(Requests)]
  <2>1. CASE decWork = 0
    BY <1>3, <2>1 DEF onchange
  <2>2. CASE decWork # 0
    <3>1. decWork \in Players
      BY <1>3, <2>2, BudgetAssumption DEF Players
    <3>2. requests[decWork] \o v \in Seq(Requests)
      BY <1>3, <1>4, <3>1
    <3>3. requests' = [requests EXCEPT ![decWork] = requests[decWork] \o v]
      BY <2>2 DEF onchange
    <3> QED
      BY <1>3, <3>2, <3>3
  <2> QED
    BY <2>1, <2>2
<1>7. LastWordCounts'
  <2> SUFFICES ASSUME NEW p \in Players
               PROVE  LastWord(worker[p].ws # "none", tmpReqQue[p] \o requests'[p]) <=> wanted[p]
    BY <1>1, CountsNext
  <2>1. LastWord(worker[p].ws # "none", tmpReqQue[p] \o requests[p]) <=> wanted[p]
    BY <1>2 DEF LastWordCounts
  <2>2. CASE p = decWork
    <3> DEFINE now == worker[p].ws # "none"
    <3>1. now \in BOOLEAN /\ tmpReqQue[p] \in Seq(Requests) /\ requests[p] \in Seq(Requests)
      BY <1>3
    <3> HIDE DEF now
    <3>2. LastWord(now, tmpReqQue[p] \o (requests[p] \o v)) <=> LastWord(now, tmpReqQue[p] \o requests[p])
      BY <1>3, <3>1, PostedVisible
    <3> QED
      BY <1>5, <2>1, <2>2, <3>2 DEF now
  <2>3. CASE p # decWork
    BY <1>5, <2>1, <2>3
  <2> QED
    BY <2>2, <2>3
<1>8. \A p \in Players : p > made' => requests'[p] = << >> /\ ~playing'[p]
  <2> SUFFICES ASSUME NEW p \in Players, p > made PROVE requests'[p] = << >> /\ ~playing[p]
    BY <1>1
  <2>1. p # decWork
    BY <1>3, BudgetAssumption DEF Players
  <2> QED
    BY <1>2, <1>5, <2>1 DEF TypeOK
<1>9. /\ made' \in made..MaxPlayers /\ slot' \in [Slots -> 0..made'] /\ visible' \in BOOLEAN
      /\ decWork' \in 0..made' /\ plays' \in Nat /\ toggles' \in Nat /\ listeners' \in 0..plays'
      /\ frameBuffer' \in [Players -> Seq(1..sent)] /\ frames' \in [Players -> Seq(1..sent)]
  BY <1>1, <1>2, <1>3, BudgetAssumption DEF TypeOK
<1>10. /\ playing' \in [Players -> BOOLEAN] /\ looping' \in [Players -> BOOLEAN]
       /\ wanted' \in [Players -> BOOLEAN]
  BY <1>1, <1>2 DEF TypeOK
<1>11. NoPlayerLost'
  BY <1>1, <1>2 DEF NoPlayerLost, Players, Slots
<1> QED
  BY <1>1, <1>6, <1>7, <1>8, <1>9, <1>10, <1>11, PageKeeps

\* A step that moves frames only.
LEMMA FramesKeep ==
  ASSUME PlayersInv, NEW p \in Players, onFrame(p) \/ displayLoop(p)
  PROVE  PlayersInv'
<1>1. /\ UNCHANGED <<loaded, tmpReqQue, worker, sent, fails, max>>
      /\ UNCHANGED <<slot, made, playing, looping, decWork, listeners, wanted, plays>>
      /\ UNCHANGED <<toggles, visible, requests>>
  BY DEF onFrame, displayLoop, slotVars, viewVars, workVars
<1>2. TypeOK /\ LastWordCounts /\ NoPlayerLost
  BY DEF PlayersInv, PlayerInv
<1>3. /\ frameBuffer \in [Players -> Seq(1..sent)] /\ frames \in [Players -> Seq(1..sent)]
      /\ frameBuffer[p] \in Seq(1..sent) /\ frames[p] \in Seq(1..sent)
  BY <1>2 DEF TypeOK
<1>4. frameBuffer' \in [Players -> Seq(1..sent)] /\ frames' \in [Players -> Seq(1..sent)]
  <2>1. CASE onFrame(p)
    <3>1. Tail(frames[p]) \in Seq(1..sent) /\ Head(frames[p]) \in 1..sent
      BY <1>3, <2>1, HeadTailProperties DEF onFrame
    <3>2. Append(frameBuffer[p], Head(frames[p])) \in Seq(1..sent)
      BY <1>3, <3>1
    <3>3. /\ frames' = [frames EXCEPT ![p] = Tail(frames[p])]
          /\ frameBuffer' = [frameBuffer EXCEPT ![p] = Append(frameBuffer[p], Head(frames[p]))]
      BY <2>1 DEF onFrame, Pushed
    <3> QED
      BY <1>3, <3>1, <3>2, <3>3
  <2>2. CASE displayLoop(p)
    <3>1. Shown(frameBuffer[p]) \in Seq(1..sent)
      BY <1>3, ShownType
    <3>2. frames' = frames /\ frameBuffer' = [frameBuffer EXCEPT ![p] = Shown(frameBuffer[p])]
      BY <2>2 DEF displayLoop
    <3> QED
      BY <1>3, <3>1, <3>2
  <2> QED
    BY <2>1, <2>2
<1>5. LastWordCounts'
  BY <1>1, <1>2, CountsNext DEF LastWordCounts
<1>6. NoPlayerLost'
  BY <1>1, <1>2 DEF NoPlayerLost, Players, Slots
<1>7. /\ made' \in made..MaxPlayers /\ slot' \in [Slots -> 0..made'] /\ visible' \in BOOLEAN
      /\ decWork' \in 0..made' /\ plays' \in Nat /\ toggles' \in Nat /\ listeners' \in 0..plays'
  BY <1>1, <1>2, BudgetAssumption DEF TypeOK
<1>8. /\ playing' \in [Players -> BOOLEAN] /\ looping' \in [Players -> BOOLEAN]
      /\ wanted' \in [Players -> BOOLEAN] /\ requests' \in [Players -> Seq(Requests)]
      /\ \A x \in Players : x > made' => requests'[x] = << >> /\ ~playing'[x]
  BY <1>1, <1>2 DEF TypeOK
<1> QED
  BY <1>1, <1>4, <1>5, <1>6, <1>7, <1>8, PageKeeps

-----------------------------------------------------------------------------
(* The steps of the workers.                                               *)

\* The parts of the invariant that a worker's steps rely on.
LEMMA OfPlayer ==
  ASSUME PlayersInv, NEW p \in Players
  PROVE  /\ requests[p] \in Seq(Requests) /\ tmpReqQue[p] \in Seq(Requests)
         /\ worker[p] \in WorkerStates(0..sent) /\ loaded[p] \in BOOLEAN
         /\ frames[p] \in Seq(1..sent)
         /\ fails \in Nat /\ sent \in Nat
         /\ ~loaded[p] => worker[p] = Idle
         /\ loaded[p] => tmpReqQue[p] = << >>
         /\ SoundWorker(worker[p], fails)
         /\ LastWord(worker[p].ws # "none", tmpReqQue[p] \o requests[p]) <=> wanted[p]
         /\ requests[p] # << >> \/ worker[p] # Idle => p <= made
<1>1. TypeOK /\ LastWordCounts /\ WorkerConsistent(p)
  BY DEF PlayersInv, PlayerInv
<1>2. /\ requests[p] \in Seq(Requests) /\ tmpReqQue[p] \in Seq(Requests)
      /\ worker[p] \in WorkerStates(0..sent) /\ loaded[p] \in BOOLEAN
      /\ frames[p] \in Seq(1..sent) /\ fails \in Nat /\ sent \in Nat
  BY <1>1 DEF TypeOK
<1>3. requests[p] # << >> \/ worker[p] # Idle => p <= made
  BY <1>1, BudgetAssumption DEF TypeOK, Players
<1>4. /\ ~loaded[p] => worker[p] = Idle
      /\ loaded[p] => tmpReqQue[p] = << >>
      /\ SoundWorker(worker[p], fails)
  BY <1>1, ConsistentParts
<1>5. LastWord(worker[p].ws # "none", tmpReqQue[p] \o requests[p]) <=> wanted[p]
  BY <1>1 DEF LastWordCounts
<1> QED
  BY <1>2, <1>3, <1>4, <1>5

LEMMA SoundLater ==
  ASSUME NEW packets, NEW w \in WorkerStates(packets), NEW failed \in Nat, NEW later \in Nat,
         failed <= later, SoundWorker(w, failed)
  PROVE  SoundWorker(w, later)
BY DEF SoundWorker, WorkerStates

\* A step of the worker of p, which is w afterwards.
LEMMA WorkerKeeps ==
  ASSUME PlayersInv, NEW p \in Players, NEW w \in WorkerStates(0..sent), p <= made,
         UNCHANGED <<slotVars, viewVars, frameBuffer, sent>>,
         worker' = [worker EXCEPT ![p] = w],
         requests' \in [Players -> Seq(Requests)], tmpReqQue' \in [Players -> Seq(Requests)],
         loaded' \in [Players -> BOOLEAN], frames' \in [Players -> Seq(1..sent)],
         fails' \in Nat, fails <= fails',
         \A x \in Players : x # p => /\ requests'[x] = requests[x]
                                     /\ tmpReqQue'[x] = tmpReqQue[x]
                                     /\ loaded'[x] = loaded[x],
         ~loaded'[p] => w = Idle,
         loaded'[p] => tmpReqQue'[p] = << >>,
         SoundWorker(w, fails'),
         LastWord(w.ws # "none", tmpReqQue'[p] \o requests'[p]) <=> wanted[p]
  PROVE  PlayersInv'
<1>1. UNCHANGED <<slot, made, playing, looping, decWork, listeners, wanted, plays,
                  visible, toggles, max, frameBuffer, sent>>
  BY DEF slotVars, viewVars
<1>2. TypeOK /\ NoPlayerLost
  BY DEF PlayersInv, PlayerInv
<1>3. /\ worker' \in [Players -> WorkerStates(0..sent)]
      /\ worker'[p] = w /\ \A x \in Players : x # p => worker'[x] = worker[x]
  BY <1>2 DEF TypeOK
<1>4. \A x \in Players : x > made => requests'[x] = << >> /\ worker'[x] = Idle /\ ~playing[x]
  <2> SUFFICES ASSUME NEW x \in Players, x > made
               PROVE  requests'[x] = << >> /\ worker'[x] = Idle /\ ~playing[x]
    OBVIOUS
  <2>1. x # p
    BY <1>2, BudgetAssumption DEF TypeOK, Players
  <2> QED
    BY <1>2, <1>3, <2>1 DEF TypeOK
<1>5. TypeOK'
  <2>1. /\ slot' \in [Slots -> 0..made'] /\ made' \in 0..MaxPlayers
        /\ decWork' \in 0..made' /\ listeners' \in 0..plays' /\ max' \in Budgets
        /\ visible' \in BOOLEAN /\ plays' \in Nat /\ toggles' \in Nat /\ sent' \in Nat
    BY <1>1, <1>2 DEF TypeOK
  <2>2. /\ playing' \in [Players -> BOOLEAN] /\ looping' \in [Players -> BOOLEAN]
        /\ wanted' \in [Players -> BOOLEAN]
    BY <1>1, <1>2 DEF TypeOK
  <2>3. /\ frameBuffer' \in [Players -> Seq(1..sent')] /\ frames' \in [Players -> Seq(1..sent')]
        /\ worker' \in [Players -> WorkerStates(0..sent')]
    BY <1>1, <1>2, <1>3 DEF TypeOK
  <2>4. \A x \in Players : x > made' => requests'[x] = << >> /\ worker'[x] = Idle /\ ~playing'[x]
    BY <1>1, <1>4
  <2> QED
    BY <2>1, <2>2, <2>3, <2>4 DEF TypeOK, Players, Slots, Requests, WorkerStates, Idle
<1>6. \A x \in Players : WorkerConsistent(x)'
  <2> SUFFICES ASSUME NEW x \in Players
               PROVE  /\ ~loaded'[x] => worker'[x] = Idle
                      /\ loaded'[x] => tmpReqQue'[x] = << >>
                      /\ SoundWorker(worker'[x], fails')
    BY DEF WorkerConsistent, SoundWorker, Idle
  <2>1. CASE x = p
    BY <1>3, <2>1
  <2>2. CASE x # p
    <3>1. /\ worker[x] \in WorkerStates(0..sent) /\ fails \in Nat
          /\ ~loaded[x] => worker[x] = Idle
          /\ loaded[x] => tmpReqQue[x] = << >>
          /\ SoundWorker(worker[x], fails)
      BY OfPlayer
    <3>2. SoundWorker(worker[x], fails')
      BY <3>1, SoundLater
    <3> QED
      BY <1>3, <2>2, <3>1, <3>2
  <2> QED
    BY <2>1, <2>2
<1>7. NoPlayerLost'
  BY <1>1, <1>2 DEF NoPlayerLost, Players, Slots
<1>8. LastWordCounts'
  <2> SUFFICES ASSUME NEW x \in Players
               PROVE  LastWord(worker'[x].ws # "none", tmpReqQue'[x] \o requests'[x]) <=> wanted[x]
    BY <1>1, CountsNext
  <2>1. CASE x = p
    BY <1>3, <2>1
  <2>2. CASE x # p
    <3>1. LastWord(worker[x].ws # "none", tmpReqQue[x] \o requests[x]) <=> wanted[x]
      BY OfPlayer
    <3> QED
      BY <1>3, <2>2, <3>1
  <2> QED
    BY <2>1, <2>2
<1> QED
  BY <1>5, <1>6, <1>7, <1>8 DEF PlayersInv, PlayerInv, Players

LEMMA OnmessageKeeps ==
  ASSUME PlayersInv, NEW p \in Players, onmessage(p)
  PROVE  PlayersInv'
<1> DEFINE q == requests[p]
           r == Head(requests[p])
<1>1. /\ UNCHANGED <<slotVars, viewVars, frameBuffer, sent>>
      /\ UNCHANGED <<frames, loaded, fails>>
      /\ q # << >> /\ requests' = [requests EXCEPT ![p] = Tail(q)]
      /\ IF loaded[p]
         THEN worker' = [worker EXCEPT ![p] = processReq(worker[p], r)] /\ tmpReqQue' = tmpReqQue
         ELSE worker' = worker /\ tmpReqQue' = [tmpReqQue EXCEPT ![p] = Append(tmpReqQue[p], r)]
  BY DEF onmessage, frameVars
<1>2. /\ requests \in [Players -> Seq(Requests)] /\ tmpReqQue \in [Players -> Seq(Requests)]
      /\ worker \in [Players -> WorkerStates(0..sent)] /\ loaded \in [Players -> BOOLEAN]
      /\ frames \in [Players -> Seq(1..sent)]
  BY DEF PlayersInv, PlayerInv, TypeOK
<1>3. /\ q \in Seq(Requests) /\ tmpReqQue[p] \in Seq(Requests)
      /\ worker[p] \in WorkerStates(0..sent) /\ fails \in Nat
      /\ ~loaded[p] => worker[p] = Idle
      /\ loaded[p] => tmpReqQue[p] = << >>
      /\ SoundWorker(worker[p], fails)
      /\ LastWord(worker[p].ws # "none", tmpReqQue[p] \o q) <=> wanted[p]
      /\ p <= made
  BY <1>1, OfPlayer
<1>4. r = Head(q) /\ r \in Requests /\ Tail(q) \in Seq(Requests)
  BY <1>1, <1>3, HeadTailProperties
<1> SUFFICES ASSUME NEW rest \in Seq(Requests), NEW head \in Requests, rest = Tail(q), head = r
             PROVE  PlayersInv'
  BY <1>4
<1> HIDE DEF q, r
<1>5. requests' \in [Players -> Seq(Requests)] /\ requests'[p] = rest
  BY <1>1, <1>2
<1>6. \A x \in Players : x # p => requests'[x] = requests[x]
  BY <1>1, <1>2
<1>7. CASE loaded[p]
  <2> SUFFICES ASSUME NEW w, w = processReq(worker[p], head) PROVE PlayersInv'
    OBVIOUS
  <2>1. worker' = [worker EXCEPT ![p] = w] /\ tmpReqQue' = tmpReqQue /\ loaded' = loaded
    BY <1>1, <1>7
  <2>2. /\ w \in WorkerStates(0..sent) /\ SoundWorker(w, fails)
        /\ w.ws # "none" <=> head = "create" \/ (head # "close" /\ worker[p].ws # "none")
    <3> SUFFICES ASSUME NEW old, old = worker[p]
                 PROVE  /\ w \in WorkerStates(0..sent) /\ SoundWorker(w, fails)
                        /\ w.ws # "none" <=> head = "create" \/ (head # "close" /\ old.ws # "none")
      OBVIOUS
    <3>1. /\ old \in WorkerStates(0..sent) /\ SoundWorker(old, fails) /\ fails \in Nat
          /\ w = processReq(old, head)
      BY <1>3
    <3> QED
      BY <3>1, RequestKeeps
  <2>3. LastWord(w.ws # "none", tmpReqQue'[p] \o requests'[p]) <=> wanted[p]
    <3> DEFINE now == worker[p].ws # "none"
               next == w.ws # "none"
    <3>1. tmpReqQue[p] \o q = q /\ tmpReqQue'[p] \o requests'[p] = rest
      <4>1. << >> \o q = q /\ << >> \o rest = rest
        BY <1>3
      <4> QED
        BY <1>3, <1>5, <1>7, <2>1, <4>1
    <3>2. LastWord(now, q) <=> LastWord(head = "create" \/ (head # "close" /\ now), rest)
      <4>1. now \in BOOLEAN
        OBVIOUS
      <4> HIDE DEF now
      <4> QED
        BY <1>1, <1>3, <1>4, <4>1, LastWordOfTail
    <3>3. next = (head = "create" \/ (head # "close" /\ now))
      BY <2>2
    <3> HIDE DEF now, next
    <3>4. LastWord(now, q) <=> LastWord(next, rest)
      BY <3>2, <3>3
    <3> QED
      BY <1>3, <3>1, <3>4 DEF now, next
  <2>4. /\ tmpReqQue' \in [Players -> Seq(Requests)] /\ tmpReqQue'[p] = << >>
        /\ loaded' \in [Players -> BOOLEAN] /\ loaded'[p]
        /\ frames' \in [Players -> Seq(1..sent)]
        /\ fails' \in Nat /\ fails <= fails' /\ SoundWorker(w, fails')
    BY <1>1, <1>2, <1>3, <1>7, <2>1, <2>2
  <2>5. \A x \in Players : x # p => /\ requests'[x] = requests[x]
                                    /\ tmpReqQue'[x] = tmpReqQue[x]
                                    /\ loaded'[x] = loaded[x]
    BY <1>6, <2>1
  <2>6. worker' = [worker EXCEPT ![p] = w] /\ w \in WorkerStates(0..sent)
    BY <2>1, <2>2
  <2> QED
    BY <1>1, <1>3, <1>5, <2>3, <2>4, <2>5, <2>6, WorkerKeeps
<1>8. CASE ~loaded[p]
  <2>1. /\ tmpReqQue' = [tmpReqQue EXCEPT ![p] = Append(tmpReqQue[p], head)]
        /\ Append(tmpReqQue[p], head) \in Seq(Requests)
    BY <1>1, <1>3, <1>8
  <2>2. /\ tmpReqQue' \in [Players -> Seq(Requests)]
        /\ tmpReqQue'[p] = Append(tmpReqQue[p], head)
        /\ \A x \in Players : x # p => tmpReqQue'[x] = tmpReqQue[x]
    BY <1>2, <2>1
  <2>3. worker' = [worker EXCEPT ![p] = worker[p]] /\ loaded' = loaded
    BY <1>1, <1>2, <1>8
  <2>4. tmpReqQue'[p] \o requests'[p] = tmpReqQue[p] \o q
    <3>1. Append(tmpReqQue[p], Head(q)) \o Tail(q) = tmpReqQue[p] \o q
      BY <1>1, <1>3, KeptInPlace
    <3>2. tmpReqQue'[p] = Append(tmpReqQue[p], Head(q)) /\ requests'[p] = Tail(q)
      BY <1>4, <1>5, <2>2
    <3> QED
      BY <3>1, <3>2
  <2>5. /\ loaded' \in [Players -> BOOLEAN] /\ ~loaded'[p] /\ worker[p] = Idle
        /\ frames' \in [Players -> Seq(1..sent)]
        /\ fails' \in Nat /\ fails <= fails' /\ SoundWorker(worker[p], fails')
    BY <1>1, <1>2, <1>3, <1>8, <2>3
  <2>6. \A x \in Players : x # p => /\ requests'[x] = requests[x]
                                    /\ tmpReqQue'[x] = tmpReqQue[x]
                                    /\ loaded'[x] = loaded[x]
    BY <1>6, <2>2, <2>3
  <2>7. LastWord(worker[p].ws # "none", tmpReqQue'[p] \o requests'[p]) <=> wanted[p]
    BY <1>3, <2>4
  <2> SUFFICES ASSUME NEW w, w = worker[p] PROVE PlayersInv'
    OBVIOUS
  <2>8. worker' = [worker EXCEPT ![p] = w] /\ w \in WorkerStates(0..sent)
    BY <1>3, <2>3
  <2> QED
    BY <1>1, <1>3, <1>5, <2>2, <2>5, <2>6, <2>7, <2>8, WorkerKeeps
<1> QED
  BY <1>7, <1>8

LEMMA OnWasmLoadedKeeps ==
  ASSUME PlayersInv, NEW p \in Players, onWasmLoaded(p)
  PROVE  PlayersInv'
<1> DEFINE kept == tmpReqQue[p]
           q == requests[p]
<1>1. /\ UNCHANGED <<slotVars, viewVars, frameBuffer, sent>>
      /\ UNCHANGED <<frames, requests, fails>>
      /\ p <= made /\ ~loaded[p]
      /\ loaded' = [loaded EXCEPT ![p] = TRUE]
      /\ worker' = [worker EXCEPT ![p] = Drained(worker[p], kept)]
      /\ tmpReqQue' = [tmpReqQue EXCEPT ![p] = << >>]
  BY DEF onWasmLoaded, frameVars
<1>2. /\ requests \in [Players -> Seq(Requests)] /\ tmpReqQue \in [Players -> Seq(Requests)]
      /\ worker \in [Players -> WorkerStates(0..sent)] /\ loaded \in [Players -> BOOLEAN]
      /\ frames \in [Players -> Seq(1..sent)]
  BY DEF PlayersInv, PlayerInv, TypeOK
<1>3. /\ q \in Seq(Requests) /\ kept \in Seq(Requests) /\ fails \in Nat
      /\ worker[p] = Idle
      /\ LastWord(worker[p].ws # "none", kept \o q) <=> wanted[p]
  BY <1>1, OfPlayer
<1> SUFFICES ASSUME NEW w, w = Drained(Idle, kept) PROVE PlayersInv'
  OBVIOUS
<1>4. worker' = [worker EXCEPT ![p] = w]
  BY <1>1, <1>3
<1>5. w \in {Idle, Connecting} /\ (w.ws # "none" <=> LastWord(FALSE, kept))
  BY <1>3, DrainedFollows
<1>6. w \in WorkerStates(0..sent) /\ SoundWorker(w, fails)
  BY <1>3, <1>5, IdleFacts
<1>7. /\ tmpReqQue' \in [Players -> Seq(Requests)] /\ tmpReqQue'[p] = << >>
      /\ loaded' \in [Players -> BOOLEAN] /\ loaded'[p]
      /\ \A x \in Players : x # p => tmpReqQue'[x] = tmpReqQue[x] /\ loaded'[x] = loaded[x]
  <2>1. << >> \in Seq(Requests)
    OBVIOUS
  <2> QED
    BY <1>1, <1>2, <2>1
<1>8. LastWord(w.ws # "none", tmpReqQue'[p] \o requests'[p]) <=> wanted[p]
  <2> DEFINE next == w.ws # "none"
  <2>1. tmpReqQue'[p] \o requests'[p] = q
    BY <1>1, <1>3, <1>7
  <2>2. (worker[p].ws # "none") = FALSE
    BY <1>3, IdleFacts
  <2>3. LastWord(FALSE, kept \o q) <=> wanted[p]
    BY <1>3, <2>2
  <2>4. LastWord(FALSE, kept \o q) <=> LastWord(LastWord(FALSE, kept), q)
    BY <1>3, LastWordOfBoth
  <2>5. next = LastWord(FALSE, kept)
    BY <1>5, LastWordType
  <2> HIDE DEF next
  <2>6. LastWord(next, q) <=> wanted[p]
    BY <2>3, <2>4, <2>5
  <2> QED
    BY <2>1, <2>6 DEF next
<1>9. /\ requests' \in [Players -> Seq(Requests)] /\ frames' \in [Players -> Seq(1..sent)]
      /\ fails' \in Nat /\ fails <= fails' /\ SoundWorker(w, fails')
  BY <1>1, <1>2, <1>3, <1>6
<1>10. \A x \in Players : x # p => /\ requests'[x] = requests[x]
                                   /\ tmpReqQue'[x] = tmpReqQue[x]
                                   /\ loaded'[x] = loaded[x]
  BY <1>1, <1>7
<1> QED
  BY <1>1, <1>4, <1>6, <1>7, <1>8, <1>9, <1>10, WorkerKeeps

\* A step of the socket of p: the worker has a socket before and afterwards.
LEMMA SocketKeeps ==
  ASSUME PlayersInv, NEW p \in Players, NEW w \in WorkerStates(0..sent),
         worker[p].ws # "none", w.ws # "none",
         worker' = [worker EXCEPT ![p] = w],
         UNCHANGED <<slotVars, viewVars, frameBuffer, sent, requests, loaded, tmpReqQue>>,
         frames' \in [Players -> Seq(1..sent)],
         fails' \in Nat, fails <= fails', SoundWorker(w, fails')
  PROVE  PlayersInv'
<1>1. /\ requests' \in [Players -> Seq(Requests)] /\ tmpReqQue' \in [Players -> Seq(Requests)]
      /\ loaded' \in [Players -> BOOLEAN]
  BY DEF PlayersInv, PlayerInv, TypeOK
<1>2. worker[p] # Idle
  BY IdleFacts
<1>3. /\ ~loaded[p] => worker[p] = Idle
      /\ loaded[p] => tmpReqQue[p] = << >>
      /\ LastWord(worker[p].ws # "none", tmpReqQue[p] \o requests[p]) <=> wanted[p]
      /\ p <= made
  BY <1>2, OfPlayer
<1>4. LastWord(w.ws # "none", tmpReqQue'[p] \o requests'[p]) <=> wanted[p]
  <2>1. (w.ws # "none") = TRUE /\ (worker[p].ws # "none") = TRUE
    OBVIOUS
  <2>2. LastWord(TRUE, tmpReqQue[p] \o requests[p]) <=> wanted[p]
    BY <1>3, <2>1
  <2> QED
    BY <2>1, <2>2
<1>5. /\ ~loaded'[p] => w = Idle
      /\ loaded'[p] => tmpReqQue'[p] = << >>
      /\ \A x \in Players : x # p => /\ requests'[x] = requests[x]
                                     /\ tmpReqQue'[x] = tmpReqQue[x]
                                     /\ loaded'[x] = loaded[x]
  BY <1>2, <1>3
<1> QED
  BY <1>1, <1>3, <1>4, <1>5, WorkerKeeps

\* What a worker looks like that differs from w in its socket only.
LEMMA WorkerOf ==
  ASSUME NEW packets, NEW w \in WorkerStates(packets)
  PROVE  /\ w.ws \in {"none", "connecting", "open", "lost"} /\ w.hDec \in BOOLEAN
         /\ w.cacheBuffer \in BOOLEAN /\ w.buffers \in Nat /\ w.asked \in Nat
         /\ w.wire \in Seq(packets)
BY DEF WorkerStates

LEMMA SocketKept ==
  ASSUME PlayersInv, NEW p \in Players,
         onopen(p) \/ SocketLost(p) \/ Answer(p)
  PROVE  PlayersInv'
<1> SUFFICES ASSUME NEW old, old = worker[p] PROVE PlayersInv'
  OBVIOUS
<1>1. /\ UNCHANGED <<slotVars, viewVars, frameBuffer, frames, sent, requests, loaded, tmpReqQue>>
      /\ frames' \in [Players -> Seq(1..sent)]
  BY DEF onopen, SocketLost, Answer, frameVars, PlayersInv, PlayerInv, TypeOK
<1>2. /\ old \in WorkerStates(0..sent) /\ fails \in Nat /\ SoundWorker(old, fails)
  BY OfPlayer
<1>3. /\ old.ws \in {"none", "connecting", "open", "lost"} /\ old.hDec \in BOOLEAN
      /\ old.cacheBuffer \in BOOLEAN /\ old.buffers \in Nat /\ old.asked \in Nat
      /\ old.wire \in Seq(0..sent)
  BY <1>2, WorkerOf
<1>4. CASE onopen(p)
  <2> DEFINE w == [old EXCEPT !.ws = "open", !.asked = 1]
  <2>1. worker' = [worker EXCEPT ![p] = w] /\ old.ws = "connecting" /\ fails' = fails
    BY <1>4 DEF onopen
  <2>2. w \in WorkerStates(0..sent) /\ w.ws = "open"
    BY <1>2 DEF WorkerStates
  <2>3. SoundWorker(w, fails)
    BY <1>2, <1>3, <2>1 DEF SoundWorker, WorkerStates
  <2>4. fails' \in Nat /\ fails <= fails' /\ SoundWorker(w, fails')
    BY <1>2, <2>1, <2>3
  <2> HIDE DEF w
  <2> QED
    BY <1>1, <2>1, <2>2, <2>4, SocketKeeps
<1>5. CASE SocketLost(p)
  <2> DEFINE w == [old EXCEPT !.ws = "lost", !.asked = 0, !.wire = << >>]
  <2>1. worker' = [worker EXCEPT ![p] = w] /\ old.ws # "none" /\ fails' = fails + 1
    BY <1>5 DEF SocketLost
  <2>2. w \in WorkerStates(0..sent) /\ w.ws = "lost"
    <3>1. << >> \in Seq(0..sent)
      OBVIOUS
    <3> QED
      BY <1>2, <3>1 DEF WorkerStates
  <2>3. SoundWorker(w, fails + 1)
    BY <1>2, <1>3, <2>1 DEF SoundWorker, WorkerStates
  <2> HIDE DEF w
  <2>4. fails' \in Nat /\ fails <= fails' /\ SoundWorker(w, fails')
    BY <1>2, <2>1, <2>3
  <2> QED
    BY <1>1, <1>2, <2>1, <2>2, <2>4, SocketKeeps
<1>6. CASE Answer(p)
  <2> DEFINE w == [old EXCEPT !.asked = old.asked - 1, !.wire = Append(old.wire, Header)]
  <2>1. worker' = [worker EXCEPT ![p] = w] /\ old.asked > 0 /\ fails' = fails
    BY <1>6 DEF Answer
  <2>2. old.ws = "open"
    BY <1>2, <1>3, <2>1 DEF SoundWorker
  <2>3. Append(old.wire, Header) \in Seq(0..sent)
    <3>1. Header \in 0..sent
      BY OfPlayer DEF Header
    <3> QED
      BY <1>3, <3>1, AppendProperties
  <2>4. old.asked - 1 \in Nat
    BY <1>3, <2>1
  <2>5. w \in WorkerStates(0..sent) /\ w.ws = "open"
    BY <1>2, <2>2, <2>3, <2>4 DEF WorkerStates
  <2>6. SoundWorker(w, fails)
    BY <1>2, <1>3, <2>2 DEF SoundWorker, WorkerStates
  <2>7. fails' \in Nat /\ fails <= fails' /\ SoundWorker(w, fails')
    BY <1>2, <2>1, <2>6
  <2> HIDE DEF w
  <2> QED
    BY <1>1, <2>1, <2>2, <2>5, <2>7, SocketKeeps
<1> QED
  BY <1>4, <1>5, <1>6

LEMMA OnWsMsgKeeps ==
  ASSUME PlayersInv, NEW p \in Players, NEW created \in BOOLEAN, NEW decoded \in BOOLEAN,
         onWsMsg(p, created, decoded)
  PROVE  PlayersInv'
<1> SUFFICES ASSUME NEW old, old = worker[p] PROVE PlayersInv'
  OBVIOUS
<1>1. /\ UNCHANGED <<slotVars, viewVars, frameBuffer, sent, requests, loaded, tmpReqQue>>
      /\ old.wire # << >>
  BY DEF onWsMsg
<1>2. /\ old \in WorkerStates(0..sent) /\ fails \in Nat /\ sent \in Nat /\ SoundWorker(old, fails)
      /\ frames \in [Players -> Seq(1..sent)]
  BY OfPlayer DEF PlayersInv, PlayerInv, TypeOK
<1>3. /\ old.ws \in {"none", "connecting", "open", "lost"} /\ old.hDec \in BOOLEAN
      /\ old.cacheBuffer \in BOOLEAN /\ old.buffers \in Nat /\ old.asked \in Nat
      /\ old.wire \in Seq(0..sent)
  BY <1>2, WorkerOf
<1>4. old.ws = "open"
  BY <1>1, <1>2, <1>3 DEF SoundWorker
<1>5. Tail(old.wire) \in Seq(0..sent) /\ Head(old.wire) \in 0..sent
  BY <1>1, <1>3, HeadTailProperties
<1> DEFINE taken == [old EXCEPT !.wire = Tail(old.wire)]
<1>6. taken \in WorkerStates(0..sent) /\ taken.ws = "open" /\ SoundWorker(taken, fails)
  <2>1. taken \in WorkerStates(0..sent) /\ taken.ws = "open"
    BY <1>2, <1>4, <1>5 DEF WorkerStates
  <2>2. SoundWorker(taken, fails)
    BY <1>2, <1>3, <1>4 DEF SoundWorker, WorkerStates
  <2> QED
    BY <2>1, <2>2
<1>7. CASE old.hDec
  <2>1. /\ worker' = [worker EXCEPT ![p] = taken] /\ fails' = fails
        /\ frames' = IF decoded /\ Head(old.wire) # Header
                     THEN [frames EXCEPT ![p] = Append(frames[p], Head(old.wire))] ELSE frames
    BY <1>7 DEF onWsMsg
  <2>2. frames' \in [Players -> Seq(1..sent)]
    <3>1. CASE decoded /\ Head(old.wire) # Header
      <4>1. Head(old.wire) \in 1..sent /\ frames[p] \in Seq(1..sent)
        BY <1>2, <1>5, <3>1 DEF Header
      <4>2. Append(frames[p], Head(old.wire)) \in Seq(1..sent)
        BY <4>1, AppendProperties
      <4>3. frames' = [frames EXCEPT ![p] = Append(frames[p], Head(old.wire))]
        BY <2>1, <3>1
      <4> QED
        BY <1>2, <4>2, <4>3
    <3>2. CASE ~ (decoded /\ Head(old.wire) # Header)
      BY <1>2, <2>1, <3>2
    <3> QED
      BY <3>1, <3>2
  <2>3. fails' \in Nat /\ fails <= fails' /\ SoundWorker(taken, fails')
    BY <1>2, <1>6, <2>1
  <2> HIDE DEF taken
  <2> QED
    BY <1>1, <1>4, <1>6, <2>1, <2>2, <2>3, SocketKeeps
<1>8. CASE ~old.hDec /\ Head(old.wire) = Header
  <2> DEFINE w == [old EXCEPT !.wire = Tail(old.wire), !.hDec = created,
                              !.cacheBuffer = TRUE, !.buffers = old.buffers + 1]
  <2>1. /\ worker' = [worker EXCEPT ![p] = w] /\ frames' = frames
        /\ fails' = IF created THEN fails ELSE fails + 1
    BY <1>8 DEF onWsMsg
  <2>2. w \in WorkerStates(0..sent) /\ w.ws = "open"
    <3>1. old.buffers + 1 \in Nat
      BY <1>3
    <3> QED
      BY <1>2, <1>4, <1>5, <3>1 DEF WorkerStates
  <2>3. /\ w.ws = "open" /\ w.hDec = created /\ w.cacheBuffer = TRUE
        /\ w.buffers = old.buffers + 1 /\ old.buffers <= fails
    BY <1>2, <1>4, <1>8 DEF SoundWorker, WorkerStates
  <2>4. fails' \in Nat /\ fails <= fails' /\ old.buffers + 1 <= fails' + (IF created THEN 1 ELSE 0)
    BY <1>2, <1>3, <2>1, <2>3
  <2> HIDE DEF w
  <2>5. SoundWorker(w, fails')
    BY <1>3, <2>3, <2>4 DEF SoundWorker
  <2>6. frames' \in [Players -> Seq(1..sent)]
    BY <1>2, <2>1
  <2> QED
    BY <1>1, <1>4, <2>1, <2>2, <2>4, <2>5, <2>6, SocketKeeps
<1>9. CASE ~old.hDec /\ Head(old.wire) # Header
  <2>1. worker' = [worker EXCEPT ![p] = taken] /\ fails' = fails /\ frames' = frames
    BY <1>9 DEF onWsMsg
  <2>2. /\ fails' \in Nat /\ fails <= fails' /\ SoundWorker(taken, fails')
        /\ frames' \in [Players -> Seq(1..sent)]
    BY <1>2, <1>6, <2>1
  <2> HIDE DEF taken
  <2> QED
    BY <1>1, <1>4, <1>6, <2>1, <2>2, SocketKeeps
<1> QED
  BY <1>7, <1>8, <1>9

LEMMA SeqOfMore ==
  ASSUME NEW S, NEW T, S \subseteq T, NEW q \in Seq(S)
  PROVE  q \in Seq(T)
OBVIOUS

LEMMA WorkerOfMore ==
  ASSUME NEW S, NEW T, S \subseteq T, NEW w \in WorkerStates(S)
  PROVE  w \in WorkerStates(T)
<1>1. w.wire \in Seq(T)
  BY WorkerOf, SeqOfMore
<1> QED
  BY <1>1 DEF WorkerStates

LEMMA BroadcastKeeps ==
  ASSUME PlayersInv, Broadcast
  PROVE  PlayersInv'
<1> DEFINE now == 0..sent + 1
<1>1. /\ UNCHANGED <<slot, made, playing, looping, decWork, listeners, wanted, plays>>
      /\ UNCHANGED <<visible, toggles, max, frameBuffer, frames, requests, loaded, tmpReqQue, fails>>
      /\ sent' = sent + 1
  BY DEF Broadcast, slotVars, viewVars, frameVars
<1>2. TypeOK /\ NoPlayerLost /\ LastWordCounts /\ sent \in Nat
  BY DEF PlayersInv, PlayerInv, TypeOK
<1>3. 0..sent \subseteq now /\ 1..sent \subseteq 1..sent + 1 /\ sent + 1 \in now
  BY <1>2
<1>4. ASSUME NEW p \in Players
      PROVE  /\ worker'[p] \in WorkerStates(now) /\ SoundWorker(worker'[p], fails)
             /\ worker'[p].ws = worker[p].ws
             /\ worker[p] = Idle => worker'[p] = Idle
  <2> SUFFICES ASSUME NEW old, old = worker[p], NEW new, new = worker'[p]
               PROVE  /\ new \in WorkerStates(now) /\ SoundWorker(new, fails)
                      /\ new.ws = old.ws /\ (old = Idle => new = Idle)
    OBVIOUS
  <2>1. old \in WorkerStates(0..sent) /\ SoundWorker(old, fails)
    BY OfPlayer
  <2>2. new = IF old.ws = "open" THEN [old EXCEPT !.wire = Append(old.wire, sent + 1)] ELSE old
    BY DEF Broadcast
  <2> HIDE DEF now
  <2>3. old \in WorkerStates(now) /\ old.wire \in Seq(now)
    BY <1>3, <2>1, WorkerOfMore, WorkerOf
  <2>4. CASE old.ws = "open"
    <3>1. Append(old.wire, sent + 1) \in Seq(now)
      BY <1>3, <2>3, AppendProperties
    <3>2. new = [old EXCEPT !.wire = Append(old.wire, sent + 1)]
      BY <2>2, <2>4
    <3>3. new \in WorkerStates(now) /\ new.ws = "open"
      BY <2>3, <2>4, <3>1, <3>2 DEF WorkerStates
    <3>4. SoundWorker(new, fails)
      BY <2>1, <2>3, <2>4, <3>2 DEF SoundWorker, WorkerStates
    <3> QED
      BY <2>4, <3>3, <3>4, IdleFacts
  <2>5. CASE old.ws # "open"
    BY <2>1, <2>2, <2>3, <2>5
  <2> QED
    BY <2>4, <2>5
<1>5. worker' \in [Players -> WorkerStates(now)]
  <2>1. worker' = [p \in Players |-> worker'[p]]
    BY DEF Broadcast
  <2> HIDE DEF now
  <2> QED
    BY <1>4, <2>1
<1>6. frameBuffer' \in [Players -> Seq(1..sent + 1)] /\ frames' \in [Players -> Seq(1..sent + 1)]
  <2>1. frameBuffer \in [Players -> Seq(1..sent)] /\ frames \in [Players -> Seq(1..sent)]
    BY <1>2 DEF TypeOK
  <2>2. ASSUME NEW q \in Seq(1..sent) PROVE q \in Seq(1..sent + 1)
    BY <1>3, SeqOfMore
  <2> QED
    BY <1>1, <2>1, <2>2
<1>7. TypeOK'
  <2>1. /\ slot' \in [Slots -> 0..made'] /\ made' \in 0..MaxPlayers
        /\ decWork' \in 0..made' /\ listeners' \in 0..plays' /\ max' \in Budgets
        /\ visible' \in BOOLEAN /\ plays' \in Nat /\ toggles' \in Nat /\ sent' \in Nat
        /\ fails' \in Nat
    BY <1>1, <1>2 DEF TypeOK
  <2>2. /\ playing' \in [Players -> BOOLEAN] /\ looping' \in [Players -> BOOLEAN]
        /\ wanted' \in [Players -> BOOLEAN] /\ loaded' \in [Players -> BOOLEAN]
        /\ requests' \in [Players -> Seq(Requests)] /\ tmpReqQue' \in [Players -> Seq(Requests)]
    BY <1>1, <1>2 DEF TypeOK
  <2>3. /\ frameBuffer' \in [Players -> Seq(1..sent')] /\ frames' \in [Players -> Seq(1..sent')]
        /\ worker' \in [Players -> WorkerStates(0..sent')]
    BY <1>1, <1>5, <1>6
  <2>4. \A p \in Players : p > made' => requests'[p] = << >> /\ worker'[p] = Idle /\ ~playing'[p]
    BY <1>1, <1>2, <1>4 DEF TypeOK
  <2> QED
    BY <2>1, <2>2, <2>3, <2>4 DEF TypeOK, Players, Slots, Requests, WorkerStates, Idle
<1>8. \A p \in Players : WorkerConsistent(p)'
  <2> SUFFICES ASSUME NEW p \in Players
               PROVE  /\ ~loaded'[p] => worker'[p] = Idle
                      /\ loaded'[p] => tmpReqQue'[p] = << >>
                      /\ SoundWorker(worker'[p], fails')
    BY DEF WorkerConsistent, SoundWorker, Idle
  <2>1. (~loaded[p] => worker[p] = Idle) /\ (loaded[p] => tmpReqQue[p] = << >>)
    BY OfPlayer
  <2> QED
    BY <1>1, <1>4, <2>1
<1>9. NoPlayerLost'
  BY <1>1, <1>2 DEF NoPlayerLost, Players, Slots
<1>10. LastWordCounts'
  <2> SUFFICES ASSUME NEW p \in Players
               PROVE  LastWord(worker'[p].ws # "none", tmpReqQue[p] \o requests[p]) <=> wanted[p]
    BY <1>1, CountsNext
  <2>1. LastWord(worker[p].ws # "none", tmpReqQue[p] \o requests[p]) <=> wanted[p]
    BY OfPlayer
  <2> QED
    BY <1>4, <2>1
<1> QED
  BY <1>7, <1>8, <1>9, <1>10 DEF PlayersInv, PlayerInv, Players

-----------------------------------------------------------------------------
(* The invariant of the players, and what follows from it.                 *)

LEMMA PlayersInit ==
  Init => PlayersInv
<1> SUFFICES ASSUME Init PROVE PlayersInv
  OBVIOUS
<1> USE DEF Init
<1>1. << >> \in Seq(Requests) /\ << >> \in Seq(1..sent) /\ Idle \in WorkerStates(0..sent)
  BY IdleFacts
<1>2. TypeOK
  <2>1. /\ slot \in [Slots -> 0..made] /\ made \in 0..MaxPlayers
        /\ decWork \in 0..made /\ listeners \in 0..plays /\ max \in Budgets
        /\ visible \in BOOLEAN /\ plays \in Nat /\ toggles \in Nat /\ sent \in Nat
        /\ fails \in Nat
    BY BudgetAssumption
  <2>2. /\ playing \in [Players -> BOOLEAN] /\ looping \in [Players -> BOOLEAN]
        /\ wanted \in [Players -> BOOLEAN] /\ loaded \in [Players -> BOOLEAN]
        /\ requests \in [Players -> Seq(Requests)] /\ tmpReqQue \in [Players -> Seq(Requests)]
        /\ frameBuffer \in [Players -> Seq(1..sent)] /\ frames \in [Players -> Seq(1..sent)]
        /\ worker \in [Players -> WorkerStates(0..sent)]
        /\ \A p \in Players : requests[p] = << >> /\ worker[p] = Idle /\ ~playing[p]
    BY <1>1
  <2> QED
    BY <2>1, <2>2 DEF TypeOK
<1>3. \A p \in Players : WorkerConsistent(p)
  BY IdleFacts, ConsistentParts
<1>4. NoPlayerLost
  BY DEF NoPlayerLost
<1>5. LastWordCounts
  <2> SUFFICES ASSUME NEW p \in Players
               PROVE  ~LastWord(worker[p].ws # "none", tmpReqQue[p] \o requests[p])
    BY DEF LastWordCounts
  <2>1. tmpReqQue[p] \o requests[p] = << >> /\ (worker[p].ws # "none") = FALSE
    BY IdleFacts
  <2>2. ~LastWord(FALSE, << >>)
    BY DEF LastWord
  <2> QED
    BY <2>1, <2>2
<1> QED
  BY <1>2, <1>3, <1>4, <1>5 DEF PlayersInv, PlayerInv

LEMMA PlayersStep ==
  PlayersInv /\ [Next]_vars => PlayersInv'
<1> SUFFICES ASSUME PlayersInv, [Next]_vars PROVE PlayersInv'
  OBVIOUS
<1>1. CASE Page
  <2>1. ASSUME NEW s \in PanelSlots, NEW url \in BOOLEAN, ExecuteCanvas(s, url) PROVE PlayersInv'
    BY <2>1, ExecuteCanvasKeeps
  <2>2. ASSUME NEW s \in MainSlots,
               playVideo(s) \/ \E canvas \in BOOLEAN : camera_player_play(s, canvas)
        PROVE  PlayersInv'
    BY <2>2, MainPlayersKeep
  <2>3. ASSUME NEW s \in MainSlots, stopVideo(s) PROVE PlayersInv'
    BY <2>3, StopVideoKeeps
  <2>4. ASSUME onchange PROVE PlayersInv'
    BY <2>4, OnchangeKeeps
  <2>5. ASSUME NEW p \in Players, onFrame(p) \/ displayLoop(p) PROVE PlayersInv'
    BY <2>5, FramesKeep
  <2> QED
    BY <1>1, <2>1, <2>2, <2>3, <2>4, <2>5 DEF Page
<1>2. CASE Broadcast
  BY <1>2, BroadcastKeeps
<1>3. CASE \E p \in Players : Worker(p) \/ SocketLost(p) \/ Answer(p)
  <2> PICK p \in Players : Worker(p) \/ SocketLost(p) \/ Answer(p)
    BY <1>3
  <2>1. CASE onmessage(p)
    BY <2>1, OnmessageKeeps
  <2>2. CASE onWasmLoaded(p)
    BY <2>2, OnWasmLoadedKeeps
  <2>3. CASE onopen(p) \/ SocketLost(p) \/ Answer(p)
    BY <2>3, SocketKept
  <2>4. ASSUME NEW created \in BOOLEAN, NEW decoded \in BOOLEAN, onWsMsg(p, created, decoded)
        PROVE  PlayersInv'
    BY <2>4, OnWsMsgKeeps
  <2> QED
    BY <2>1, <2>2, <2>3, <2>4 DEF Worker
<1>4. CASE UNCHANGED vars
  <2>1. /\ UNCHANGED <<slotVars, viewVars, frameVars, requests, workVars, sent, fails>>
        /\ UNCHANGED <<slot, made, playing, looping, decWork, listeners, wanted, plays>>
        /\ UNCHANGED <<visible, toggles, max, frameBuffer, frames, loaded, tmpReqQue, worker>>
    BY <1>4 DEF vars, slotVars, viewVars, frameVars, workVars
  <2>2. TypeOK /\ NoPlayerLost /\ LastWordCounts
    BY DEF PlayersInv, PlayerInv
  <2>3. /\ made' \in made..MaxPlayers /\ slot' \in [Slots -> 0..made'] /\ visible' \in BOOLEAN
        /\ decWork' \in 0..made' /\ plays' \in Nat /\ toggles' \in Nat /\ listeners' \in 0..plays'
        /\ frameBuffer' \in [Players -> Seq(1..sent)] /\ frames' \in [Players -> Seq(1..sent)]
    BY <2>1, <2>2, BudgetAssumption DEF TypeOK
  <2>4. /\ playing' \in [Players -> BOOLEAN] /\ looping' \in [Players -> BOOLEAN]
        /\ wanted' \in [Players -> BOOLEAN] /\ requests' \in [Players -> Seq(Requests)]
        /\ \A p \in Players : p > made' => requests'[p] = << >> /\ ~playing'[p]
    BY <2>1, <2>2 DEF TypeOK
  <2>5. NoPlayerLost'
    BY <2>1, <2>2 DEF NoPlayerLost, Players, Slots
  <2>6. LastWordCounts'
    BY <2>1, <2>2, CountsNext DEF LastWordCounts
  <2> QED
    BY <2>1, <2>3, <2>4, <2>5, <2>6, PageKeeps
<1> QED
  BY <1>1, <1>2, <1>3, <1>4 DEF Next

\* What DecoderEquipped says follows from the types and the parts of the workers.
LEMMA EquippedWhenConsistent ==
  PlayerInv => DecoderEquipped
<1> SUFFICES ASSUME PlayerInv, NEW p \in Players
             PROVE  LET w == worker[p]
                    IN  /\ w.hDec => w.ws # "none" /\ w.cacheBuffer /\ loaded[p]
                        /\ w.buffers <= (IF w.cacheBuffer THEN 1 ELSE 0) + fails
  BY DEF DecoderEquipped
<1>1. /\ worker[p] \in WorkerStates(0..sent) /\ loaded[p] \in BOOLEAN /\ fails \in Nat
      /\ WorkerConsistent(p)
  BY DEF PlayerInv, TypeOK
<1>2. ~Idle.hDec
  BY DEF Idle
<1> QED
  BY <1>1, <1>2 DEF WorkerConsistent, WorkerStates

\* The players' variables keep their types and the parts of every worker go
\* together, no playing player is lost, and the worker will do the page's last
\* word, whatever the order of requests, late code, answers and failures.
THEOREM PlayersInvariant == Spec => []PlayersInv
<1> QED
  BY PlayersInit, PlayersStep, PTL DEF Spec

\* Types, and the parts of each worker, in every reachable state.
THEOREM PlayersAreConsistent == Spec => []PlayerInv
<1>1. PlayersInv => PlayerInv
  BY DEF PlayersInv
<1> QED
  BY <1>1, PlayersInvariant, PTL

\* No player goes on playing that no variable of the page refers to.
THEOREM NoPlayerIsEverLost == Spec => []NoPlayerLost
<1>1. PlayersInv => NoPlayerLost
  BY DEF PlayersInv
<1> QED
  BY <1>1, PlayersInvariant, PTL

\* The worker will have a socket exactly when the page's last word was to play.
THEOREM LastWordAlwaysCounts == Spec => []LastWordCounts
<1>1. PlayersInv => LastWordCounts
  BY DEF PlayersInv
<1> QED
  BY <1>1, PlayersInvariant, PTL

\* A decoder has a socket and a buffer, and no buffer is lost but by a failure.
THEOREM DecodersAreEquipped == Spec => []DecoderEquipped
<1> QED
  BY EquippedWhenConsistent, PlayersAreConsistent, PTL

=============================================================================
