-------------------------- MODULE ConnectionProofs --------------------------
(***************************************************************************)
(* Proofs about the parts of the server that keep connections: the         *)
(* websocket server, with every number of sessions and every budget; the   *)
(* write pump of one of its sessions, with every number of messages; and   *)
(* the client of the video management server, with every set of channels   *)
(* and any number of starts.  The three share no state, and have names of  *)
(* their own so that one module may speak of all.                          *)
(***************************************************************************)
EXTENDS WsServer, WsSession, VmsDevice, SequenceTheorems, FiniteSetTheorems, TLAPS

-----------------------------------------------------------------------------
(* What a message does to the table that the main loop will have.          *)

\* The kinds of messages differ, and each names its session.
LEMMA MessageFacts ==
  /\ \A s, t : Connect(s) # Disconnect(t) /\ Data(s) # Disconnect(t) /\ Connect(s) # Data(t)
  /\ \A s, t : Connect(s) = Connect(t) => s = t
  /\ \A s, t : Disconnect(s) = Disconnect(t) => s = t
  /\ \A s : Connect(s).id = s /\ Disconnect(s).id = s /\ Data(s).id = s
  /\ \A s : Connect(s).kind = "connect" /\ Disconnect(s).kind = "disconnect"
            /\ Data(s).kind = "data"
  /\ \A m \in Messages : m \in {Connect(m.id), Disconnect(m.id), Data(m.id)}
  /\ \A s \in Given : {Connect(s), Disconnect(s), Data(s)} \subseteq Messages
  /\ Disconnect(0) \in Messages
<1>1. \A s, t : Connect(s) # Disconnect(t) /\ Data(s) # Disconnect(t) /\ Connect(s) # Data(t)
  BY DEF Connect, Disconnect, Data
<1>2. /\ \A s, t : Connect(s) = Connect(t) => s = t
      /\ \A s, t : Disconnect(s) = Disconnect(t) => s = t
  BY DEF Connect, Disconnect
<1>3. /\ \A s : Connect(s).id = s /\ Disconnect(s).id = s /\ Data(s).id = s
      /\ \A s : Connect(s).kind = "connect" /\ Disconnect(s).kind = "disconnect"
                /\ Data(s).kind = "data"
  BY DEF Connect, Disconnect, Data
<1>4. \A m \in Messages : m \in {Connect(m.id), Disconnect(m.id), Data(m.id)}
  BY DEF Messages, Connect, Disconnect, Data
<1>5. /\ \A s \in Given : {Connect(s), Disconnect(s), Data(s)} \subseteq Messages
      /\ Disconnect(0) \in Messages
  BY DEF Messages, Connect, Disconnect, Data, Given
<1> QED
  BY <1>1, <1>2, <1>3, <1>4, <1>5

\* A message that is appended leaves what those before it make of the table.
LEMMA TableBeforeAppended ==
  ASSUME NEW q, NEW r, NEW known, Len(q) \in Nat, \A k \in 1 .. Len(q) : r[k] = q[k]
  PROVE  \A n \in 0 .. Len(q) : TableAfter(known, r, n) = TableAfter(known, q, n)
BY DEF TableAfter

\* It adds, removes or leaves its session.
LEMMA TableOfConnect ==
  ASSUME NEW q, NEW r, NEW known, NEW s \in Ids, NEW n \in Nat,
         r[n + 1] = Connect(s), \A k \in 1 .. n : r[k] = q[k]
  PROVE  TableAfter(known, r, n + 1) = TableAfter(known, q, n) \cup {s}
BY MessageFacts DEF TableAfter

LEMMA TableOfDisconnect ==
  ASSUME NEW q, NEW r, NEW known, NEW s, NEW n \in Nat,
         r[n + 1] = Disconnect(s), \A k \in 1 .. n : r[k] = q[k]
  PROVE  TableAfter(known, r, n + 1) = TableAfter(known, q, n) \ {s}
BY MessageFacts DEF TableAfter

LEMMA TableOfData ==
  ASSUME NEW q, NEW r, NEW known, NEW s, NEW n \in Nat,
         r[n + 1] = Data(s), \A k \in 1 .. n : r[k] = q[k]
  PROVE  TableAfter(known, r, n + 1) = TableAfter(known, q, n)
BY MessageFacts DEF TableAfter

\* Handling the first message changes nothing of the table that is to come.
LEMMA TableOfTail ==
  ASSUME NEW q \in Seq(Messages), q # << >>, NEW known, NEW left,
         Head(q).kind = "connect" => left = known \cup {Head(q).id},
         Head(q).kind = "disconnect" => left = known \ {Head(q).id},
         Head(q).kind = "data" => left = known
  PROVE  \A n \in 0 .. Len(q) - 1 :
           TableAfter(left, Tail(q), n) = TableAfter(known, q, n + 1)
<1>1. /\ Len(q) \in Nat /\ Len(Tail(q)) = Len(q) - 1
      /\ \A k \in 1 .. Len(q) - 1 : Tail(q)[k] = q[k + 1]
      /\ q[1] = Head(q) /\ q[1] \in Messages
  OBVIOUS
<1> SUFFICES ASSUME NEW n \in 0 .. Len(q) - 1, NEW s \in Ids
             PROVE  s \in TableAfter(left, Tail(q), n) <=> s \in TableAfter(known, q, n + 1)
  BY DEF TableAfter
<1> DEFINE quiet(k) == \A j \in k .. n + 1 : q[j] # Disconnect(s)
<1>2. s \in TableAfter(left, Tail(q), n) <=>
        \/ \E k \in 2 .. n + 1 : q[k] = Connect(s) /\ quiet(k)
        \/ s \in left /\ quiet(2)
  <2>1. \A k \in 1 .. n : Tail(q)[k] = q[k + 1]
    BY <1>1
  <2>2. \A k \in 1 .. n + 1 : (\A j \in k .. n : Tail(q)[j] # Disconnect(s)) <=> quiet(k + 1)
    <3> TAKE k \in 1 .. n + 1
    <3>1. ASSUME quiet(k + 1), NEW j \in k .. n PROVE Tail(q)[j] # Disconnect(s)
      BY <2>1, <3>1
    <3>2. ASSUME \A j \in k .. n : Tail(q)[j] # Disconnect(s), NEW j \in k + 1 .. n + 1
          PROVE  q[j] # Disconnect(s)
      <4>1. j - 1 \in k .. n /\ Tail(q)[j - 1] = q[j]
        BY <2>1
      <4> QED
        BY <3>2, <4>1
    <3> QED
      BY <3>1, <3>2
  <2>3. (\E k \in 1 .. n : Tail(q)[k] = Connect(s)
                            /\ \A j \in k .. n : Tail(q)[j] # Disconnect(s))
          <=> \E k \in 2 .. n + 1 : q[k] = Connect(s) /\ quiet(k)
    <3>1. ASSUME NEW k \in 1 .. n, Tail(q)[k] = Connect(s), quiet(k + 1)
          PROVE  \E i \in 2 .. n + 1 : q[i] = Connect(s) /\ quiet(i)
      BY <2>1, <3>1
    <3>2. ASSUME NEW k \in 2 .. n + 1, q[k] = Connect(s), quiet(k)
          PROVE  \E i \in 1 .. n : Tail(q)[i] = Connect(s) /\ quiet(i + 1)
      <4>1. k - 1 \in 1 .. n /\ Tail(q)[k - 1] = q[k] /\ (k - 1) + 1 = k
        BY <2>1
      <4> QED
        BY <3>2, <4>1
    <3> QED
      BY <2>2, <3>1, <3>2
  <2> QED
    BY <2>2, <2>3 DEF TableAfter
<1>3. s \in TableAfter(known, q, n + 1) <=>
        \/ \E k \in 1 .. n + 1 : q[k] = Connect(s) /\ quiet(k)
        \/ s \in known /\ quiet(1)
  BY DEF TableAfter
<1>4. quiet(1) <=> q[1] # Disconnect(s) /\ quiet(2)
  <2>1. \A j \in 1 .. n + 1 : j = 1 \/ j \in 2 .. n + 1
    OBVIOUS
  <2> QED
    BY <2>1
<1>5. (\E k \in 1 .. n + 1 : q[k] = Connect(s) /\ quiet(k)) <=>
        \/ \E k \in 2 .. n + 1 : q[k] = Connect(s) /\ quiet(k)
        \/ q[1] = Connect(s) /\ quiet(1)
  <2>1. \A j \in 1 .. n + 1 : j = 1 \/ j \in 2 .. n + 1
    OBVIOUS
  <2> QED
    BY <2>1
<1> HIDE DEF quiet
<1>6. (s \in left /\ quiet(2)) <=>
        \/ q[1] = Connect(s) /\ quiet(1)
        \/ s \in known /\ quiet(1)
        \/ q[1] = Connect(s) /\ quiet(2)
  <2>1. CASE q[1].kind = "connect"
    BY <1>1, <1>4, <2>1, MessageFacts
  <2>2. CASE q[1].kind = "disconnect"
    BY <1>1, <1>4, <2>2, MessageFacts
  <2>3. CASE q[1].kind = "data"
    BY <1>1, <1>4, <2>3, MessageFacts
  <2> QED
    BY <1>1, <2>1, <2>2, <2>3 DEF Messages
<1>7. q[1] = Connect(s) => q[1] # Disconnect(s)
  BY MessageFacts
<1> QED
  BY <1>2, <1>3, <1>4, <1>5, <1>6, <1>7

\* Appending to m_msgs, and taking the head of temp, of the messages in a row.
LEMMA AppendBehind ==
  ASSUME NEW S, NEW s \in Seq(S), NEW t \in Seq(S), NEW e \in S
  PROVE  s \o Append(t, e) = Append(s \o t, e)
<1>1. <<e>> \in Seq(S) /\ s \o t \in Seq(S)
  BY ConcatProperties
<1>2. Append(s \o t, e) = (s \o t) \o <<e>> /\ Append(t, e) = t \o <<e>>
  BY <1>1, AppendIsConcat
<1>3. (s \o t) \o <<e>> = s \o (t \o <<e>>)
  BY <1>1, ConcatAssociative
<1> QED
  BY <1>2, <1>3

LEMMA TailInFront ==
  ASSUME NEW S, NEW s \in Seq(S), NEW t \in Seq(S), s # << >>
  PROVE  /\ Tail(s) \o t = Tail(s \o t) /\ Head(s \o t) = Head(s)
         /\ s \o t # << >> /\ s \o t \in Seq(S)
OBVIOUS

-----------------------------------------------------------------------------
(* The part of the invariant that is about messages, under the three things *)
(* that are done with them.                                                *)

\* The sessions that the io thread is not about to erase.
Live == m_session_map \ (IF ipc = "erase" THEN {closeId} ELSE {})

LEMMA ServerInvParts ==
  /\ ServerInv <=> TypeOK /\ TablesAgree /\ MessagesFindTheirSession /\ SendersHoldLiveSessions
  /\ TablesAgree <=> TableAfter(m_wan_session_map, Queued, Len(Queued)) = Live
  /\ TypeOK => Queued \in Seq(Messages)
BY ConcatProperties DEF ServerInv, TablesAgree, Live, TypeOK, Queued

\* Nothing is done with them.
LEMMA MessagesLeft ==
  ASSUME ServerInv, UNCHANGED <<m_msgs, temp, m_wan_session_map>>, Live' = Live
  PROVE  TablesAgree' /\ MessagesFindTheirSession'
<1>1. Queued' = Queued
  BY DEF Queued
<1>2. \A n : TableAfter(m_wan_session_map, Queued, n)' = TableAfter(m_wan_session_map, Queued, n)
  BY <1>1 DEF TableAfter, Connect, Disconnect, Ids
<1> QED
  BY <1>1, <1>2 DEF ServerInv, TablesAgree, MessagesFindTheirSession, Live

\* The io thread queues a message of what it does to the sessions.
LEMMA MessagesPushed ==
  ASSUME ServerInv, NEW m, NEW s, Push(m), UNCHANGED <<temp, m_wan_session_map>>,
         \/ m = Connect(s) /\ s \in Ids /\ Live' = Live \cup {s}
         \/ m = Disconnect(s) /\ Live' = Live \ {s}
         \/ m = Data(s) /\ s \in Live /\ Live' = Live
  PROVE  TablesAgree' /\ MessagesFindTheirSession'
<1> DEFINE S == Messages \cup {m}
           known == m_wan_session_map
<1>1. /\ m_msgs \in Seq(S) /\ temp \in Seq(S) /\ m \in S
      /\ Queued \in Seq(S)
  <2>1. m_msgs \in Seq(S) /\ temp \in Seq(S)
    BY SeqMonotonic DEF ServerInv, TypeOK
  <2> QED
    BY <2>1, ConcatProperties DEF Queued
<1>2. Queued' = Append(Queued, m)
  BY <1>1, AppendBehind DEF Push, Queued
<1>3. /\ Len(Queued) \in Nat /\ Len(Queued') = Len(Queued) + 1 /\ Queued'[Len(Queued) + 1] = m
      /\ \A k \in 1 .. Len(Queued) : Queued'[k] = Queued[k]
      /\ DOMAIN Queued = 1 .. Len(Queued) /\ DOMAIN Queued' = 1 .. Len(Queued')
  BY <1>1, <1>2
<1> HIDE DEF S, known
<1>4. \A n \in 0 .. Len(Queued) : TableAfter(known, Queued', n) = TableAfter(known, Queued, n)
  BY <1>3, TableBeforeAppended
<1>5. TableAfter(known, Queued, Len(Queued)) = Live
  BY DEF ServerInv, TablesAgree, Live, known
<1>6. TableAfter(known, Queued', Len(Queued) + 1) = Live'
  <2>1. CASE m = Connect(s) /\ s \in Ids /\ Live' = Live \cup {s}
    <3>1. Queued'[Len(Queued) + 1] = Connect(s) /\ s \in Ids
      BY <1>3, <2>1
    <3>2. TableAfter(known, Queued', Len(Queued) + 1) = TableAfter(known, Queued, Len(Queued)) \cup {s}
      BY ONLY <1>3, <3>1, TableOfConnect
    <3> QED
      BY <1>5, <2>1, <3>2
  <2>2. CASE m = Disconnect(s) /\ Live' = Live \ {s}
    BY <1>3, <1>5, <2>2, TableOfDisconnect
  <2>3. CASE m = Data(s) /\ s \in Live /\ Live' = Live
    BY <1>3, <1>5, <2>3, TableOfData
  <2> QED
    BY <2>1, <2>2, <2>3
<1>7. /\ \A n : TableAfter(m_wan_session_map, Queued, n)' = TableAfter(known, Queued', n)
      /\ TableAfter(m_wan_session_map, Queued, Len(Queued))'
           = TableAfter(known, Queued', Len(Queued'))
  BY DEF TableAfter, Connect, Disconnect, Ids, known
<1>8. TablesAgree'
  <2>1. TableAfter(m_wan_session_map, Queued, Len(Queued))' = Live'
    BY <1>3, <1>6, <1>7
  <2> QED
    BY <2>1 DEF TablesAgree, Live, TableAfter, Connect, Disconnect, Ids
<1>9. \A k \in DOMAIN Queued' :
        Queued'[k].kind = "data" => Queued'[k].id \in TableAfter(known, Queued', k - 1)
  <2> SUFFICES ASSUME NEW k \in DOMAIN Queued', Queued'[k].kind = "data"
               PROVE  Queued'[k].id \in TableAfter(known, Queued', k - 1)
    OBVIOUS
  <2>1. CASE k \in 1 .. Len(Queued)
    <3>1. Queued[k].id \in TableAfter(known, Queued, k - 1)
      BY <1>3, <2>1 DEF ServerInv, MessagesFindTheirSession, known
    <3>2. k - 1 \in 0 .. Len(Queued) /\ Queued'[k] = Queued[k]
      BY <2>1, <1>3
    <3>3. TableAfter(known, Queued', k - 1) = TableAfter(known, Queued, k - 1)
      BY <1>4, <3>2
    <3> QED
      BY <3>1, <3>2, <3>3
  <2>2. CASE k = Len(Queued) + 1
    <3>1. m.kind = "data" /\ k - 1 = Len(Queued) /\ Len(Queued) \in 0 .. Len(Queued)
      BY <1>3, <2>2
    <3>2. m = Data(s) /\ s \in Live /\ m.id = s
      BY <3>1, MessageFacts
    <3>3. TableAfter(known, Queued', k - 1) = Live
      BY <1>4, <1>5, <3>1
    <3> QED
      BY <1>3, <2>2, <3>2, <3>3
  <2> QED
    BY <1>3, <2>1, <2>2
<1>10. MessagesFindTheirSession'
  BY <1>7, <1>9 DEF MessagesFindTheirSession, TableAfter, Connect, Disconnect, Ids
<1> QED
  BY <1>8, <1>10

\* The main loop handles the oldest message.
LEMMA MessagesTaken ==
  ASSUME ServerInv, temp # << >>, temp' = Tail(temp), UNCHANGED m_msgs, Live' = Live,
         Head(temp).kind = "connect"
           => m_wan_session_map' = m_wan_session_map \cup {Head(temp).id},
         Head(temp).kind = "disconnect"
           => m_wan_session_map' = m_wan_session_map \ {Head(temp).id},
         Head(temp).kind = "data" => UNCHANGED m_wan_session_map
  PROVE  TablesAgree' /\ MessagesFindTheirSession'
<1>1. /\ Queued \in Seq(Messages) /\ Queued # << >>
      /\ Queued' = Tail(Queued) /\ Head(Queued) = Head(temp)
  BY TailInFront DEF ServerInv, TypeOK, Queued
<1>2. /\ Len(Queued) \in Nat \ {0} /\ Len(Queued') = Len(Queued) - 1
      /\ \A k \in 1 .. Len(Queued') : Queued'[k] = Queued[k + 1]
      /\ DOMAIN Queued = 1 .. Len(Queued) /\ DOMAIN Queued' = 1 .. Len(Queued')
  BY <1>1
<1>3. \A n \in 0 .. Len(Queued) - 1 :
        TableAfter(m_wan_session_map', Tail(Queued), n) = TableAfter(m_wan_session_map, Queued, n + 1)
  BY <1>1, TableOfTail
<1>4. \A n \in 0 .. Len(Queued') :
        TableAfter(m_wan_session_map, Queued, n)' = TableAfter(m_wan_session_map, Queued, n + 1)
  <2>1. \A n : TableAfter(m_wan_session_map, Queued, n)' = TableAfter(m_wan_session_map', Queued', n)
    BY DEF TableAfter, Connect, Disconnect, Ids
  <2> QED
    BY <1>1, <1>2, <1>3, <2>1
<1>5. TablesAgree'
  <2>1. TableAfter(m_wan_session_map, Queued, Len(Queued))' = Live
    <3>1. Len(Queued') \in 0 .. Len(Queued')
      BY <1>2
    <3>2. \A n : TableAfter(m_wan_session_map, Queued, n)' = TableAfter(m_wan_session_map', Queued', n)
      BY DEF TableAfter, Connect, Disconnect, Ids
    <3>3. TableAfter(m_wan_session_map, Queued, Len(Queued))'
            = TableAfter(m_wan_session_map', Queued', Len(Queued'))
      BY DEF TableAfter, Connect, Disconnect, Ids
    <3>4. TableAfter(m_wan_session_map', Queued', Len(Queued'))
            = TableAfter(m_wan_session_map, Queued, Len(Queued') + 1)
      BY <1>4, <3>1, <3>2
    <3>5. Len(Queued') + 1 = Len(Queued)
      BY <1>2
    <3>6. TableAfter(m_wan_session_map, Queued, Len(Queued)) = Live
      BY DEF ServerInv, TablesAgree, Live
    <3> QED
      BY <3>3, <3>4, <3>5, <3>6
  <2> QED
    BY <2>1 DEF TablesAgree, Live, TableAfter, Connect, Disconnect, Ids
<1>6. MessagesFindTheirSession'
  <2> SUFFICES ASSUME NEW k \in DOMAIN Queued', Queued'[k].kind = "data"
               PROVE  Queued'[k].id \in TableAfter(m_wan_session_map, Queued, k - 1)'
    BY DEF MessagesFindTheirSession, TableAfter, Connect, Disconnect, Ids
  <2>1. /\ k \in 1 .. Len(Queued') /\ k + 1 \in DOMAIN Queued /\ Queued'[k] = Queued[k + 1]
        /\ k - 1 \in 0 .. Len(Queued') /\ (k - 1) + 1 = k /\ (k + 1) - 1 = k
    BY <1>2
  <2>2. Queued[k + 1].id \in TableAfter(m_wan_session_map, Queued, (k + 1) - 1)
    BY <2>1 DEF ServerInv, MessagesFindTheirSession
  <2>3. TableAfter(m_wan_session_map, Queued, k - 1)'
          = TableAfter(m_wan_session_map, Queued, (k - 1) + 1)
    BY <1>4, <2>1
  <2> QED
    BY <2>1, <2>2, <2>3
<1> QED
  BY <1>5, <1>6

-----------------------------------------------------------------------------
(* Initially, and under each group of actions.                             *)

LEMMA InitServerInv == Init => ServerInv
<1> SUFFICES ASSUME Init PROVE ServerInv
  OBVIOUS
<1> USE WsServerAssumption DEF Init
<1>1. TypeOK
  BY DEF TypeOK, Ids, Given
<1>2. Queued = << >> /\ Len(Queued) = 0
  BY DEF Queued
<1>3. TableAfter(m_wan_session_map, Queued, 0) = {}
  BY DEF TableAfter
<1> QED
  BY <1>1, <1>2, <1>3 DEF ServerInv, TablesAgree, MessagesFindTheirSession, SendersHoldLiveSessions

\* More ids are given, never fewer, and messages and calls stay well typed.
LEMMA TypesGrow ==
  ASSUME TypeOK, m_client_seeesion' \in m_client_seeesion .. MaxSessions + 1
  PROVE  /\ Given \subseteq Given' /\ Given' \subseteq Ids
         /\ Messages \subseteq Messages'
         /\ m_msgs \in Seq(Messages') /\ temp \in Seq(Messages')
         /\ posted \in Seq(Given')
<1>1. Given \subseteq Given' /\ Given' \subseteq Ids
  <2> DEFINE now == m_client_seeesion
             next == m_client_seeesion'
  <2>1. /\ MaxSessions \in Nat /\ now \in Int /\ next \in Int
        /\ now <= next /\ next <= MaxSessions + 1
    BY WsServerAssumption DEF TypeOK
  <2>2. Given = 1 .. now - 1 /\ Given' = 1 .. next - 1
    BY DEF Given
  <2> HIDE DEF now, next
  <2> QED
    BY ONLY <2>1, <2>2 DEF Ids
<1>2. Messages \subseteq Messages'
  BY <1>1 DEF Messages
<1> QED
  BY <1>1, <1>2, SeqMonotonic DEF TypeOK

-----------------------------------------------------------------------------
LEMMA AcceptKeeps == ServerInv /\ Accept => ServerInv'
<1> SUFFICES ASSUME ServerInv, Accept PROVE ServerInv'
  OBVIOUS
<1> DEFINE s == m_client_seeesion
<1>1. /\ s \in Ids /\ s \in Given' /\ m_client_seeesion' \in s .. MaxSessions + 1
      /\ m_client_seeesion' \in 1 .. MaxSessions + 1
  BY WsServerAssumption DEF ServerInv, TypeOK, Accept, Ids, Given
<1>2. Given \subseteq Given' /\ Messages \subseteq Messages'
  BY <1>1, TypesGrow DEF ServerInv
<1>3. Connect(s) \in Messages'
  <2>1. s # 0
    BY <1>1, WsServerAssumption DEF Ids
  <2> QED
    BY <1>1, <2>1 DEF Messages, Connect
<1>4. m_msgs' \in Seq(Messages') /\ temp' \in Seq(Messages') /\ posted' \in Seq(Given')
  BY <1>1, <1>3, TypesGrow DEF Accept, Push, queue, ServerInv
<1>5. TypeOK'
  BY <1>1, <1>2, <1>4 DEF ServerInv, TypeOK, Accept, table, main, Ready
<1>6. Live' = Live \cup {s}
  BY DEF Live, Accept, Ready
<1>7. TablesAgree' /\ MessagesFindTheirSession'
  BY <1>1, <1>6, MessagesPushed DEF Accept, table
<1>8. SendersHoldLiveSessions'
  BY DEF ServerInv, SendersHoldLiveSessions, Accept
<1> QED
  BY <1>5, <1>7, <1>8 DEF ServerInv

LEMMA AcceptorKeeps ==
  ServerInv /\ (AcceptFails \/ AcceptThrows \/ TestShuting \/ PostAccept) => ServerInv'
<1> SUFFICES ASSUME ServerInv, AcceptFails \/ AcceptThrows \/ TestShuting \/ PostAccept
             PROVE  ServerInv'
  OBVIOUS
<1>1. /\ UNCHANGED <<m_client_seeesion, m_session_map, stream, reading, writing, closing, posted,
                     m_msgs, temp, reads, m_wan_session_map, named, closeId, sender>>
      /\ ipc # "erase" /\ ipc' # "erase"
  BY DEF AcceptFails, AcceptThrows, TestShuting, PostAccept, Io, Ready,
         operations, queue, table, main, accept
<1>2. /\ ipc' \in {"run", "accepted", "listen", "erase", "exited"}
      /\ mpc' \in {"loop", "close", "delete", "stop", "join", "ended", "down"}
  BY DEF AcceptFails, AcceptThrows, TestShuting, PostAccept, Io, Ready,
         main, ServerInv, TypeOK
<1>3. TypeOK'
  BY <1>1, <1>2 DEF ServerInv, TypeOK, Given, Messages
<1>4. TablesAgree' /\ MessagesFindTheirSession'
  BY <1>1, MessagesLeft DEF Live
<1>5. SendersHoldLiveSessions'
  BY <1>1 DEF ServerInv, SendersHoldLiveSessions
<1> QED
  BY <1>3, <1>4, <1>5 DEF ServerInv

\* A handler that reads no message.
LEMMA CompletionKeeps ==
  ASSUME ServerInv, NEW s \in Ids,
         \/ HandshakeDone(s) \/ ReadFails(s) \/ WriteDone(s) \/ WriteFails(s)
         \/ CloseDone(s) \/ FreedCompletes(s)
  PROVE  ServerInv'
<1>1. UNCHANGED <<m_client_seeesion, m_session_map, m_msgs, temp, reads,
                  m_wan_session_map, named, ipc, closeId, sender>>
  BY DEF HandshakeDone, ReadFails, WriteDone, WriteFails, CloseDone,
         FreedCompletes, Completes, accept, queue, table, main
<1>0. s \in Given
  <2>1. s \in m_session_map \cup reading \cup writing \cup closing
    BY DEF HandshakeDone, ReadFails, WriteDone, WriteFails, CloseDone, FreedCompletes, Completes
  <2> QED
    BY <2>1 DEF ServerInv, TypeOK
<1>2. /\ stream' \in [Ids -> {"none", "handshake", "open", "closing", "failed"}]
      /\ reading' \subseteq Given /\ writing' \subseteq Given /\ closing' \subseteq Given
  BY <1>1 DEF ServerInv, TypeOK, HandshakeDone, ReadFails, WriteDone, WriteFails, CloseDone,
         FreedCompletes, Completes, Release, accept, queue, table, main
<1>3. posted' \in Seq(Given)
  <2>1. posted' \in {posted, Append(posted, s)}
    BY DEF HandshakeDone, ReadFails, WriteDone, WriteFails, CloseDone, FreedCompletes, Release
  <2> QED
    BY <1>0, <2>1 DEF ServerInv, TypeOK
<1>4. mpc' \in {"loop", "close", "delete", "stop", "join", "ended", "down"}
  BY DEF ServerInv, TypeOK, HandshakeDone, ReadFails, WriteDone, WriteFails, CloseDone,
         FreedCompletes, Completes, main
<1>5. TypeOK'
  BY <1>1, <1>2, <1>3, <1>4 DEF ServerInv, TypeOK, Given, Messages
<1>6. TablesAgree' /\ MessagesFindTheirSession'
  BY <1>1, MessagesLeft DEF Live
<1>7. SendersHoldLiveSessions'
  BY <1>1 DEF ServerInv, SendersHoldLiveSessions
<1> QED
  BY <1>5, <1>6, <1>7 DEF ServerInv

LEMMA ReadDoneKeeps ==
  ASSUME ServerInv, NEW s \in Ids, ReadDone(s)
  PROVE  ServerInv'
<1>1. /\ UNCHANGED <<m_client_seeesion, m_session_map, stream, reading, writing, closing, posted,
                     temp, m_wan_session_map, named, ipc, closeId, sender, mpc>>
      /\ Push(Data(s)) /\ ipc = "run" /\ s \in m_session_map /\ reads' = reads + 1
  BY DEF ReadDone, Completes, Ready, operations, accept, table, main
<1>2. Data(s) \in Messages
  BY <1>1 DEF ServerInv, TypeOK, Messages, Data, Given
<1>3. m_msgs' \in Seq(Messages)
  BY <1>1, <1>2 DEF ServerInv, TypeOK, Push
<1>4. TypeOK'
  BY <1>1, <1>3 DEF ServerInv, TypeOK, Given, Messages
<1>5. s \in Live /\ Live' = Live
  BY <1>1 DEF Live
<1>6. TablesAgree' /\ MessagesFindTheirSession'
  BY <1>1, <1>5, MessagesPushed
<1>7. SendersHoldLiveSessions'
  BY <1>1 DEF ServerInv, SendersHoldLiveSessions
<1> QED
  BY <1>4, <1>6, <1>7 DEF ServerInv

LEMMA HandleCloseKeeps == ServerInv /\ HandleClose => ServerInv'
<1> SUFFICES ASSUME ServerInv, HandleClose PROVE ServerInv'
  OBVIOUS
<1>1. /\ UNCHANGED <<m_client_seeesion, m_session_map, stream, reading, writing, closing,
                     temp, m_wan_session_map, named, reads, sender>>
      /\ ipc = "run" /\ posted # << >> /\ posted' = Tail(posted)
  BY DEF HandleClose, Ready, accept, table
<1>2. posted' \in Seq(Given) /\ Head(posted) \in Given
  BY <1>1 DEF ServerInv, TypeOK
<1>3. SendersHoldLiveSessions'
  BY <1>1 DEF ServerInv, SendersHoldLiveSessions
<1>4. CASE UNCHANGED <<closeId, m_msgs, ipc>> /\ mpc' = "down"
  <2>1. TypeOK'
    BY <1>1, <1>2, <1>4 DEF ServerInv, TypeOK, Given, Messages
  <2>2. TablesAgree' /\ MessagesFindTheirSession'
    BY <1>1, <1>4, MessagesLeft DEF Live
  <2> QED
    BY <1>3, <2>1, <2>2 DEF ServerInv
<1>5. ASSUME NEW s \in Given \cup {0}, closeId' = s, Push(Disconnect(s)), ipc' = "erase",
             UNCHANGED mpc
      PROVE  ServerInv'
  <2>1. Disconnect(s) \in Messages
    BY MessageFacts
  <2>2. m_msgs' \in Seq(Messages)
    BY <1>5, <2>1 DEF ServerInv, TypeOK, Push
  <2>3. TypeOK'
    BY <1>1, <1>2, <1>5, <2>2 DEF ServerInv, TypeOK, Given, Messages
  <2>4. Live' = Live \ {s}
    BY <1>1, <1>5 DEF Live
  <2>5. TablesAgree' /\ MessagesFindTheirSession'
    BY <1>1, <1>5, <2>4, MessagesPushed
  <2> QED
    BY <1>3, <2>3, <2>5 DEF ServerInv
<1> QED
  BY <1>2, <1>4, <1>5 DEF HandleClose

LEMMA EraseKeeps == ServerInv /\ (Erase \/ IoExits) => ServerInv'
<1> SUFFICES ASSUME ServerInv, Erase \/ IoExits PROVE ServerInv'
  OBVIOUS
<1>1. /\ UNCHANGED <<m_client_seeesion, stream, reading, writing, closing, posted,
                     m_msgs, temp, reads, m_wan_session_map, named, sender, mpc>>
      /\ Live' = Live
  BY DEF Erase, IoExits, Io, Live, accept, operations, queue, table, main
<1>2. TypeOK'
  BY <1>1 DEF ServerInv, TypeOK, Given, Messages, Erase, IoExits, Io
<1>3. TablesAgree' /\ MessagesFindTheirSession'
  BY <1>1, MessagesLeft
<1>4. SendersHoldLiveSessions'
  BY <1>1 DEF ServerInv, SendersHoldLiveSessions, Erase, IoExits
<1> QED
  BY <1>2, <1>3, <1>4 DEF ServerInv

LEMMA SendersKeep == ServerInv /\ Senders => ServerInv'
<1> SUFFICES ASSUME ServerInv, Senders PROVE ServerInv'
  OBVIOUS
<1>1. UNCHANGED <<m_client_seeesion, stream, reading, closing, posted, m_msgs, temp, reads,
                  m_wan_session_map, named, m_session_map, ipc, closeId>>
  BY DEF Senders, Send, SendToDestroyed, Find, accept, operations, queue, table
<1>2. /\ sender' \in Given \cup {0} /\ writing' \subseteq Given
      /\ mpc' \in {"loop", "close", "delete", "stop", "join", "ended", "down"}
  BY DEF Senders, Send, SendToDestroyed, Find, operations, main, ServerInv, TypeOK
<1>3. TypeOK'
  BY <1>1, <1>2 DEF ServerInv, TypeOK, Given, Messages
<1>4. TablesAgree' /\ MessagesFindTheirSession'
  BY <1>1, MessagesLeft DEF Live
<1>5. SendersHoldLiveSessions'
  BY <1>1 DEF ServerInv, SendersHoldLiveSessions, Senders, Send, SendToDestroyed, Find
<1> QED
  BY <1>3, <1>4, <1>5 DEF ServerInv

LEMMA UpdateKeeps == ServerInv /\ Update => ServerInv'
<1> SUFFICES ASSUME ServerInv, Update PROVE ServerInv'
  OBVIOUS
<1>1. /\ UNCHANGED <<m_client_seeesion, stream, reading, writing, closing, posted, reads,
                     m_session_map, ipc, closeId, sender, mpc>>
      /\ Live' = Live
  BY DEF Update, Dequeue, OnConnect, OnMsgReceive, OnDisconnect, Takes, Live,
         accept, operations, main
<1>2. SendersHoldLiveSessions'
  BY <1>1 DEF ServerInv, SendersHoldLiveSessions
<1>3. CASE Dequeue
  <2>1. /\ m_msgs' \in Seq(Messages) /\ temp' \in Seq(Messages)
        /\ UNCHANGED <<m_wan_session_map, named>>
        /\ Queued' = Queued
    BY <1>3 DEF Dequeue, ServerInv, TypeOK, table, Queued
  <2>2. TypeOK'
    BY <1>1, <2>1 DEF ServerInv, TypeOK, Given, Messages
  <2>3. \A n : TableAfter(m_wan_session_map, Queued, n)' = TableAfter(m_wan_session_map, Queued, n)
    BY <2>1 DEF TableAfter, Connect, Disconnect, Ids
  <2>4. TablesAgree' /\ MessagesFindTheirSession'
    BY <1>1, <2>1, <2>3 DEF ServerInv, TablesAgree, MessagesFindTheirSession, Live
  <2> QED
    BY <1>2, <2>2, <2>4 DEF ServerInv
<1>4. CASE OnConnect \/ OnMsgReceive \/ OnDisconnect
  <2>1. temp # << >> /\ temp' = Tail(temp) /\ UNCHANGED m_msgs
    BY <1>4 DEF OnConnect, OnMsgReceive, OnDisconnect, Takes
  <2>2. temp' \in Seq(Messages) /\ Head(temp) \in Messages
    BY <2>1 DEF ServerInv, TypeOK
  <2>3. /\ Head(temp).kind = "connect"
             => m_wan_session_map' = m_wan_session_map \cup {Head(temp).id}
        /\ Head(temp).kind = "disconnect"
             => m_wan_session_map' = m_wan_session_map \ {Head(temp).id}
        /\ Head(temp).kind = "data" => UNCHANGED m_wan_session_map
    BY <1>4 DEF OnConnect, OnMsgReceive, OnDisconnect, Takes
  <2>4. TablesAgree' /\ MessagesFindTheirSession'
    BY <1>1, <2>1, <2>3, MessagesTaken
  <2>5. m_wan_session_map' \subseteq Given /\ named' \subseteq Given
    BY <1>4, <2>2 DEF OnConnect, OnMsgReceive, OnDisconnect, Takes, ServerInv, TypeOK, Messages
  <2>6. TypeOK'
    BY <1>1, <2>1, <2>2, <2>5 DEF ServerInv, TypeOK, Given, Messages
  <2> QED
    BY <1>2, <2>4, <2>6 DEF ServerInv
<1> QED
  BY <1>3, <1>4 DEF Update

LEMMA ShutdownKeeps == ServerInv /\ (Shutdown \/ UNCHANGED vars) => ServerInv'
<1> SUFFICES ASSUME ServerInv, Shutdown \/ UNCHANGED vars PROVE ServerInv'
  OBVIOUS
<1>1. UNCHANGED <<m_client_seeesion, stream, reading, writing, closing, posted, m_msgs, temp,
                  reads, m_wan_session_map, named, m_session_map, ipc, closeId, sender>>
  BY DEF Shutdown, StoreShuting, CloseAcceptor, DeleteAcceptor, StopIo, Join, Goes, vars,
         accept, operations, queue, table
<1>2. mpc' \in {"loop", "close", "delete", "stop", "join", "ended", "down"}
  BY DEF Shutdown, StoreShuting, CloseAcceptor, DeleteAcceptor, StopIo, Join, Goes, vars,
         main, ServerInv, TypeOK
<1>3. TypeOK'
  BY <1>1, <1>2 DEF ServerInv, TypeOK, Given, Messages
<1>4. TablesAgree' /\ MessagesFindTheirSession'
  BY <1>1, MessagesLeft DEF Live
<1>5. SendersHoldLiveSessions'
  BY <1>1 DEF ServerInv, SendersHoldLiveSessions
<1> QED
  BY <1>3, <1>4, <1>5 DEF ServerInv

-----------------------------------------------------------------------------
(* The theorem.                                                            *)

LEMMA ServerStep == ServerInv /\ [Next]_vars => ServerInv'
<1> SUFFICES ASSUME ServerInv, [Next]_vars PROVE ServerInv'
  OBVIOUS
<1>1. CASE IoThread
  BY <1>1, AcceptKeeps, AcceptorKeeps, CompletionKeeps, ReadDoneKeeps, HandleCloseKeeps,
     EraseKeeps DEF IoThread, Completion, Closing
<1>2. CASE Senders
  BY <1>2, SendersKeep
<1>3. CASE Update
  BY <1>3, UpdateKeeps
<1>4. CASE Shutdown \/ UNCHANGED vars
  BY <1>4, ShutdownKeeps
<1> QED
  BY <1>1, <1>2, <1>3, <1>4 DEF Next

\* The main loop's table and the sessions agree, every message finds its session
\* and a thread that sends holds one that exists, whatever order accepts,
\* failures, closes and sends come in, with any number of sessions.
THEOREM ServerInvariant == Spec => []ServerInv
<1>1. Init => ServerInv
  BY InitServerInv
<1>2. ServerInv /\ [Next]_vars => ServerInv'
  BY ServerStep
<1> QED
  BY <1>1, <1>2, PTL DEF Spec

\* Nothing is queued, and the io thread is not between the disconnection that it
\* has pushed and the removal of the session from m_session_map.
Settled == Queued = << >> /\ ipc # "erase"

LEMMA SettledTables ==
  ServerInv /\ Settled => m_wan_session_map = m_session_map
<1> SUFFICES ASSUME ServerInv, Settled PROVE m_wan_session_map = m_session_map
  OBVIOUS
<1>1. TableAfter(m_wan_session_map, << >>, 0) = m_session_map
  <2>1. Len(<< >>) = 0 /\ m_session_map \ {} = m_session_map
    OBVIOUS
  <2> QED
    BY <2>1 DEF ServerInv, TablesAgree, Settled
<1>2. TableAfter(m_wan_session_map, << >>, 0) = {s \in Ids : s \in m_wan_session_map}
  BY DEF TableAfter
<1>3. m_wan_session_map \subseteq Ids
  BY WsServerAssumption DEF ServerInv, TypeOK, Given, Ids
<1> QED
  BY <1>1, <1>2, <1>3

\* Whenever process_msg has handled everything that is queued and no close is
\* under way, the main loop's table is the io thread's.
THEOREM TablesAreEqualWhenSettled ==
  Spec => [](Settled => m_wan_session_map = m_session_map)
BY SettledTables, ServerInvariant, PTL

\* on_msg_receive finds the session of every message, however the sessions'
\* connections, reads, failures and repeated closes were queued.
THEOREM MessagesAlwaysFindTheirSession == Spec => []MessagesFindTheirSession
<1>1. ServerInv => MessagesFindTheirSession
  BY DEF ServerInv
<1> QED
  BY <1>1, ServerInvariant, PTL

\* The session that send_msg has found is not erased while the sender uses it.
THEOREM SendersAlwaysHoldLiveSessions == Spec => []SendersHoldLiveSessions
<1>1. ServerInv => SendersHoldLiveSessions
  BY DEF ServerInv
<1> QED
  BY <1>1, ServerInvariant, PTL

-----------------------------------------------------------------------------
(* The client of the video management server: the client itself.           *)

\* The commands leave the client as it is and send the main thread to destroy.
LEMMA CommandKeepsInv == ASSUME ClientInv, Command PROVE ClientInv'
<1> USE DEF ClientInv, VmsTypeOK, RegistrationIsCurrent, StartsClean,
            RestartIsQuiet, Quiet, Destroying, client, lists
<1>1. CASE StartCommand BY <1>1 DEF StartCommand, Destroy
<1>2. CASE StopCommand BY <1>2 DEF StopCommand, Destroy
<1>3. CASE ShutdownCommand BY <1>3 DEF ShutdownCommand, Destroy
<1> QED BY <1>1, <1>2, <1>3 DEF Command

\* The steps of stop and destroy: once the flags are down and the client is to
\* be started again, nothing raises them before the join.
LEMMA StoppingKeepsInv == ASSUME ClientInv, Stopping PROVE ClientInv'
<1> USE DEF ClientInv, VmsTypeOK, RegistrationIsCurrent, StartsClean,
            RestartIsQuiet, Quiet, Destroying, client, lists
<1>1. CASE StoreStoped BY <1>1 DEF StoreStoped
<1>2. CASE Unregister BY <1>2 DEF Unregister
<1>3. CASE Quit BY <1>3 DEF Quit
<1>4. CASE ClearPointer BY <1>4 DEF ClearPointer
<1>5. CASE JoinThread BY <1>5 DEF JoinThread
<1> QED BY <1>1, <1>2, <1>3, <1>4, <1>5 DEF Stopping

\* init and the tick of the main loop.
LEMMA StartAndTickKeepInv ==
  ASSUME ClientInv, Start \/ StartFails \/ Tick
  PROVE  ClientInv'
<1> USE DEF ClientInv, VmsTypeOK, RegistrationIsCurrent, StartsClean,
            RestartIsQuiet, Quiet, Destroying, client, lists, mainVars
<1>1. CASE Start
  <2>1. session' \in 0 .. MaxClients
    BY <1>1, VmsDeviceAssumption DEF Start
  <2>2. ~m_is_register' /\ UNCHANGED <<m_is_register, granted, then>>
    BY <1>1 DEF Start
  <2>3. m_stoped' = FALSE /\ context' = "live" /\ wpc' = "test" /\ vpc' = "tick"
    BY <1>1 DEF Start
  <2> QED BY <2>1, <2>2, <2>3
<1>2. CASE StartFails BY <1>2 DEF StartFails
<1>3. CASE Heartbeat BY <1>3 DEF Heartbeat
<1>4. CASE EndSave BY <1>4 DEF EndSave
<1>5. CASE \E registered \in SUBSET Channels : BeginSave(registered) BY <1>5 DEF BeginSave
<1>6. CASE \E c \in Channels : SaveChannel(c) BY <1>6 DEF SaveChannel
<1> QED BY <1>1, <1>2, <1>3, <1>4, <1>5, <1>6 DEF Tick

\* The SIP thread: its handlers run only in a client that has not stopped or
\* that is being destroyed for good.
LEMMA SipKeepsInv == ASSUME ClientInv, Sip PROVE ClientInv'
<1> USE DEF ClientInv, VmsTypeOK, RegistrationIsCurrent, StartsClean,
            RestartIsQuiet, Quiet, Destroying, client, lists, mainVars,
            SipGoes, Elsewhere, Running
<1>1. CASE TestStoped BY <1>1 DEF TestStoped
<1>2. CASE UseQuitContext BY <1>2 DEF UseQuitContext
<1>3. CASE Registered BY <1>3 DEF Registered
<1>4. CASE NoResponse BY <1>4 DEF NoResponse
<1>5. CASE GiveUp BY <1>5 DEF GiveUp
<1>6. CASE Answer BY <1>6 DEF Answer
<1>7. CASE \E to \in {"test", "success", "silent", "request"} : WaitForEvent(to)
  BY <1>7 DEF WaitForEvent
<1> QED BY <1>1, <1>2, <1>3, <1>4, <1>5, <1>6, <1>7 DEF Sip

LEMMA ClientInit == ASSUME VmsInit PROVE ClientInv
<1>1. 0 \in 0 .. MaxClients
  BY VmsDeviceAssumption
<1>2. VmsTypeOK
  BY <1>1 DEF VmsInit, VmsTypeOK
<1> QED
  BY <1>2 DEF VmsInit, ClientInv, RegistrationIsCurrent, StartsClean,
     RestartIsQuiet, Quiet, Destroying

LEMMA ClientStep ==
  ASSUME ClientInv, [VmsNext]_vmsVars
  PROVE  ClientInv'
<1>1. CASE VmsNext
  BY <1>1, CommandKeepsInv, StoppingKeepsInv, StartAndTickKeepInv, SipKeepsInv
     DEF VmsNext, Main
<1>2. CASE UNCHANGED vmsVars
  BY <1>2 DEF vmsVars, ClientInv, VmsTypeOK, RegistrationIsCurrent,
     StartsClean, RestartIsQuiet, Quiet, Destroying
<1> QED
  BY <1>1, <1>2

-----------------------------------------------------------------------------
(* The client of the video management server: its lists of channels.       *)

\* A set of numbers has a least one.
LEMMA LeastNumber ==
  ASSUME NEW S \in SUBSET Nat, S # {}
  PROVE  \E n \in S : \A k \in S : n <= k
<1> DEFINE R == {p \in Nat \X Nat : p[1] < p[2]}
<1>1. IsWellFoundedOn(R, Nat)
  BY NatLessThanWellFounded DEF OpToRel
<1>2. \A k, n \in Nat : k < n => <<k, n>> \in R
  OBVIOUS
<1> HIDE DEF R
<1>3. PICK n \in S : \A k \in S : ~ (<<k, n>> \in R)
  BY <1>1, WFMin
<1> SUFFICES ASSUME NEW k \in S PROVE n <= k
  OBVIOUS
<1>4. k \in Nat /\ n \in Nat /\ ~ (k < n)
  BY <1>2, <1>3
<1> QED
  BY <1>4

\* The channels below c come first in a sorted list: those up to some place.
LEMMA SortedSplits ==
  ASSUME NEW q \in Seq(Nat), Sorted(q), NEW c \in Nat
  PROVE  \E k \in 0 .. Len(q) : \A i \in 1 .. Len(q) : q[i] < c <=> i <= k
<1> DEFINE S == {i \in 1 .. Len(q) + 1 : i = Len(q) + 1 \/ ~ (q[i] < c)}
<1>1. S \in SUBSET Nat /\ S # {}
  <2>1. Len(q) + 1 \in S
    OBVIOUS
  <2> QED
    BY <2>1
<1>2. PICK n \in S : \A k \in S : n <= k
  BY <1>1, LeastNumber
<1>3. \A i \in 1 .. Len(q) : i < n => q[i] < c
  BY <1>2
<1>4. ASSUME NEW i \in 1 .. Len(q), ~ (i < n) PROVE ~ (q[i] < c)
  <2>1. n \in 1 .. Len(q) /\ ~ (q[n] < c) /\ (n = i \/ n < i)
    BY <1>2, <1>4
  <2>2. n < i => q[n] < q[i]
    BY <2>1 DEF Sorted
  <2>3. q[n] \in Nat /\ q[i] \in Nat
    BY <2>1
  <2> QED
    BY <2>1, <2>2, <2>3
<1>5. n - 1 \in 0 .. Len(q) /\ \A i \in 1 .. Len(q) : i <= n - 1 <=> i < n
  BY <1>2
<1> QED
  BY <1>3, <1>4, <1>5

\* The sorted list with a new channel is sorted and has just that one more.
LEMMA InsertKeepsOrder ==
  ASSUME NEW q \in Seq(Nat), Sorted(q), NEW c \in Nat, c \notin Listed(q)
  PROVE  /\ Insert(q, c) \in Seq(Listed(q) \cup {c})
         /\ Sorted(Insert(q, c))
         /\ Listed(Insert(q, c)) = Listed(q) \cup {c}
<1> DEFINE r == Insert(q, c)
           n == Len(q)
<1>1. PICK k \in 0 .. n : \A i \in 1 .. n : q[i] < c <=> i <= k
  BY SortedSplits
<1>2. r = [i \in 1 .. n + 1 |-> IF i <= k THEN q[i] ELSE IF i = k + 1 THEN c ELSE q[i - 1]]
  <2> DEFINE before == {i \in DOMAIN q : q[i] < c}
  <2>1. before = 1 .. k
    BY <1>1
  <2>2. \A i \in 1 .. n + 1 : /\ i \in before <=> i <= k
                              /\ ~ (i <= k) => (i - 1 \in before \cup {0} <=> i = k + 1)
    BY <2>1
  <2> QED
    BY <2>2 DEF Insert
<1> HIDE DEF r
<1>3. /\ n \in Nat /\ DOMAIN q = 1 .. n /\ \A i \in 1 .. n : q[i] \in Nat /\ q[i] # c
      /\ DOMAIN r = 1 .. n + 1
  BY <1>2 DEF Listed
<1>4. \A i \in 1 .. n + 1 : /\ i <= k => r[i] = q[i] /\ r[i] < c
                            /\ i = k + 1 => r[i] = c
                            /\ i > k + 1 => r[i] = q[i - 1] /\ r[i] > c
  <2> TAKE i \in 1 .. n + 1
  <2>1. CASE i <= k
    BY <1>1, <1>2, <2>1
  <2>2. CASE i = k + 1
    BY <1>2, <2>2
  <2>3. CASE i > k + 1
    <3>1. r[i] = q[i - 1] /\ i - 1 \in 1 .. n /\ ~ (i - 1 <= k)
      BY <1>2, <2>3
    <3>2. ~ (q[i - 1] < c) /\ q[i - 1] # c /\ q[i - 1] \in Nat
      BY <1>1, <1>3, <3>1
    <3> QED
      BY <2>3, <3>1, <3>2
  <2> QED
    BY <2>1, <2>2, <2>3
<1>5. Listed(r) = Listed(q) \cup {c}
  <2>1. ASSUME NEW i \in 1 .. n + 1 PROVE r[i] \in Listed(q) \cup {c}
    <3>1. CASE i <= k
      <4>1. r[i] = q[i] /\ i \in DOMAIN q
        BY <1>3, <1>4, <3>1
      <4> QED
        BY <4>1 DEF Listed
    <3>2. CASE i = k + 1
      BY <1>4, <3>2
    <3>3. CASE i > k + 1
      <4>1. r[i] = q[i - 1] /\ i - 1 \in DOMAIN q
        BY <1>3, <1>4, <3>3
      <4> QED
        BY <4>1 DEF Listed
    <3> QED
      BY <3>1, <3>2, <3>3
  <2>2. ASSUME NEW i \in 1 .. n PROVE q[i] \in Listed(r)
    <3>1. CASE i <= k
      BY <1>3, <1>4, <3>1 DEF Listed
    <3>2. CASE i > k
      <4>1. i + 1 \in DOMAIN r /\ r[i + 1] = q[i]
        BY <1>3, <1>4, <3>2
      <4> QED
        BY <4>1 DEF Listed
    <3> QED
      BY <3>1, <3>2
  <2>3. k + 1 \in DOMAIN r /\ r[k + 1] = c
    BY <1>3, <1>4
  <2> QED
    BY <1>3, <2>1, <2>2, <2>3 DEF Listed
<1>6. Sorted(r)
  <2> SUFFICES ASSUME NEW i \in 1 .. n + 1, NEW j \in 1 .. n + 1, i < j
               PROVE  r[i] < r[j]
    BY <1>3 DEF Sorted
  <2>1. CASE j <= k
    <3>1. r[i] = q[i] /\ r[j] = q[j] /\ i \in 1 .. n /\ j \in 1 .. n
      BY <1>4, <2>1
    <3> QED
      BY <1>3, <3>1 DEF Sorted
  <2>2. CASE i <= k /\ j > k
    <3>1. r[i] \in Nat /\ r[i] < c
      <4>1. r[i] = q[i] /\ r[i] < c /\ i \in 1 .. n
        BY <1>4, <2>2
      <4> QED
        BY <4>1
    <3>2. r[j] \in Nat /\ c <= r[j]
      <4>1. CASE j = k + 1
        BY <1>4, <4>1
      <4>2. CASE j > k + 1
        <5>1. r[j] = q[j - 1] /\ r[j] > c /\ j - 1 \in 1 .. n
          BY <1>4, <4>2
        <5> QED
          BY <5>1
      <4> QED
        BY <2>2, <4>1, <4>2
    <3> QED
      BY <3>1, <3>2
  <2>3. CASE i = k + 1
    BY <1>4, <2>3
  <2>4. CASE i > k + 1
    <3>1. r[i] = q[i - 1] /\ r[j] = q[j - 1] /\ i - 1 \in 1 .. n /\ j - 1 \in 1 .. n /\ i - 1 < j - 1
      BY <1>4, <2>4
    <3> QED
      BY <1>3, <3>1 DEF Sorted
  <2> QED
    BY <2>1, <2>2, <2>3, <2>4
<1>7. r \in Seq(Listed(q) \cup {c})
  <2>1. r \in [1 .. n + 1 -> Listed(q) \cup {c}] /\ n + 1 \in Nat
    BY <1>2, <1>3, <1>4 DEF Listed
  <2> QED
    BY <2>1
<1> QED
  BY <1>5, <1>6, <1>7 DEF r

LEMMA ListInit == ASSUME VmsInit PROVE ListInv
<1>1. saved \subseteq Channels /\ IsFiniteSet(saved) /\ Cardinality(saved) \in Nat
  BY VmsDeviceAssumption, FS_Subset, FS_CardinalityType DEF VmsInit
<1>2. deviceList \in [1 .. Cardinality(saved) -> saved]
  BY DEF VmsInit
<1>3. deviceList \in Seq(saved)
  BY <1>1, <1>2
<1>4. deviceList \in Seq(Channels)
  BY <1>1, <1>3, SeqMonotonic
<1> QED
  BY <1>1, <1>4 DEF VmsInit, ListInv

LEMMA ListStep ==
  ASSUME ListInv, [VmsNext]_vmsVars
  PROVE  ListInv'
<1>1. CASE \E registered \in SUBSET Channels : BeginSave(registered)
  <2>1. /\ saved' \subseteq Channels /\ todo' = saved' /\ deviceList' = << >> /\ vpc' = "saving"
        /\ Listed(<< >>) = {} /\ Sorted(<< >>)
    BY <1>1 DEF BeginSave, Listed, Sorted
  <2> QED
    BY <2>1 DEF ListInv, Listed, Sorted
<1>2. CASE \E c \in Channels : SaveChannel(c)
  <2> PICK c \in Channels : SaveChannel(c)
    BY <1>2
  <2>1. /\ c \in todo /\ todo' = todo \ {c} /\ UNCHANGED <<saved, vpc>> /\ vpc = "saving"
        /\ deviceList' = Insert(deviceList, c)
    BY DEF SaveChannel, mainVars
  <2>2. deviceList \in Seq(Nat) /\ c \in Nat /\ Sorted(deviceList)
    BY VmsDeviceAssumption, SeqMonotonic DEF ListInv
  <2>3. c \notin Listed(deviceList) /\ Listed(deviceList) \cup {c} = saved \ (todo \ {c})
    BY <2>1 DEF ListInv
  <2>4. /\ deviceList' \in Seq(Listed(deviceList) \cup {c})
        /\ Sorted(deviceList)'
        /\ Listed(deviceList)' = Listed(deviceList) \cup {c}
    <3>1. /\ Insert(deviceList, c) \in Seq(Listed(deviceList) \cup {c})
          /\ Sorted(Insert(deviceList, c))
          /\ Listed(Insert(deviceList, c)) = Listed(deviceList) \cup {c}
      BY <2>2, <2>3, InsertKeepsOrder
    <3> QED
      BY <2>1, <3>1 DEF Sorted, Listed
  <2>5. deviceList' \in Seq(Channels)
    BY <2>1, <2>3, <2>4, SeqMonotonic DEF ListInv
  <2> QED
    BY <2>1, <2>3, <2>4, <2>5 DEF ListInv
<1>3. CASE EndSave
  BY <1>3 DEF EndSave, lists, ListInv, Sorted, Listed
<1>4. CASE UNCHANGED lists /\ (vpc' \notin {"saving", "down"} => vpc \notin {"saving", "down"})
  BY <1>4 DEF lists, ListInv, Sorted, Listed
<1>5. CASE Command \/ Start \/ StartFails \/ Heartbeat
  BY <1>4, <1>5 DEF Command, StartCommand, StopCommand, ShutdownCommand, Destroy,
     Start, StartFails, Heartbeat, mainVars, lists
<1>6. CASE Stopping
  BY <1>4, <1>6 DEF Stopping, StoreStoped, Unregister, Quit, ClearPointer,
     JoinThread, lists
<1>7. CASE Sip \/ UNCHANGED vmsVars
  BY <1>4, <1>7 DEF Sip, TestStoped, UseQuitContext, Registered, NoResponse,
     GiveUp, Answer, WaitForEvent, SipGoes, Elsewhere, mainVars, lists,
     vmsVars
<1> QED
  BY <1>1, <1>2, <1>3, <1>5, <1>6, <1>7 DEF VmsNext, Main, Tick

-----------------------------------------------------------------------------
(* The client of the video management server: the theorems.                *)

\* In every reachable state the flags and the context that the two threads of
\* cvms_device share are used as the code relies on, and the list of channels
\* is the one that was saved, as far as the save has come.
THEOREM DeviceInvariant == VmsSpec => []DeviceInv
<1>1. VmsInit => DeviceInv
  BY ClientInit, ListInit DEF DeviceInv
<1>2. DeviceInv /\ [VmsNext]_vmsVars => DeviceInv'
  BY ClientStep, ListStep DEF DeviceInv
<1> QED
  BY <1>1, <1>2, PTL DEF VmsSpec

\* Every catalog lists, in order, the channels last saved, and one sent during
\* a save only some of them.
THEOREM CatalogsAlwaysCurrent == VmsSpec => CatalogsAreCurrent
<1> DEFINE Current == catalog' # catalog =>
                        /\ Sorted(catalog')
                        /\ Listed(catalog') \subseteq saved
                        /\ vpc # "saving" => Listed(catalog') = saved
<1>1. ASSUME DeviceInv, [VmsNext]_vmsVars PROVE [Current]_vmsVars
  <2>0. vmsVars' = vmsVars => catalog' = catalog
    BY DEF vmsVars
  <2> SUFFICES ASSUME catalog' # catalog PROVE Current
    OBVIOUS
  <2> HIDE DEF Current
  <2>1. CASE Heartbeat \/ Answer
    <3>1. catalog' = deviceList /\ vpc # "down"
      BY <2>1 DEF Heartbeat, Answer, SipGoes, Running
    <3>2. /\ Sorted(deviceList) /\ Listed(deviceList) = saved \ todo
          /\ vpc \notin {"saving", "down"} => todo = {}
      BY <1>1 DEF DeviceInv, ListInv
    <3>3. Sorted(catalog') /\ Listed(catalog') = saved \ todo
      BY <3>1, <3>2
    <3> QED
      BY <3>1, <3>2, <3>3 DEF Current
  <2>2. Heartbeat \/ Answer
    <3>1. ~Command
      BY DEF Command, StartCommand, StopCommand, ShutdownCommand
    <3>2. ~Stopping
      BY DEF Stopping, StoreStoped, Unregister, Quit, ClearPointer, JoinThread
    <3>3. ~Start /\ ~StartFails /\ ~EndSave
          /\ (\A registered \in SUBSET Channels : ~BeginSave(registered))
          /\ (\A c \in Channels : ~SaveChannel(c))
      BY DEF Start, StartFails, EndSave, BeginSave, SaveChannel
    <3>4. /\ ~TestStoped /\ ~UseQuitContext /\ ~Registered /\ ~NoResponse
          /\ ~GiveUp
          /\ \A to \in {"test", "success", "silent", "request"} : ~WaitForEvent(to)
      BY DEF TestStoped, UseQuitContext, Registered, NoResponse, GiveUp,
             WaitForEvent
    <3>5. VmsNext
      BY <1>1, <2>0
    <3> QED
      BY <3>1, <3>2, <3>3, <3>4, <3>5 DEF VmsNext, Main, Tick, Sip
  <2> QED
    BY <2>1, <2>2
<1> QED
  BY <1>1, DeviceInvariant, PTL DEF VmsSpec, CatalogsAreCurrent

\* A client that runs counts as registered only if the server has registered
\* it, and not one that was stopped before.
THEOREM RegistrationIsAlwaysCurrent == VmsSpec => []RegistrationIsCurrent
<1>1. DeviceInv => RegistrationIsCurrent
  BY DEF DeviceInv, ClientInv
<1> QED
  BY <1>1, DeviceInvariant, PTL

\* cvms_device::init never assigns over a joinable thread or a live context.
THEOREM StartsAreClean == VmsSpec => []StartsClean
<1>1. DeviceInv => StartsClean
  BY DEF DeviceInv, ClientInv
<1> QED
  BY <1>1, DeviceInvariant, PTL

\* A start command never quits the context under the SIP thread.
THEOREM RestartsAreQuiet == VmsSpec => []RestartIsQuiet
<1>1. DeviceInv => RestartIsQuiet
  BY DEF DeviceInv, ClientInv
<1> QED
  BY <1>1, DeviceInvariant, PTL

-----------------------------------------------------------------------------
(* The write pump of a session: PumpInv.                                   *)

\* Appending to the second of two sequences appends to their concatenation.
LEMMA AppendBehindConcat ==
  ASSUME NEW S, NEW s \in Seq(S), NEW t \in Seq(S), NEW e \in S
  PROVE  s \o Append(t, e) = Append(s \o t, e)
<1>1. <<e>> \in Seq(S)
  OBVIOUS
<1>2. s \o t \in Seq(S)
  BY ConcatProperties
<1>3. Append(s \o t, e) = (s \o t) \o <<e>>
  BY <1>2, AppendIsConcat
<1>4. Append(t, e) = t \o <<e>>
  BY AppendIsConcat
<1>5. (s \o t) \o <<e>> = s \o (t \o <<e>>)
  BY <1>1, ConcatAssociative
<1> QED
  BY <1>3, <1>4, <1>5

LEMMA InitPumpInv == PumpInit => PumpInv
<1> SUFFICES ASSUME PumpInit PROVE PumpInv
  OBVIOUS
<1>1. << >> \in Seq(Nat)
  OBVIOUS
<1>2. PumpTypeOK
  BY <1>1 DEF PumpInit, PumpTypeOK
<1>3. OneDriver
  BY DEF PumpInit, OneDriver, SenderDrives, IoDrives
<1>4. NothingHalfSent
  BY DEF PumpInit, NothingHalfSent
<1> QED
  BY <1>2, <1>3, <1>4 DEF PumpInv

\* A completed write leaves sequences of messages behind it, and an empty batch
\* unless there was more than one message in it.
LEMMA WrittenSteps ==
  ASSUME PumpTypeOK, Written
  PROVE  /\ m_sending' \in Seq(Nat) /\ wire' \in Seq(Nat)
         /\ ~MoreInBatch => m_sending' = << >>
<1>1. CASE m_sending = << >>
  BY <1>1 DEF Written, PumpTypeOK
<1>2. CASE m_sending # << >>
  <2>1. wire' = Append(wire, Head(m_sending)) /\ m_sending' = Tail(m_sending)
    BY <1>2 DEF Written
  <2>2. Head(m_sending) \in Nat /\ Tail(m_sending) \in Seq(Nat)
        /\ Len(Tail(m_sending)) = Len(m_sending) - 1
    BY <1>2, HeadTailProperties DEF PumpTypeOK
  <2>3. wire' \in Seq(Nat)
    BY <2>1, <2>2, AppendProperties DEF PumpTypeOK
  <2>4. ~MoreInBatch => Len(Tail(m_sending)) = 0
    BY <1>2, <2>2, EmptySeq DEF MoreInBatch, PumpTypeOK
  <2>5. Len(Tail(m_sending)) = 0 => Tail(m_sending) = << >>
    BY <2>2, EmptySeq
  <2> QED
    BY <2>1, <2>2, <2>3, <2>4, <2>5
<1> QED
  BY <1>1, <1>2

LEMMA StepPumpInv == PumpInv /\ [PumpNext]_pumpVars => PumpInv'
<1> SUFFICES ASSUME PumpInv, [PumpNext]_pumpVars PROVE PumpInv'
  OBVIOUS
<1>0. PumpTypeOK /\ OneDriver /\ NothingHalfSent
  BY DEF PumpInv
<1> SUFFICES PumpTypeOK' /\ OneDriver' /\ NothingHalfSent'
  BY DEF PumpInv
<1>1. CASE PushBack
  <2>1. sent' \in Nat /\ m_send' = Append(m_send, sent')
    BY <1>0, <1>1 DEF PushBack, PumpTypeOK
  <2>2. m_send' \in Seq(Nat) /\ m_send' # << >>
    BY <1>0, <2>1, AppendProperties DEF PumpTypeOK
  <2>3. PumpTypeOK'
    BY <1>0, <1>1, <2>1, <2>2 DEF PushBack, PumpTypeOK
  <2>4. OneDriver'
    BY <1>0, <1>1 DEF PushBack, OneDriver, SenderDrives, IoDrives
  <2>5. NothingHalfSent'
    BY <1>0, <1>1, <2>2 DEF PushBack, NothingHalfSent
  <2> QED
    BY <2>3, <2>4, <2>5
<1>2. CASE CompareExchange
  <2>1. PumpTypeOK'
    BY <1>0, <1>2 DEF CompareExchange, PumpTypeOK
  <2>2. OneDriver'
    BY <1>0, <1>2 DEF CompareExchange, PumpTypeOK, OneDriver, SenderDrives,
       IoDrives
  <2>3. NothingHalfSent'
    BY <1>0, <1>2 DEF CompareExchange, NothingHalfSent
  <2> QED
    BY <2>1, <2>2, <2>3
<1>3. CASE SenderSwap
  <2>1. PumpTypeOK'
    BY <1>0, <1>3 DEF SenderSwap, PumpTypeOK
  <2>2. OneDriver'
    BY <1>0, <1>3 DEF SenderSwap, OneDriver, SenderDrives, IoDrives
  <2>3. NothingHalfSent'
    BY <1>0, <1>3 DEF SenderSwap, NothingHalfSent, OneDriver, SenderDrives,
       IoDrives
  <2> QED
    BY <2>1, <2>2, <2>3
<1>4. CASE SenderWrite
  <2>1. writes = 0 /\ hpc = "idle" /\ m_writeing
    BY <1>0, <1>4 DEF SenderWrite, OneDriver, SenderDrives, IoDrives,
       PumpTypeOK
  <2>2. PumpTypeOK'
    BY <1>0, <1>4, <2>1 DEF SenderWrite, PumpTypeOK
  <2>3. OneDriver'
    BY <1>0, <1>4, <2>1 DEF SenderWrite, OneDriver, SenderDrives, IoDrives
  <2>4. NothingHalfSent'
    BY <1>0, <1>4, <2>1 DEF SenderWrite, NothingHalfSent
  <2> QED
    BY <2>2, <2>3, <2>4
<1>5. CASE WriteNext \/ BatchDone
  <2>1. /\ writes = 1 /\ hpc = "idle" /\ m_writeing /\ ~SenderDrives /\ Written
        /\ UNCHANGED <<m_send, m_writeing, spc, conn, sent>>
    BY <1>0, <1>5 DEF WriteNext, BatchDone, Written, OneDriver,
       IoDrives, PumpTypeOK
  <2>2. /\ m_sending' \in Seq(Nat) /\ wire' \in Seq(Nat)
        /\ BatchDone => m_sending' = << >>
    BY <1>0, <2>1, WrittenSteps DEF BatchDone
  <2>3. PumpTypeOK'
    BY <1>0, <1>5, <2>1, <2>2 DEF WriteNext, BatchDone, PumpTypeOK
  <2>4. OneDriver'
    BY <1>0, <1>5, <2>1 DEF WriteNext, BatchDone, OneDriver, SenderDrives,
       IoDrives
  <2>5. NothingHalfSent'
    BY <1>0, <1>5, <2>1, <2>2 DEF WriteNext, BatchDone, NothingHalfSent,
       SenderDrives
  <2> QED
    BY <2>3, <2>4, <2>5
<1>6. CASE IoSwap
  <2>1. m_writeing /\ ~SenderDrives /\ writes = 0 /\ spc # "won"
    BY <1>0, <1>6 DEF IoSwap, OneDriver, SenderDrives, IoDrives, PumpTypeOK
  <2>2. PumpTypeOK'
    BY <1>0, <1>6, <2>1 DEF IoSwap, PumpTypeOK
  <2>3. OneDriver'
    BY <1>0, <1>6, <2>1 DEF IoSwap, OneDriver, SenderDrives, IoDrives
  <2>4. NothingHalfSent'
    BY <1>0, <1>6, <2>1 DEF IoSwap, NothingHalfSent
  <2> QED
    BY <2>2, <2>3, <2>4
<1>7. CASE LowerWriteing
  <2>1. ~SenderDrives /\ writes = 0 /\ m_sending = << >>
    BY <1>0, <1>7 DEF LowerWriteing, OneDriver, IoDrives, PumpTypeOK,
       NothingHalfSent
  <2>2. PumpTypeOK'
    BY <1>0, <1>7 DEF LowerWriteing, PumpTypeOK
  <2>3. OneDriver'
    BY <1>0, <1>7, <2>1 DEF LowerWriteing, OneDriver, SenderDrives, IoDrives
  <2>4. NothingHalfSent'
    BY <1>0, <1>7, <2>1 DEF LowerWriteing, NothingHalfSent
  <2> QED
    BY <2>2, <2>3, <2>4
<1>8. CASE WriteError
  <2>1. PumpTypeOK'
    BY <1>0, <1>8 DEF WriteError, PumpTypeOK
  <2>2. OneDriver'
    BY <1>0, <1>8 DEF WriteError, PumpTypeOK, OneDriver, SenderDrives, IoDrives
  <2>3. NothingHalfSent'
    BY <1>0, <1>8 DEF WriteError, NothingHalfSent
  <2> QED
    BY <2>1, <2>2, <2>3
<1>9. CASE Lose \/ Remove \/ UNCHANGED pumpVars
  <2>1. PumpTypeOK'
    BY <1>0, <1>9 DEF Lose, Remove, pumpVars, PumpTypeOK
  <2>2. OneDriver'
    BY <1>0, <1>9 DEF Lose, Remove, pumpVars, OneDriver, SenderDrives,
       IoDrives
  <2>3. NothingHalfSent'
    BY <1>0, <1>9 DEF Lose, Remove, pumpVars, NothingHalfSent
  <2> QED
    BY <2>1, <2>2, <2>3
<1> QED
  BY <1>1, <1>2, <1>3, <1>4, <1>5, <1>6, <1>7, <1>8, <1>9 DEF PumpNext, Sender, HandleWrite

\* PumpInv holds of every reachable state of the pump: whoever may touch
\* m_sending or start a write holds m_writeing, and only one of the sender and
\* the io thread does.
THEOREM PumpInvariant == PumpSpec => []PumpInv
<1>1. PumpInit => PumpInv
  BY InitPumpInv
<1>2. PumpInv /\ [PumpNext]_pumpVars => PumpInv'
  BY StepPumpInv
<1> QED
  BY <1>1, <1>2, PTL DEF PumpSpec

\* No two async_write operations are ever pending on one stream.
THEOREM SingleWrite == PumpSpec => []OneWriteAtATime
<1>1. PumpInv => OneWriteAtATime
  BY DEF PumpInv, PumpTypeOK, OneWriteAtATime
<1> QED
  BY <1>1, PumpInvariant, PTL

-----------------------------------------------------------------------------
(* The write pump of a session implements a channel.                       *)

Buffer == IF conn = "open" THEN Pending ELSE << >>

LEMMA PumpInitRefines == PumpInit => Chan!Init
  BY DEF PumpInit, Chan!Init, Pending

\* A completed write takes the oldest pending message to the peer, or, if it
\* was nobody's, changes nothing.
LEMMA WrittenRefines ==
  ASSUME PumpInv, Written
  PROVE  Chan!Receive \/ UNCHANGED <<Buffer, wire, (conn # "open")>>
<1> USE DEF PumpInv, PumpTypeOK
<1>1. CASE m_sending = << >>
  BY <1>1 DEF Written, Buffer, Pending
<1>2. CASE m_sending # << >>
  <2>1. /\ Pending # << >>
        /\ Head(Pending) = Head(m_sending)
        /\ Tail(Pending) = Tail(m_sending) \o m_send
    BY <1>2 DEF Pending
  <2>2. Pending' = Tail(Pending) /\ wire' = Append(wire, Head(Pending))
    BY <1>2, <2>1 DEF Written, Pending
  <2>3. conn = "open" /\ conn' = "open"
    BY DEF Written
  <2> QED
    BY <2>1, <2>2, <2>3 DEF Chan!Receive, Buffer
<1> QED
  BY <1>1, <1>2

\* A message that is sent goes behind all that are pending.
LEMMA PushIsPending ==
  ASSUME PumpInv, PushBack
  PROVE  Pending' = Append(Pending, sent')
<1>1. m_sending \in Seq(Nat) /\ m_send \in Seq(Nat) /\ sent' \in Nat
  BY DEF PumpInv, PumpTypeOK, PushBack, Msgs
<1>2. m_send' = Append(m_send, sent') /\ m_sending' = m_sending
  BY DEF PushBack
<1>3. m_sending \o Append(m_send, sent') = Append(m_sending \o m_send, sent')
  BY <1>1, AppendBehindConcat
<1> QED
  BY <1>2, <1>3 DEF Pending

LEMMA PumpStepRefines ==
  ASSUME PumpInv, PumpInv', [PumpNext]_pumpVars
  PROVE  [Chan!Next]_<<Buffer, wire, (conn # "open")>>
<1> USE DEF PumpInv, PumpTypeOK
<1>1. CASE PushBack
  <2>1. CASE conn = "open"
    <3>1. sent' \in Msgs
      BY <1>1, WsSessionAssumption DEF PushBack, Msgs
    <3>2. Pending' = Append(Pending, sent')
      BY <1>1, PushIsPending
    <3>3. Chan!Send(sent')
      BY <1>1, <2>1, <3>2 DEF PushBack, Chan!Send
    <3> QED
      BY <3>1, <3>3 DEF Chan!Next, Buffer
  <2>2. CASE conn # "open"
    BY <1>1, <2>2 DEF PushBack, Buffer
  <2> QED
    BY <2>1, <2>2
<1>2. CASE SenderSwap
  <2>1. m_sending = << >>
    BY <1>2 DEF SenderSwap, NothingHalfSent
  <2>2. Pending' = Pending
    BY <1>2, <2>1, ConcatEmptySeq DEF SenderSwap, Pending
  <2> QED
    BY <1>2, <2>2 DEF SenderSwap, Buffer
<1>3. CASE IoSwap
  <2>1. m_sending = << >>
    BY <1>3 DEF IoSwap, NothingHalfSent
  <2>2. Pending' = Pending
    BY <1>3, <2>1, ConcatEmptySeq DEF IoSwap, Pending
  <2> QED
    BY <1>3, <2>2 DEF IoSwap, Buffer
<1>4. CASE WriteNext \/ BatchDone
  BY <1>4, WrittenRefines DEF WriteNext, BatchDone, Chan!Next, Buffer
<1>5. CASE CompareExchange \/ SenderWrite \/ LowerWriteing \/ UNCHANGED pumpVars
  BY <1>5 DEF CompareExchange, SenderWrite, LowerWriteing, pumpVars, Buffer,
     Pending
<1>6. CASE WriteError \/ Remove
  BY <1>6 DEF WriteError, Remove, Buffer
<1>7. CASE Lose
  BY <1>7 DEF Lose, Buffer, Chan!Next, Chan!Fail
<1> QED
  BY <1>1, <1>2, <1>3, <1>4, <1>5, <1>6, <1>7 DEF PumpNext, Sender, HandleWrite

\* No message of an open session is lost, repeated or overtaken.
THEOREM PumpImplementsChannel == PumpSpec => ImplementsChannel
<1>1. PumpInit => Chan!Init
  BY PumpInitRefines
<1>2. PumpInv /\ PumpInv' /\ [PumpNext]_pumpVars
        => [Chan!Next]_<<Buffer, wire, (conn # "open")>>
  BY PumpStepRefines
<1> QED
  BY <1>1, <1>2, PumpInvariant, PTL DEF PumpSpec, ImplementsChannel, Chan!Spec, Buffer
=============================================================================
