----------------------------- MODULE WsSession ------------------------------
(***************************************************************************)
(* The write pump of one websocket session                                 *)
(* (common_websocket/cwebsocket_session.cpp).                              *)
(*                                                                         *)
(* Any thread may send: cwebsocket_server_mgr::send_msg holds the session  *)
(* mutex for the whole call, so one program counter, spc, stands for the   *)
(* thread that is in it.  The sender appends to m_send under m_mutex, then *)
(* tries to raise m_writeing; the winner swaps the two lists and starts    *)
(* the write.  The completion handler, on the io thread, goes on with the  *)
(* rest of m_sending, or swaps again, or lowers m_writeing.  It reads      *)
(* m_send.empty() and lowers m_writeing without the mutex.                 *)
(***************************************************************************)
EXTENDS Naturals, Sequences

CONSTANT MaxMsgs        \* bound: messages sent in a behaviour

ASSUME WsSessionAssumption == MaxMsgs \in Nat

VARIABLES
  m_send,      \* m_send_buffer_list
  m_sending,   \* m_sending_buffer_list
  m_writeing,  \* m_writeing_atomic
  spc,         \* the sender: "idle", "pushed", "won" the flag, "swapped"
  hpc,         \* the io thread after a completion: "idle", "swap", "clear"
  writes,      \* async_write operations started and not completed
  conn,        \* "open", "lost", and "removed" once erased from the map
  sent,        \* how many messages have been sent; a message is its number
  wire         \* what has been written to the peer

pumpVars == <<m_send, m_sending, m_writeing, spc, hpc, writes, conn, sent, wire>>

Msgs == 1 .. MaxMsgs

PumpInit == /\ m_send = << >>
            /\ m_sending = << >>
            /\ m_writeing = FALSE
            /\ spc = "idle"
            /\ hpc = "idle"
            /\ writes = 0
            /\ conn = "open"
            /\ sent = 0
            /\ wire = << >>

-----------------------------------------------------------------------------
(* The sender: cwebsocket_session::send_msg.                               *)

\* Mutant of PushBack: the message is put before those that wait.
PushInFront == /\ spc = "idle"
               /\ conn # "removed"
               /\ sent < MaxMsgs
               /\ sent' = sent + 1
               /\ m_send' = << sent' >> \o m_send
               /\ spc' = "pushed"
               /\ UNCHANGED <<m_sending, m_writeing, hpc, writes, conn, wire>>

\* The session is in m_session_map until its _handle_close.
PushBack == /\ spc = "idle"
            /\ conn # "removed"
            /\ sent < MaxMsgs
            /\ sent' = sent + 1
            /\ m_send' = Append(m_send, sent')
            /\ spc' = "pushed"
            /\ UNCHANGED <<m_sending, m_writeing, hpc, writes, conn, wire>>

CompareExchange == /\ spc = "pushed"
                   /\ m_writeing' = TRUE
                   /\ spc' = IF m_writeing THEN "idle" ELSE "won"
                   /\ UNCHANGED <<m_send, m_sending, hpc, writes, conn, sent, wire>>

SenderSwap == /\ spc = "won"
              /\ m_sending' = m_send
              /\ m_send' = m_sending
              /\ spc' = "swapped"
              /\ UNCHANGED <<m_writeing, hpc, writes, conn, sent, wire>>

\* Mutant of SenderWrite: the write is started only for a list of several.
SenderWriteSeveral == /\ spc = "swapped"
                      /\ writes' = IF Len(m_sending) > 1 THEN writes + 1 ELSE writes
                      /\ spc' = "idle"
                      /\ UNCHANGED <<m_send, m_sending, m_writeing, hpc, conn, sent, wire>>

\* The io thread may have taken this message and lowered the flag before this
\* sender raised it: then the list is empty, front() is undefined, and the
\* write that goes out is nobody's message.
SenderWrite == /\ spc = "swapped"
               /\ writes' = writes + 1
               /\ spc' = "idle"
               /\ UNCHANGED <<m_send, m_sending, m_writeing, hpc, conn, sent, wire>>

-----------------------------------------------------------------------------
(* The io thread: cwebsocket_session::_handle_write.                       *)

MoreInBatch == Len(m_sending) > 1

\* A write has completed.  The message leaves m_sending in every branch but
\* the last, which an undefined write alone can reach.
Written == /\ writes > 0
           /\ hpc = "idle"
           /\ conn = "open"
           /\ IF m_sending = << >> THEN UNCHANGED <<wire, m_sending>>
              ELSE /\ wire' = Append(wire, Head(m_sending))
                   /\ m_sending' = Tail(m_sending)
           /\ UNCHANGED <<m_send, m_writeing, spc, conn, sent>>

WriteNext == /\ Written
             /\ MoreInBatch
             /\ UNCHANGED <<hpc, writes>>

\* Mutant of BatchDone: the handler swaps without testing m_send.
BatchDoneSwaps == /\ Written
                  /\ ~MoreInBatch
                  /\ writes' = writes - 1
                  /\ hpc' = IF m_sending # << >> THEN "swap" ELSE "clear"

\* m_send_buffer_list.empty() is read without the mutex.
BatchDone == /\ Written
             /\ ~MoreInBatch
             /\ writes' = writes - 1
             /\ hpc' = IF m_sending # << >> /\ m_send # << >> THEN "swap" ELSE "clear"

IoSwap == /\ hpc = "swap"
          /\ m_sending' = m_send
          /\ m_send' = m_sending
          /\ writes' = writes + 1
          /\ hpc' = "idle"
          /\ UNCHANGED <<m_writeing, spc, conn, sent, wire>>

LowerWriteing == /\ hpc = "clear"
                 /\ m_writeing' = FALSE
                 /\ hpc' = "idle"
                 /\ UNCHANGED <<m_send, m_sending, spc, writes, conn, sent, wire>>

\* A write fails: the batch is dropped and m_writeing stays raised.
WriteError == /\ conn = "lost"
              /\ writes > 0
              /\ hpc = "idle"
              /\ m_sending' = << >>
              /\ writes' = writes - 1
              /\ UNCHANGED <<m_send, m_writeing, spc, hpc, conn, sent, wire>>

\* The peer goes away, or the session is closed: no write succeeds any more.
Lose == /\ conn = "open"
        /\ conn' = "lost"
        /\ UNCHANGED <<m_send, m_sending, m_writeing, spc, hpc, writes, sent, wire>>

\* cwebsocket_server_mgr::_handle_close erases and deletes the session under
\* the mutex a sender holds.  A write still pending then completes on a
\* deleted session: nothing is modelled after that.
Remove == /\ conn = "lost"
          /\ spc = "idle"
          /\ hpc = "idle"
          /\ conn' = "removed"
          /\ UNCHANGED <<m_send, m_sending, m_writeing, spc, hpc, writes, sent, wire>>

-----------------------------------------------------------------------------
Sender == CompareExchange \/ SenderSwap \/ SenderWrite
HandleWrite == WriteNext \/ BatchDone \/ IoSwap \/ LowerWriteing \/ WriteError

PumpNext == PushBack \/ Sender \/ HandleWrite \/ Lose \/ Remove

\* A thread inside send_msg goes on, and so does the io thread; a write of an
\* open connection completes, since the peer reads or the connection is lost.
Fairness == WF_pumpVars(Sender) /\ WF_pumpVars(HandleWrite)

PumpSpec == PumpInit /\ [][PumpNext]_pumpVars
PumpFairSpec == PumpSpec /\ Fairness

-----------------------------------------------------------------------------
(* Properties.                                                             *)

Pending == m_sending \o m_send

\* beast allows one async_write at a time on a stream: the flag m_writeing
\* keeps a sender from starting one while the io thread's chain is going on.
OneWriteAtATime == writes <= 1

\* Who drives the pump: the sender that raised the flag until it has started
\* the write, then the write or its completion handler; nobody drives it while
\* the flag is down, and then nothing is half sent.
SenderDrives == spc \in {"won", "swapped"}
IoDrives == writes = 1 \/ hpc # "idle"

PumpTypeOK == /\ m_send \in Seq(Nat)
              /\ m_sending \in Seq(Nat)
              /\ m_writeing \in BOOLEAN
              /\ spc \in {"idle", "pushed", "won", "swapped"}
              /\ hpc \in {"idle", "swap", "clear"}
              /\ writes \in {0, 1}
              /\ conn \in {"open", "lost", "removed"}
              /\ sent \in Nat
              /\ wire \in Seq(Nat)

OneDriver == /\ SenderDrives => ~IoDrives
             /\ (SenderDrives \/ IoDrives) => m_writeing
             /\ (conn = "open" /\ m_writeing) => (SenderDrives \/ IoDrives)
             /\ writes = 1 => hpc = "idle"

NothingHalfSent == /\ (~m_writeing \/ spc = "won" \/ hpc # "idle") => m_sending = << >>
                   /\ hpc = "swap" => m_send # << >>

PumpInv == PumpTypeOK /\ OneDriver /\ NothingHalfSent

\* The session is a Channel: whatever the interleaving of senders and
\* completions, no message is lost, repeated or overtaken while the connection
\* is open.
Chan == INSTANCE Channel WITH
          Messages <- Msgs,
          buffer <- IF conn = "open" THEN Pending ELSE << >>,
          received <- wire,
          failed <- conn # "open"

ImplementsChannel == Chan!Spec

In(i, seq) == \E k \in DOMAIN seq : seq[k] = i

\* A message taken into m_sending reaches the peer unless the connection fails.
BatchIsWritten ==
  \A i \in Msgs : In(i, m_sending) ~> (In(i, wire) \/ conn # "open")

\* A message that the pump left behind (it was pushed after the handler had
\* read m_send as empty and before m_writeing went down) goes out as soon as
\* any later send raises the flag.
NextSendCarriesTheRest ==
  \A i \in Msgs : (spc = "won" /\ In(i, m_send)) ~> (In(i, wire) \/ conn # "open")
=============================================================================
