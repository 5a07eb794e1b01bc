------------------------------ MODULE WsServer -------------------------------
(***************************************************************************)
(* The websocket server: cwebsocket_server_mgr and the sessions of its io  *)
(* thread, and cwebsocket_wan_server with the main loop's table of them.   *)
(*                                                                         *)
(* The io thread accepts connections, completes their reads, writes and    *)
(* closes, and queues what happens for the main loop, which keeps its own  *)
(* table from these messages alone.  A session may be released more than   *)
(* once, by a read and a write that both fail: the second time its object  *)
(* is gone, and what the handler finds there is undefined.                 *)
(*                                                                         *)
(* A session is named by its id, also where the code has a pointer to it.  *)
(* Its writes are the subject of WsSession; here one is outstanding or not.*)
(***************************************************************************)
EXTENDS Naturals, Sequences

CONSTANTS
  MaxSessions,   \* bound: connections accepted
  Budgets        \* bounds: the combinations of sessions accepted, messages read
                 \* and calls of _handle_close waiting when somebody sends

ASSUME WsServerAssumption ==
  /\ MaxSessions \in Nat
  /\ Budgets \subseteq [sessions : 0 .. MaxSessions, reads : Nat, posted : Nat]

VARIABLES
  m_client_seeesion,  \* the next id
  m_session_map,      \* ids of the sessions whose object exists
  stream,             \* m_ws of each session: "none", "handshake", "open", "closing", "failed"
  reading,            \* sessions with a handshake or read outstanding
  writing,            \* ... a write
  closing,            \* ... a close
  posted,             \* the sessions of the _handle_close calls that were posted
  accepting,          \* an async_accept is outstanding
  acceptor,           \* "open", "closed", "deleted"
  m_shuting,
  stopped,            \* m_io_service.stop() was called
  ipc,                \* io thread: "run", "accepted", "listen", "erase", "exited"
  closeId,            \* session_id of _handle_close
  sender,             \* the session found by a thread that sends and holds
                      \* m_session_mutex, 0 when nobody does
  m_msgs,
  temp,               \* the messages that process_msg has dequeued
  m_wan_session_map,  \* m_session_map of cwebsocket_wan_server
  named,              \* sessions that the main loop has handled a message of
  mpc,                \* main thread: "loop", "close", "delete", "stop", "join", "ended",
                      \* and "down" when undefined behaviour ends the process
  reads               \* messages read so far

operations == <<stream, reading, writing, closing, posted>>
accept == <<accepting, acceptor, m_client_seeesion>>
queue == <<m_msgs, temp, reads>>
table == <<m_wan_session_map, named>>
main == <<mpc, m_shuting, stopped>>
vars == <<operations, accept, queue, table, main, m_session_map, ipc, closeId, sender>>

Ids == 1 .. MaxSessions
Given == 1 .. m_client_seeesion - 1
Within(sessions, messages, waiting) ==
  \E b \in Budgets :
    sessions <= b.sessions /\ messages <= b.reads /\ waiting <= b.posted
Connect(s) == [kind |-> "connect", id |-> s]
Disconnect(s) == [kind |-> "disconnect", id |-> s]
Data(s) == [kind |-> "data", id |-> s]

Init == /\ m_client_seeesion = 1
        /\ m_session_map = {}
        /\ stream = [s \in Ids |-> "none"]
        /\ reading = {} /\ writing = {} /\ closing = {}
        /\ posted = << >>
        /\ accepting = TRUE
        /\ acceptor = "open"
        /\ m_shuting = FALSE /\ stopped = FALSE
        /\ ipc = "run"
        /\ closeId = 0
        /\ sender = 0
        /\ m_msgs = << >> /\ temp = << >>
        /\ m_wan_session_map = {} /\ named = {}
        /\ mpc = "loop"
        /\ reads = 0

Alive == mpc # "down"
Io(from, to) == Alive /\ ipc = from /\ ipc' = to

\* Between two handlers of io_context::run, which dispatches none once stopped.
Ready == Alive /\ ipc = "run" /\ ~stopped

Push(m) == m_msgs' = Append(m_msgs, m)

-----------------------------------------------------------------------------
(* The io thread: _handle_accept and _post_accept.                         *)

\* The session, its message and its handshake, under m_session_mutex.
Accept ==
  LET s == m_client_seeesion IN
  /\ accepting /\ sender = 0
  /\ s \in Ids /\ Within(s, reads, 0)
  /\ Ready /\ ipc' = "accepted"
  /\ accepting' = FALSE
  /\ m_client_seeesion' = s + 1
  /\ m_session_map' = m_session_map \cup {s}
  /\ stream' = [stream EXCEPT ![s] = "handshake"]
  /\ reading' = reading \cup {s}
  /\ Push(Connect(s))
  /\ UNCHANGED <<writing, closing, posted, acceptor, temp, reads, table, main, closeId, sender>>

\* The accept fails, as it does when the acceptor is closed.
AcceptFails == /\ accepting
               /\ Ready /\ ipc' = "accepted"
               /\ accepting' = FALSE
               /\ UNCHANGED <<m_client_seeesion, acceptor, operations, queue, table, main,
                              m_session_map, closeId, sender>>

\* remote_endpoint() throws when the peer has gone: _worker_thread catches it,
\* and nothing accepts any more.
AcceptThrows == /\ accepting
                /\ Ready /\ ipc' = ipc
                /\ accepting' = FALSE
                /\ UNCHANGED <<m_client_seeesion, acceptor, operations, queue, table, main,
                               m_session_map, closeId, sender>>

TestShuting == /\ Io("accepted", IF m_shuting THEN "run" ELSE "listen")
               /\ UNCHANGED <<accept, operations, queue, table, main, m_session_map,
                              closeId, sender>>

\* The main thread may have closed and deleted the acceptor since the test.
PostAccept ==
  /\ Alive /\ ipc = "listen"
  /\ \/ /\ acceptor # "deleted"
        /\ accepting' = (acceptor = "open")
        /\ ipc' = "run"
        /\ UNCHANGED main
     \/ /\ acceptor = "deleted"
        /\ \/ mpc' = "down" /\ UNCHANGED <<ipc, m_shuting, stopped>>
           \/ ipc' = "run" /\ UNCHANGED main
        /\ UNCHANGED accepting
  /\ UNCHANGED <<m_client_seeesion, acceptor, operations, queue, table, m_session_map,
                 closeId, sender>>

-----------------------------------------------------------------------------
(* The io thread: the handlers of a session.                               *)

\* A handler of session s runs, and changes nothing but its operations.
Completes(s) == /\ s \in m_session_map
                /\ Ready /\ ipc' = ipc
                /\ UNCHANGED <<accept, temp, table, main, m_session_map, closeId, sender>>

\* Mutant of Release: a stream that is not open is left alone.
ReleaseOpen(s) == IF stream[s] = "open"
                    THEN /\ stream' = [stream EXCEPT ![s] = "closing"]
                         /\ closing' = closing \cup {s}
                         /\ UNCHANGED posted
                    ELSE /\ stream' = [stream EXCEPT ![s] = "failed"]
                         /\ UNCHANGED <<closing, posted>>

\* _release closes a stream that is_open, and posts _handle_close otherwise.
\* What is_open says of a stream whose operation has failed is left open.
Release(s) == \/ /\ stream[s] = "open"
                 /\ stream' = [stream EXCEPT ![s] = "closing"]
                 /\ closing' = closing \cup {s}
                 /\ UNCHANGED posted
              \/ /\ stream' = [stream EXCEPT ![s] = "failed"]
                 /\ posted' = Append(posted, s)
                 /\ UNCHANGED closing

\* _handle_accept of the session: the first read is started.
HandshakeDone(s) == /\ Completes(s)
                    /\ s \in reading /\ stream[s] = "handshake"
                    /\ stream' = [stream EXCEPT ![s] = "open"]
                    /\ UNCHANGED <<reading, writing, closing, posted, m_msgs, reads>>

\* _handle_read queues a message and starts the next read.
ReadDone(s) == /\ Completes(s)
               /\ s \in reading /\ stream[s] \in {"open", "closing"}
               /\ Within(m_client_seeesion - 1, reads + 1, 0)
               /\ reads' = reads + 1
               /\ Push(Data(s))
               /\ UNCHANGED operations

ReadFails(s) == /\ Completes(s)
                /\ s \in reading
                /\ reading' = reading \ {s}
                /\ Release(s)
                /\ UNCHANGED <<writing, m_msgs, reads>>

WriteDone(s) == /\ Completes(s)
                /\ s \in writing
                /\ writing' = writing \ {s}
                /\ UNCHANGED <<stream, reading, closing, posted, m_msgs, reads>>

WriteFails(s) == /\ Completes(s)
                 /\ s \in writing
                 /\ writing' = writing \ {s}
                 /\ Release(s)
                 /\ UNCHANGED <<reading, m_msgs, reads>>

\* _handle_close of the session.
CloseDone(s) == /\ Completes(s)
                /\ s \in closing
                /\ closing' = closing \ {s}
                /\ posted' = Append(posted, s)
                /\ UNCHANGED <<stream, reading, writing, m_msgs, reads>>

\* The destruction of a stream completes what was outstanding on it, with the
\* handlers of an object that is gone.
FreedCompletes(s) ==
  /\ Ready
  /\ s \notin m_session_map
  /\ s \in reading \cup writing \cup closing
  /\ reading' = reading \ {s} /\ writing' = writing \ {s} /\ closing' = closing \ {s}
  /\ \/ mpc' = "down" /\ UNCHANGED posted
     \/ posted' = Append(posted, s) /\ UNCHANGED mpc
     \/ UNCHANGED <<posted, mpc>>
  /\ UNCHANGED <<stream, accept, queue, table, m_shuting, stopped, m_session_map, ipc,
                 closeId, sender>>

-----------------------------------------------------------------------------
(* The io thread: cwebsocket_server_mgr::_handle_close.                    *)

\* Mutant of HandleClose: the main loop is not told.
HandleCloseQuietly ==
  /\ Ready /\ ipc' = "erase"
  /\ posted # << >>
  /\ posted' = Tail(posted)
  /\ closeId' = Head(posted)
  /\ UNCHANGED <<m_msgs, mpc, stream, reading, writing, closing, accept, temp, reads, table,
                 m_shuting, stopped, m_session_map, sender>>

\* The message is queued first.  If the session's object is gone its id is
\* read from freed memory, which may hold its old id, anything (0), or a newer
\* session, which is then the one that is closed.
HandleClose ==
  /\ Ready
  /\ posted # << >>
  /\ posted' = Tail(posted)
  /\ \/ \E s \in IF Head(posted) \in m_session_map THEN {Head(posted)} ELSE Given \cup {0} :
          /\ closeId' = s
          /\ Push(Disconnect(s))
          /\ ipc' = "erase"
          /\ UNCHANGED mpc
     \/ /\ Head(posted) \notin m_session_map
        /\ mpc' = "down"
        /\ UNCHANGED <<closeId, m_msgs, ipc>>
  /\ UNCHANGED <<stream, reading, writing, closing, accept, temp, reads, table,
                 m_shuting, stopped, m_session_map, sender>>

\* Under m_session_mutex; the session is deleted if it was in the map.
Erase == /\ sender = 0
         /\ Io("erase", "run")
         /\ m_session_map' = m_session_map \ {closeId}
         /\ closeId' = 0
         /\ UNCHANGED <<operations, accept, queue, table, main, sender>>

\* io_context::run returns when it was stopped, or has nothing to wait for.
IoExits == /\ \/ stopped
              \/ /\ ~accepting /\ posted = << >>
                 /\ reading \cup writing \cup closing = {}
           /\ Io("run", "exited")
           /\ UNCHANGED <<accept, operations, queue, table, main, m_session_map,
                          closeId, sender>>

-----------------------------------------------------------------------------
(* Threads that send: the main loop and the workers of stitches.           *)

\* send_msg takes m_session_mutex and finds the session; its id is one that
\* the main loop has had a message of.
Find(s) == /\ Alive /\ mpc # "ended"
           /\ sender = 0 /\ Within(m_client_seeesion - 1, reads, Len(posted))
           /\ s \in named \cap m_session_map
           /\ sender' = s
           /\ UNCHANGED <<accept, operations, queue, table, main, m_session_map, ipc, closeId>>

\* The session starts a write unless it has one outstanding.
Send == /\ Alive /\ sender # 0
        /\ writing' = writing \cup {sender}
        /\ sender' = 0
        /\ UNCHANGED <<stream, reading, closing, posted, accept, queue, table, main,
                       m_session_map, ipc, closeId>>

\* destroy has deleted the server, while the workers of stitches still send.
SendToDestroyed == /\ mpc = "ended" /\ m_wan_session_map # {}
                   /\ mpc' = "down"
                   /\ UNCHANGED <<accept, operations, queue, table, m_shuting, stopped,
                                  m_session_map, ipc, closeId, sender>>

-----------------------------------------------------------------------------
(* The main loop: process_msg and the callbacks.                           *)

Dequeue == /\ mpc = "loop" /\ temp = << >>
           /\ temp' = m_msgs
           /\ m_msgs' = << >>
           /\ UNCHANGED <<reads, accept, operations, table, main, m_session_map,
                          ipc, closeId, sender>>

Takes(kind) == /\ mpc = "loop" /\ temp # << >>
               /\ Head(temp).kind = kind
               /\ temp' = Tail(temp)
               /\ UNCHANGED <<m_msgs, reads, accept, operations, main, m_session_map,
                              ipc, closeId, sender>>

OnConnect == /\ Takes("connect")
             /\ m_wan_session_map' = m_wan_session_map \cup {Head(temp).id}
             /\ UNCHANGED named

\* handler_msg notes the session's id if it can read the message.
OnMsgReceive == /\ Takes("data")
                /\ named' \in {named, named \cup (m_wan_session_map \cap {Head(temp).id})}
                /\ UNCHANGED m_wan_session_map

\* A session that is not in the table is left out.
OnDisconnect == /\ Takes("disconnect")
                /\ m_wan_session_map' = m_wan_session_map \ {Head(temp).id}
                /\ UNCHANGED named

-----------------------------------------------------------------------------
(* The main thread after its loop: shutdown.                               *)

Goes(from, to) == /\ mpc = from /\ mpc' = to
                  /\ UNCHANGED <<operations, queue, table, m_session_map, ipc, closeId, sender,
                                 accepting, m_client_seeesion>>

StoreShuting == /\ Goes("loop", "close")
                /\ temp = << >>
                /\ m_shuting' = TRUE
                /\ UNCHANGED <<acceptor, stopped>>

CloseAcceptor == /\ Goes("close", "delete")
                 /\ acceptor' = "closed"
                 /\ UNCHANGED <<m_shuting, stopped>>

DeleteAcceptor == /\ Goes("delete", "stop")
                  /\ acceptor' = "deleted"
                  /\ UNCHANGED <<m_shuting, stopped>>

\* Mutant of StopIo: the io thread is left to run out of work.
StopNothing == /\ Goes("stop", "join")
               /\ UNCHANGED <<acceptor, m_shuting, stopped>>

StopIo == /\ Goes("stop", "join")
          /\ stopped' = TRUE
          /\ UNCHANGED <<acceptor, m_shuting>>

Join == /\ ipc = "exited"
        /\ Goes("join", "ended")
        /\ UNCHANGED <<acceptor, m_shuting, stopped>>

-----------------------------------------------------------------------------
Closing == HandleClose \/ Erase \/ IoExits
Completion == \E s \in Ids : \/ HandshakeDone(s) \/ ReadDone(s) \/ ReadFails(s)
                             \/ WriteDone(s) \/ WriteFails(s) \/ CloseDone(s)
                             \/ FreedCompletes(s)
IoThread == \/ Accept \/ AcceptFails \/ AcceptThrows \/ TestShuting \/ PostAccept
            \/ Completion \/ Closing
Senders == Send \/ SendToDestroyed \/ \E s \in Ids : Find(s)
Update == Dequeue \/ OnConnect \/ OnMsgReceive \/ OnDisconnect
Shutdown == StoreShuting \/ CloseAcceptor \/ DeleteAcceptor \/ StopIo \/ Join

Next == IoThread \/ Senders \/ Update \/ Shutdown

Spec == Init /\ [][Next]_vars

\* The main loop goes on, and through its shutdown once that has begun, and a
\* thread that sends leaves the lock.  The io thread goes on with its handlers,
\* and comes to each that is ready: io_context takes them in their order, and
\* the threads that send do not take the lock again at once.  No connection,
\* message or failure need come.
FairSpec == /\ Spec
            /\ WF_vars(TestShuting) /\ WF_vars(PostAccept) /\ WF_vars(IoExits)
            /\ SF_vars(HandleClose) /\ SF_vars(Erase)
            /\ \A s \in Ids : SF_vars(CloseDone(s))
            /\ WF_vars(Send) /\ WF_vars(Update)
            /\ WF_vars(CloseAcceptor \/ DeleteAcceptor \/ StopIo \/ Join)

-----------------------------------------------------------------------------
(* Properties.                                                             *)

\* What process_msg will still handle, oldest first.
Queued == temp \o m_msgs

\* The sessions of `known` and of the first n messages in q that no later one of
\* these n disconnects.
TableAfter(known, q, n) ==
  {s \in Ids :
     \/ \E k \in 1 .. n : q[k] = Connect(s) /\ \A j \in k .. n : q[j] # Disconnect(s)
     \/ s \in known /\ \A j \in 1 .. n : q[j] # Disconnect(s)}

\* Only a disconnection may be of session 0, which HandleClose reads from freed
\* memory.
Messages == {m \in [kind : {"connect", "disconnect", "data"}, id : Given \cup {0}] :
               m.id = 0 => m.kind = "disconnect"}

TypeOK == /\ m_client_seeesion \in 1 .. MaxSessions + 1
          /\ m_session_map \subseteq Given
          /\ stream \in [Ids -> {"none", "handshake", "open", "closing", "failed"}]
          /\ reading \subseteq Given /\ writing \subseteq Given /\ closing \subseteq Given
          /\ posted \in Seq(Given)
          /\ ipc \in {"run", "accepted", "listen", "erase", "exited"}
          /\ closeId \in Given \cup {0}
          /\ sender \in Given \cup {0}
          /\ m_wan_session_map \subseteq Given /\ named \subseteq Given
          /\ mpc \in {"loop", "close", "delete", "stop", "join", "ended", "down"}
          /\ reads \in Nat
          /\ m_msgs \in Seq(Messages) /\ temp \in Seq(Messages)

\* The main loop keeps its table from messages alone: once it has handled all
\* that are queued, it has just the sessions that exist, less the one that the
\* io thread is about to erase, however often and wrongly sessions are closed.
TablesAgree ==
  TableAfter(m_wan_session_map, Queued, Len(Queued)) =
    m_session_map \ (IF ipc = "erase" THEN {closeId} ELSE {})

\* on_msg_receive finds the session of every message: it comes behind the
\* connection of its session and before the first disconnection of it.
MessagesFindTheirSession ==
  \A k \in DOMAIN Queued :
    Queued[k].kind = "data"
      => Queued[k].id \in TableAfter(m_wan_session_map, Queued, k - 1)

\* A thread that sends holds a session that exists until it lets go of the lock.
SendersHoldLiveSessions == sender # 0 => sender \in m_session_map

\* What holds of the two tables, the messages between them and the senders,
\* whatever order accepts, failures, closes and sends come in.
ServerInv ==
  TypeOK /\ TablesAgree /\ MessagesFindTheirSession /\ SendersHoldLiveSessions

\* A session that failed or was closed leaves both tables, unless the process
\* shuts down.
GoneSessionsLeave ==
  \A s \in Ids :
    (stream[s] \in {"closing", "failed"}) ~>
      (s \notin m_session_map \cup m_wan_session_map \/ mpc # "loop")

\* shutdown returns: the io thread has nothing to wait for once it is stopped.
ShutdownReturns == m_shuting ~> mpc \in {"ended", "down"}
=============================================================================
