----------------------------- MODULE VmsDevice ------------------------------
(***************************************************************************)
(* The client of the video management server (cvms_device.cpp) and the     *)
(* commands that start and stop it (cglobal_vms_server_config_mgr.cpp).    *)
(*                                                                         *)
(* The main loop starts and stops the client, sends heartbeats and rewrites*)
(* the list of channels when the registry is saved.  A thread waits for SIP*)
(* events and handles them: it learns that the client is registered, gives *)
(* up when a registration gets no answer, and answers catalog queries from *)
(* the list.  m_stoped, m_is_register and the pointer to the SIP context   *)
(* are shared without a lock, and destroy quits the context before it joins*)
(* the thread.                                                             *)
(***************************************************************************)
EXTENDS Naturals, Sequences, FiniteSets

CONSTANTS
  Channels,      \* channels, each named by the score that orders the list
  MaxClients    \* bound: contexts opened in a behaviour

ASSUME VmsDeviceAssumption ==
  /\ Channels \subseteq Nat /\ IsFiniteSet(Channels)
  /\ MaxClients \in Nat

VARIABLES
  m_stoped,
  m_is_register,
  context,     \* what m_vms_context_ptr points to: "none" (NULL), "live", "quit"
  vpc,         \* the main thread: "tick", "saving", "init", "stop",
               \* "unregister", "quit", "clear", "join", "ended", and
               \* "down" when an undefined use of the context ends the process
  then,        \* where the main thread goes on when the client is destroyed
  wpc,         \* the SIP thread: "none" (not joinable), "test", "wait",
               \* "success", "silent", "giveup", "request", "exited"
  session,     \* how many clients have been started
  granted,     \* the client that the server last registered
  saved,       \* the channels of the registry when it was last saved
  todo,        \* those of them that are not in the list yet
  deviceList,  \* m_device_all_channel_info_map
  catalog      \* the list that the last catalog sent was made from

mainVars == <<vpc, then>>
client == <<m_stoped, m_is_register, context, session, granted>>
lists == <<saved, todo, deviceList>>
vmsVars == <<m_stoped, m_is_register, context, vpc, then, wpc, session, granted,
             saved, todo, deviceList, catalog>>

\* push_back and all_device_channel_sort: the list is sorted before.
Insert(list, c) ==
  LET before == {i \in DOMAIN list : list[i] < c}
  IN  [i \in 1 .. Len(list) + 1 |->
         IF i \in before THEN list[i]
         ELSE IF i - 1 \in before \cup {0} THEN c ELSE list[i - 1]]

Listed(list) == {list[i] : i \in DOMAIN list}
Sorted(list) == \A i, j \in DOMAIN list : i < j => list[i] < list[j]

\* The registry that was read fills the list, and cvideo_split_server::Loop
\* starts the client before its first tick.
VmsInit == /\ m_stoped = TRUE
           /\ m_is_register = FALSE
           /\ context = "none"
           /\ vpc = "stop"
           /\ then = "init"
           /\ wpc = "none"
           /\ session = 0
           /\ granted = 0
           /\ saved \in SUBSET Channels
           /\ todo = {}
           /\ deviceList \in {s \in [1 .. Cardinality(saved) -> saved] :
                                Sorted(s) /\ Listed(s) = saved}
           /\ catalog = << >>

-----------------------------------------------------------------------------
(* Commands: handler_web_cmd_vms_server.                                   *)

Destroy(next) == vpc' = "stop" /\ then' = next

\* Mutant of StartCommand: what the last client left is not destroyed.
StartDirectly == /\ vpc = "tick"
                 /\ m_stoped
                 /\ vpc' = "init"
                 /\ then' = "init"
                 /\ UNCHANGED <<wpc, client, lists, catalog>>

\* A client that has stopped, by command or by itself, is destroyed before
\* the next one is made; a start is refused while one runs.
StartCommand == /\ vpc = "tick"
                /\ m_stoped
                /\ Destroy("init")
                /\ UNCHANGED <<wpc, client, lists, catalog>>

StopCommand == /\ vpc = "tick"
               /\ Destroy("tick")
               /\ UNCHANGED <<wpc, client, lists, catalog>>

\* cvideo_split_server::Destroy.
ShutdownCommand == /\ vpc = "tick"
                   /\ Destroy("ended")
                   /\ UNCHANGED <<wpc, client, lists, catalog>>

-----------------------------------------------------------------------------
(* cvms_device::stop and destroy, which stores both flags again: the flags, *)
(* the context, the join.                                                  *)

\* Mutant of StoreStoped: the flag is left to the thread.
StoreNothing == /\ vpc = "stop"
                /\ vpc' = "unregister"
                /\ UNCHANGED <<then, wpc, client, lists, catalog>>

StoreStoped == /\ vpc = "stop"
               /\ m_stoped' = TRUE
               /\ vpc' = "unregister"
               /\ UNCHANGED <<m_is_register, context, then, wpc, session, granted, lists, catalog>>

Unregister == /\ vpc = "unregister"
              /\ m_is_register' = FALSE
              /\ vpc' = "quit"
              /\ UNCHANGED <<m_stoped, context, then, wpc, session, granted, lists, catalog>>

\* eXosip_quit frees the context; the pointer still points to it.
Quit == /\ vpc = "quit"
        /\ context' = IF context = "none" THEN "none" ELSE "quit"
        /\ vpc' = "clear"
        /\ UNCHANGED <<m_stoped, m_is_register, then, wpc, session, granted, lists, catalog>>

ClearPointer == /\ vpc = "clear"
                /\ context' = "none"
                /\ vpc' = "join"
                /\ UNCHANGED <<m_stoped, m_is_register, then, wpc, session, granted, lists, catalog>>

JoinThread == /\ vpc = "join"
              /\ wpc \in {"none", "exited"}
              /\ wpc' = "none"
              /\ vpc' = then
              /\ UNCHANGED <<then, client, lists, catalog>>

-----------------------------------------------------------------------------
(* cvms_device::init.                                                      *)

\* The register request has been sent and the thread is started.
Start == /\ vpc = "init"
         /\ session < MaxClients
         /\ session' = session + 1
         /\ context' = "live"
         /\ m_stoped' = FALSE
         /\ wpc' = "test"
         /\ vpc' = "tick"
         /\ UNCHANGED <<m_is_register, then, granted, lists, catalog>>

\* A call of the SIP library fails: without a context, or with one that the
\* next destroy will quit.
StartFails == /\ vpc = "init"
              /\ context' \in {"none", "live"}
              /\ vpc' = "tick"
              /\ UNCHANGED <<m_stoped, m_is_register, then, wpc, session, granted, lists, catalog>>

-----------------------------------------------------------------------------
(* The tick of the main loop.                                              *)

\* update sends the catalog with every heartbeat, registered or not.
Heartbeat == /\ vpc = "tick"
             /\ ~m_stoped
             /\ catalog' = deviceList
             /\ UNCHANGED <<mainVars, wpc, client, lists>>

\* Mutant of BeginSave: clear_all_device_infos is not called.
BeginSaveKeeps(registered) == /\ vpc = "tick"
                              /\ saved' = registered
                              /\ todo' = registered
                              /\ vpc' = "saving"
                              /\ UNCHANGED <<deviceList, then, wpc, client, catalog>>

\* cvideo_split_info_mgr::_sync_save_video_split_data clears the list ...
BeginSave(registered) == /\ vpc = "tick"
                         /\ saved' = registered
                         /\ todo' = registered
                         /\ deviceList' = << >>
                         /\ vpc' = "saving"
                         /\ UNCHANGED <<then, wpc, client, catalog>>

\* ... and gives the channels back one by one, the lock released in between.
SaveChannel(c) == /\ vpc = "saving"
                  /\ c \in todo
                  /\ todo' = todo \ {c}
                  /\ deviceList' = Insert(deviceList, c)
                  /\ UNCHANGED <<saved, mainVars, wpc, client, catalog>>

EndSave == /\ vpc = "saving"
           /\ todo = {}
           /\ vpc' = "tick"
           /\ UNCHANGED <<then, wpc, client, lists, catalog>>

-----------------------------------------------------------------------------
(* The SIP thread: _pthread_work and the handlers that do more than log.   *)

Running == vpc # "down"
SipGoes(from, to) == Running /\ wpc = from /\ wpc' = to
Elsewhere == <<mainVars, session, lists>>

TestStoped == /\ SipGoes("test", IF m_stoped THEN "exited" ELSE "wait")
              /\ UNCHANGED <<client, Elsewhere, catalog>>

\* eXosip_event_wait: an event that the code handles, or none to handle.
WaitForEvent(to) == /\ context = "live"
                    /\ SipGoes("wait", to)
                    /\ UNCHANGED <<client, Elsewhere, catalog>>

\* The context was quit, or the pointer cleared, by a destroy that has not
\* joined this thread yet: its use is undefined.
UseQuitContext == /\ Running
                  /\ wpc \in {"wait", "request"}
                  /\ context # "live"
                  /\ \/ vpc' = "down" /\ UNCHANGED wpc
                     \/ wpc' = "test" /\ UNCHANGED vpc
                  /\ UNCHANGED <<client, then, session, lists, catalog>>

\* _handler_vms_registeration_success.
Registered == /\ SipGoes("success", "test")
              /\ m_is_register' = TRUE
              /\ granted' = session
              /\ UNCHANGED <<m_stoped, context, Elsewhere, catalog>>

\* _handler_vms_registeration_failure without a response.
NoResponse == /\ SipGoes("silent", "giveup")
              /\ m_is_register' = FALSE
              /\ UNCHANGED <<m_stoped, context, granted, Elsewhere, catalog>>

GiveUp == /\ SipGoes("giveup", "test")
          /\ m_stoped' = TRUE
          /\ UNCHANGED <<m_is_register, context, granted, Elsewhere, catalog>>

\* _handler_vms_message_new answers a query, and the failure handler a 401,
\* through the context; a catalog query copies the list.
Answer == /\ context = "live"
          /\ SipGoes("request", "test")
          /\ catalog' \in {catalog, deviceList}
          /\ UNCHANGED <<client, Elsewhere>>

-----------------------------------------------------------------------------
Command == StartCommand \/ StopCommand \/ ShutdownCommand
Stopping == StoreStoped \/ Unregister \/ Quit \/ ClearPointer \/ JoinThread
Tick == \/ Heartbeat \/ EndSave
        \/ \E registered \in SUBSET Channels : BeginSave(registered)
        \/ \E c \in Channels : SaveChannel(c)
Main == Command \/ Stopping \/ Start \/ StartFails \/ Tick

Sip == \/ TestStoped \/ UseQuitContext \/ Registered \/ NoResponse \/ GiveUp \/ Answer
       \/ \E to \in {"test", "success", "silent", "request"} : WaitForEvent(to)

VmsNext == Main \/ Sip

VmsSpec == VmsInit /\ [][VmsNext]_vmsVars

\* destroy and init go on until they return, and so does the SIP thread, whose
\* wait ends after 100 milliseconds at the latest.
VmsFairSpec == VmsSpec /\ WF_vmsVars(Stopping \/ StartFails) /\ WF_vmsVars(Sip)

-----------------------------------------------------------------------------
(* Properties.                                                             *)

VmsTypeOK == /\ m_stoped \in BOOLEAN
             /\ m_is_register \in BOOLEAN
             /\ context \in {"none", "live", "quit"}
             /\ vpc \in {"tick", "saving", "init", "stop", "unregister", "quit",
                         "clear", "join", "ended", "down"}
             /\ then \in {"tick", "init", "ended"}
             /\ wpc \in {"none", "test", "wait", "success", "silent", "giveup",
                         "request", "exited"}
             /\ session \in 0 .. MaxClients
             /\ granted \in 0 .. MaxClients

\* The SIP thread uses neither the context nor the flags any more.
Quiet == wpc \in {"none", "test", "exited"}

Destroying == vpc \in {"stop", "unregister", "quit", "clear", "join"}

\* A client that runs counts as registered only if the server has registered
\* it: a late event of its predecessor never makes it so, although both flags
\* are shared without a lock.
RegistrationIsCurrent == (m_is_register /\ ~m_stoped) => granted = session

\* init assigns a std::thread that is not joinable and a pointer whose context
\* has been quit, whatever ended the client before it.
StartsClean == vpc = "init" => (wpc = "none" /\ context = "none")

\* A start command destroys a client whose thread has left its handlers: only
\* a stop or a shutdown can quit the context under the thread.
RestartIsQuiet == (Destroying /\ then = "init") => (m_stoped /\ Quiet)

\* The inductive invariant of the client.
ClientInv ==
  /\ VmsTypeOK
  /\ RegistrationIsCurrent
  /\ StartsClean
  /\ RestartIsQuiet
  /\ vpc = "init" => (m_stoped /\ ~m_is_register)
  /\ (vpc \in {"tick", "saving"} /\ m_stoped) => Quiet
  /\ vpc \in {"unregister", "quit", "clear", "join"} => m_stoped
  /\ (vpc \in {"quit", "clear", "join"} /\ then = "init") => ~m_is_register
  /\ vpc = "join" => context = "none"
  /\ vpc = "ended" => wpc = "none"

\* The inductive invariant of the lists: in order, none twice, and all that
\* were saved but those that a save has not come to.
ListInv ==
  /\ saved \subseteq Channels /\ todo \subseteq saved
  /\ deviceList \in Seq(Channels) /\ Sorted(deviceList)
  /\ Listed(deviceList) = saved \ todo
  /\ vpc \notin {"saving", "down"} => todo = {}

\* Both threads use the client and the lists as the code relies on, whatever
\* order commands, saves and SIP events come in.
DeviceInv == ClientInv /\ ListInv

\* A catalog sent while no save is going on lists the channels that were last
\* saved, in order; one that the SIP thread sends during a save lists some of
\* them, none twice and none that was removed.
CatalogsAreCurrent ==
  [][catalog' # catalog =>
       /\ Sorted(catalog')
       /\ Listed(catalog') \subseteq saved
       /\ vpc # "saving" => Listed(catalog') = saved]_vmsVars

\* A command on the client ends, unless the process does first.
CommandsReturn == vpc = "stop" ~> vpc \in {"tick", "ended", "down"}
=============================================================================
