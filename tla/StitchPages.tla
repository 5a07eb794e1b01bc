----------------------------- MODULE StitchPages -----------------------------
(***************************************************************************)
(* The pages that make and change a stitch: SplicInfos.js ("add") and      *)
(* Modify.js ("modify"), with one channel of the server behind them.  A    *)
(* page fills two selects from asynchronous answers, in whatever order     *)
(* they come; its OK button sends an asynchronous stop, a synchronous      *)
(* modification and, when that was accepted, an asynchronous start, on     *)
(* connections of their own: the server may take them in another order.    *)
(*                                                                         *)
(* While the synchronous request is out the page runs nothing.  The server *)
(* is what cvideo_split_info_mgr.cpp and cvideo_split_mgr.cpp make of the  *)
(* three requests for one channel; VideoSplit models it in full.           *)
(***************************************************************************)
EXTENDS Integers, Sequences, SequencesExt

CONSTANTS
  CameraList,     \* the ids in the server's answer, in its order
  Occurs,         \* <<a, b>>: the text of id a occurs in the text of id b
  Stored0,        \* the cameras of the channel the modify page opens
  Unset,          \* a select without options
  Nothing,        \* no synchronous request is out
  NotRunning,     \* the stitch does not run
  MaxActs, MaxLosses  \* bounds: buttons and selections, lost messages

Panels == {1, 2}
Cameras == ToSet(CameraList)
NoCamera == -1                    \* the option "please select"
Outcomes == {"pending", "ok", "refused"}
Groups == UNION {[S -> Cameras \cup {NoCamera}] : S \in SUBSET Panels}
Posts == [kind : {"group", "osd"}, group : Groups, result : Outcomes]

ASSUME CameraAssumption ==
  /\ CameraList \in Seq(Nat \ {0}) /\ Len(CameraList) >= 2
  /\ \A i, j \in 1..Len(CameraList) : i # j => CameraList[i] # CameraList[j]
  /\ Stored0 \in [Panels -> Cameras] /\ Stored0[1] # Stored0[2]
  /\ Occurs \subseteq Cameras \X Cameras
ASSUME ValueAssumption ==
  /\ Unset \notin Int /\ Nothing \notin Posts /\ NotRunning \notin [Panels -> Cameras]
  /\ MaxActs \in Nat /\ MaxLosses \in Nat

VARIABLES
  page,         \* "add" or "modify"
  awaits,       \* what is still to come: "tiles", "cameras", "load"
  tiles,        \* tileArray: the channel's cameras are known
  cameras,      \* cameras: the list is known
  select,       \* select[p]: the value of videoName1, videoName2
  shown,        \* shown[p]: the camera whose url panel p plays, or 0
  skipped,      \* panels whose container has data-state "false"
  size,         \* pj_width and pj_height are filled
  address,      \* playAdd is filled
  player,       \* document.player plays the stitch
  gets,         \* stop and start requests, oldest first: [cmd, served]
  post,         \* the synchronous request: none, or [kind, group, result]
  \* The server.
  known,        \* the channel is registered
  stored,       \* its cameras
  runs,         \* the cameras of the running stitch, or NotRunning
  taken,        \* another channel has the address
  \* History and counters.
  early,        \* the cameras came before the tiles, or the tiles never
  hasty,        \* the user selected a camera before the page had loaded
  unselected,   \* in the last change that was stored a panel said "please select"
  accepted,     \* the last change was accepted
  orderly,      \* since the last change the server took requests as sent
  emptied,      \* the user emptied the address
  clicks, selects, losses

formVars == <<tiles, cameras, select, shown, skipped, early, hasty, selects>>
viewVars == <<size, address, player, emptied>>
serverVars == <<known, stored, runs, unselected>>
netVars == <<gets, post, accepted, orderly, clicks, losses>>
vars == <<page, awaits, formVars, viewVars, serverVars, netVars, taken>>

\* What the pages ask for when they open.
InitData == {"cameras"}
InitDataModify == {"tiles", "cameras", "load"}

NoGroup == [p \in Panels |-> 0]

Init ==
  /\ page \in {"add", "modify"} /\ taken \in BOOLEAN
  /\ awaits = IF page = "add" THEN InitData ELSE InitDataModify
  /\ tiles = FALSE /\ cameras = FALSE
  /\ select = [p \in Panels |-> Unset]
  /\ shown = [p \in Panels |-> 0]
  /\ skipped = {} /\ size = FALSE /\ address = TRUE
  /\ player = (page = "modify")
  /\ gets = << >> /\ post = Nothing
  /\ known = (page = "modify")
  /\ stored = IF known THEN Stored0 ELSE NoGroup
  /\ runs \in IF known THEN {Stored0, NotRunning} ELSE {NotRunning}
  /\ early = FALSE /\ hasty = FALSE /\ unselected = FALSE
  /\ accepted = FALSE /\ orderly = TRUE /\ emptied = FALSE
  /\ clicks = 0 /\ selects = 0 /\ losses = 0

Blocked == post # Nothing

-----------------------------------------------------------------------------
(* Loading the page. *)

\* ChangeVideoNmae looks the camera up.  The add page takes the id for an
\* index; the modify page compares a number with the select's text and falls
\* back to the first camera.  0: there is no such element, the handler throws.
CameraAt(i) == IF i + 1 \in 1..Len(CameraList) THEN CameraList[i + 1] ELSE 0
PlayedFor(id) == IF page = "add" THEN CameraAt(id) ELSE CameraAt(0)

\* Mutant of LoadTileVideo: the panels are exchanged.
LoadTileSwapped(t) == [p \in Panels |-> t[3 - p]]

\* LoadTileVideo: the stored cameras, panel by panel.
LoadTileVideo(t) == t

\* LoadVideo of the add page: the first two cameras, one for each panel.
ProposeCameras == [p \in Panels |-> CameraList[p]]

\* sendGetTileAjax: the channel's cameras arrive; the panels are left alone.
TilesArrive ==
  /\ "tiles" \in awaits /\ ~Blocked
  /\ awaits' = awaits \ {"tiles"} /\ tiles' = TRUE /\ size' = TRUE
  /\ UNCHANGED <<page, cameras, select, shown, skipped, early, hasty, selects, address,
                 player, emptied, serverVars, netVars, taken>>

\* LoadVideo: the add page proposes the first two cameras and shows none; the
\* modify page selects and plays the stored ones if it has them.
CamerasArrive ==
  /\ "cameras" \in awaits /\ ~Blocked
  /\ awaits' = awaits \ {"cameras"} /\ cameras' = TRUE
  /\ early' = (early \/ "tiles" \in awaits)
  /\ select' = CASE page = "add" -> ProposeCameras
                 [] page = "modify" /\ tiles -> LoadTileVideo(Stored0)
                 [] OTHER -> [p \in Panels |-> NoCamera]
  /\ shown' = IF tiles THEN LoadTileVideo(Stored0) ELSE shown
  /\ skipped' = IF tiles THEN {} ELSE skipped
  /\ UNCHANGED <<page, tiles, hasty, selects, viewVars, serverVars, netVars, taken>>

\* window.onload of the modify page: loadJS clears containers 0 and 1, and
\* there is no container 0.
PageLoads ==
  /\ "load" \in awaits /\ ~Blocked
  /\ awaits' = awaits \ {"load"}
  /\ skipped' = skipped \cup {1}
  /\ UNCHANGED <<page, tiles, cameras, select, shown, early, hasty, selects, viewVars,
                 serverVars, netVars, taken>>

\* The error callbacks only log.
AnswerLost(what) ==
  /\ what \in awaits \ {"load"} /\ ~Blocked /\ losses < MaxLosses
  /\ awaits' = awaits \ {what} /\ losses' = losses + 1
  /\ early' = (early \/ what = "tiles")
  /\ UNCHANGED <<page, tiles, cameras, select, shown, skipped, hasty, selects, viewVars,
                 serverVars, gets, post, accepted, orderly, clicks, taken>>

SelectCamera(p, id) ==
  /\ cameras /\ ~Blocked /\ clicks + selects < MaxActs
  /\ selects' = selects + 1
  /\ select' = [select EXCEPT ![p] = id]
  /\ shown' = [shown EXCEPT ![p] = PlayedFor(id)]
  /\ skipped' = skipped \ {p}
  /\ hasty' = (hasty \/ "load" \in awaits)
  /\ UNCHANGED <<page, awaits, tiles, cameras, early, viewVars, serverVars, netVars,
                 taken>>

\* The user empties the address (once, a bound) and types one again.
EmptyAddress ==
  /\ ~Blocked /\ address /\ ~emptied /\ address' = FALSE /\ emptied' = TRUE
  /\ UNCHANGED <<page, awaits, formVars, size, player, serverVars, netVars, taken>>

TypeAddress ==
  /\ ~Blocked /\ ~address /\ address' = TRUE
  /\ UNCHANGED <<page, awaits, formVars, size, player, emptied, serverVars,
                 netVars, taken>>

-----------------------------------------------------------------------------
(* The buttons. *)

\* Mutant of JudgeCamID: repeated cameras pass.
JudgeNothing(a, b) == TRUE

\* JudgeCamID looks for the second id in the text of the first: two selects
\* without options are refused too, two that say "please select" are not.
JudgeCamID(a, b) ==
  /\ a = NoCamera \/ a # b
  /\ <<b, a>> \notin Occurs

\* The add page sends both panels, the modify page those that have data-state
\* and do not say "please select".
SentPanels ==
  IF page = "add" THEN Panels ELSE {p \in Panels \ skipped : select[p] \in Cameras}

videoMsg == [p \in SentPanels |-> select[p]]

Get(cmd) == [cmd |-> cmd, served |-> FALSE]
AllServed == \A i \in 1..Len(gets) : gets[i].served

\* Mutant of StopFirst: the running stitch is left to the server.
NoStopFirst == gets' = gets

\* restart_video_split(1).
StopFirst == gets' = Append(gets, Get("stop"))

Send(kind, group) ==
  /\ clicks + selects < MaxActs /\ clicks' = clicks + 1
  /\ StopFirst
  /\ post' = [kind |-> kind, group |-> group, result |-> "pending"]
  /\ accepted' = FALSE /\ orderly' = AllServed
  /\ player' = (player /\ page = "add")      \* the modify page stops its player
  /\ UNCHANGED <<page, awaits, formVars, size, address, emptied, serverVars,
                 taken, losses>>

\* BtnOkClick and send_video_split.
BtnOkClick ==
  /\ ~Blocked /\ address
  /\ JudgeCamID(select[1], select[2])
  /\ Send("group", videoMsg)

\* SendOSD and send_osd: only when the size of the stitch is known.
SendOSD == ~Blocked /\ size /\ Send("osd", << >>)

\* The answer of the synchronous request.  After a refusal nothing starts
\* the stitch again that was stopped for it.
PostAnswered ==
  /\ Blocked /\ post.result \in {"ok", "refused"}
  /\ post' = Nothing
  /\ size' = (size \/ post.result = "ok")
  /\ gets' = IF post.result = "ok" THEN Append(gets, Get("start")) ELSE gets
  /\ accepted' = (post.result = "ok")
  /\ UNCHANGED <<page, awaits, formVars, address, player, emptied, serverVars,
                 taken, orderly, clicks, losses>>

\* There is no error callback: the page goes on as if nothing had been sent.
PostLost ==
  /\ Blocked /\ losses < MaxLosses
  /\ post' = Nothing /\ losses' = losses + 1
  /\ UNCHANGED <<page, awaits, formVars, viewVars, serverVars, taken, gets,
                 accepted, orderly, clicks>>

\* Mutant of PlaysOn: the answer to a start does not play.
NeverPlays(cmd) == FALSE

\* restart_video_split(0): whatever the server answered, playVideo, which
\* reads the address now.
PlaysOn(cmd) == cmd = "start" /\ address

GetAnswered(i) ==
  /\ ~Blocked /\ i \in 1..Len(gets) /\ gets[i].served
  /\ gets' = RemoveAt(gets, i)
  /\ player' = (player \/ PlaysOn(gets[i].cmd))
  /\ UNCHANGED <<page, awaits, formVars, size, address, emptied, serverVars,
                 taken, post, accepted, orderly, clicks, losses>>

GetLost(i) ==
  /\ ~Blocked /\ i \in 1..Len(gets) /\ losses < MaxLosses
  /\ gets' = RemoveAt(gets, i)
  /\ orderly' = (orderly /\ gets[i].served) /\ losses' = losses + 1
  /\ UNCHANGED <<page, awaits, formVars, viewVars, serverVars, taken, post,
                 accepted, clicks>>

-----------------------------------------------------------------------------
(* The server. *)

\* Cameras are merged by index; an unknown channel is added.
Merged(group) ==
  [p \in Panels |-> IF p \in DOMAIN group THEN group[p] ELSE stored[p]]

\* Mutant of Acceptable: "please select" is stored like a camera.
AcceptsNoCamera(group) == ~taken

\* An entry without a camera is refused, and an address that is taken; a group
\* may lack panels, or have none.
Acceptable(group) == ~taken /\ \A p \in DOMAIN group : group[p] \in Cameras

ServePost ==
  /\ Blocked /\ post.result = "pending"
  /\ LET ok == IF post.kind = "osd" THEN known ELSE Acceptable(post.group)
         stores == ok /\ post.kind = "group"
     IN  /\ post' = [post EXCEPT !.result = IF ok THEN "ok" ELSE "refused"]
         /\ known' = (known \/ ok)
         /\ stored' = IF stores THEN Merged(post.group) ELSE stored
         /\ unselected' = IF stores THEN \E p \in Panels : select[p] = NoCamera
                          ELSE unselected
  /\ orderly' = (orderly /\ AllServed)
  /\ UNCHANGED <<page, awaits, formVars, viewVars, taken, runs, gets, accepted,
                 clicks, losses>>

\* handler_web_cmd_video_split: a stitch that runs is not started again.
ServeGet(i) ==
  /\ i \in 1..Len(gets) /\ ~gets[i].served
  /\ gets' = [gets EXCEPT ![i].served = TRUE]
  /\ runs' = CASE gets[i].cmd = "stop" -> NotRunning
               [] gets[i].cmd = "start" /\ known /\ runs = NotRunning -> stored
               [] OTHER -> runs
  /\ orderly' = (orderly /\ \A j \in 1..(i - 1) : gets[j].served)
  /\ UNCHANGED <<page, awaits, formVars, viewVars, taken, known, stored, unselected,
                 post, accepted, clicks, losses>>

-----------------------------------------------------------------------------
MaxGets == 2 * MaxActs

Load ==
  \/ TilesArrive \/ CamerasArrive \/ PageLoads
  \/ \E what \in {"tiles", "cameras"} : AnswerLost(what)

User ==
  \/ \E p \in Panels, id \in Cameras \cup {NoCamera} : SelectCamera(p, id)
  \/ EmptyAddress \/ TypeAddress \/ BtnOkClick \/ SendOSD

Answers ==
  \/ PostAnswered \/ PostLost
  \/ \E i \in 1..MaxGets : GetAnswered(i) \/ GetLost(i)

Server == ServePost \/ \E i \in 1..MaxGets : ServeGet(i)

Next == Load \/ User \/ Answers \/ Server

\* Browser and server take the requests and answers they are given.
Fairness ==
  /\ WF_vars(ServePost) /\ WF_vars(PostAnswered)
  /\ WF_vars(\E i \in 1..MaxGets : ServeGet(i))
  /\ WF_vars(\E i \in 1..MaxGets : GetAnswered(i))

Spec == Init /\ [][Next]_vars /\ Fairness

-----------------------------------------------------------------------------
(* Properties. *)

\* The values of the form, the requests and the channel.
TypeOK ==
  /\ page \in {"add", "modify"} /\ awaits \subseteq {"tiles", "cameras", "load"}
  /\ select \in [Panels -> Cameras \cup {NoCamera, Unset}]
  /\ shown \in [Panels -> Cameras \cup {0}]
  /\ skipped \subseteq Panels
  /\ {tiles, cameras, size, address, player, known, taken, early, hasty, unselected,
      accepted, orderly, emptied} \subseteq BOOLEAN
  /\ gets \in Seq([cmd : {"stop", "start"}, served : BOOLEAN])
  /\ Len(gets) <= 2 * clicks /\ (Blocked => Len(gets) < 2 * clicks)
  /\ {clicks, selects, losses} \subseteq Nat /\ clicks + selects <= MaxActs
  /\ post \in Posts \cup {Nothing}
  /\ stored \in [Panels -> Cameras \cup {0}]
  /\ known => stored \in [Panels -> Cameras]
  /\ runs \in [Panels -> Cameras] \cup {NotRunning}

\* Once a change has been accepted and all its requests were served in the
\* order they were sent, the stitch runs, with the cameras that are stored:
\* no start meets the old stitch, no stop ends the new one.
RunsWhatIsStored ==
  accepted /\ orderly /\ AllServed /\ post = Nothing => runs = stored

\* A change that is stored stores what the form says: the channel has the camera
\* of every panel that names one, sent or left out, unless the user selected
\* before the page had loaded (videoMsg, the merge by index).
StoresTheForm ==
  Blocked /\ post.kind = "group" /\ post.result = "ok" /\ ~hasty =>
    \A p \in Panels : select[p] \in Cameras => stored[p] = select[p]

\* No channel has the same camera twice (JudgeCamID), whatever the order of the
\* answers, when both panels named a camera in the last change that was stored
\* and the user waited for the page to load.
CamerasDiffer == known /\ ~hasty /\ ~unselected => stored[1] # stored[2]

\* "No repeated cameras!", say both pages.
NoRepeatedCamera == known => stored[1] # stored[2]

\* With the tiles there first, the modify page selects and plays what the
\* channel has, until the user selects something else.
ShowsTheChannel ==
  page = "modify" /\ cameras /\ ~early /\ selects = 0
    => select = Stored0 /\ shown = Stored0

\* An accepted change is played in the end, unless a message is lost, the
\* user empties the address or makes another change.
AcceptedIsPlayed ==
  (accepted /\ losses = 0 /\ ~emptied)
    ~> (player \/ ~accepted \/ losses > 0 \/ emptied)

-----------------------------------------------------------------------------
(* The inductive invariant. *)

\* The selects are filled when the cameras are known.  If the user waited for the
\* load, panel 1 has its first camera, selected and stored, or says "please
\* select", whenever its data-state keeps it out of a change or may still do so.
FormKept ==
  /\ IF cameras THEN select \in [Panels -> Cameras \cup {NoCamera}]
     ELSE select = [p \in Panels |-> Unset]
  /\ skipped \subseteq {1}
  /\ page = "modify" => known
  /\ page = "add" => awaits \subseteq {"cameras"}
  /\ page = "modify" /\ ~early => "tiles" \in awaits \/ tiles
  /\ page = "modify" /\ "load" \in awaits => skipped = {}
  /\ page = "modify" /\ ~hasty /\ ("load" \in awaits \/ 1 \in skipped) =>
       /\ stored[1] = Stored0[1]
       /\ cameras => select[1] \in {Stored0[1], NoCamera}

\* While the synchronous request is out the form stays what was judged.
PostIsForm ==
  Blocked /\ post.kind = "group" =>
    post.group = videoMsg /\ JudgeCamID(select[1], select[2])

\* At most one request is not served, and it is a start.
OneStart(s) ==
  \A i, j \in 1..Len(s) :
    s[i].served \/ s[j].served \/ (i = j /\ s[i].cmd = "start")

\* Requests that are served in order: first the stop, then the change, then
\* the start.
InOrder ==
  /\ accepted => ~Blocked /\ known
  /\ Blocked /\ post.result = "ok" => known
  /\ orderly /\ Blocked =>
       /\ AllServed => runs = NotRunning
       /\ \A i \in 1..Len(gets) : gets[i].served \/ gets[i].cmd = "stop"
       /\ post.result # "pending" => AllServed
  /\ orderly /\ accepted =>
       /\ IF AllServed THEN runs = stored ELSE runs = NotRunning
       /\ OneStart(gets)

\* The properties above and what makes them inductive.
PagesInv ==
  /\ TypeOK /\ FormKept /\ PostIsForm /\ InOrder
  /\ StoresTheForm /\ CamerasDiffer /\ ShowsTheChannel
=============================================================================
