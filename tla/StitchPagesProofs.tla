------------------------- MODULE StitchPagesProofs -------------------------
(***************************************************************************)
(* For any list of cameras and any number of clicks, selections and lost   *)
(* messages: PagesInv is an invariant of the stitch pages, so the stitch   *)
(* runs what was accepted, the channel stores what the form says, no       *)
(* camera twice, and the form shows the channel, in the cases these        *)
(* properties name.                                                        *)
(***************************************************************************)
EXTENDS StitchPages, SequenceTheorems, TLAPS

Request == [cmd : {"stop", "start"}, served : BOOLEAN]

-----------------------------------------------------------------------------
(* The list of requests. *)

\* A request that is sent is the last of the list.
LEMMA SentIsLast ==
  ASSUME NEW s \in Seq(Request), NEW e \in Request
  PROVE  /\ Append(s, e) \in Seq(Request) /\ Len(Append(s, e)) = Len(s) + 1
         /\ \A i \in 1..Len(s) : Append(s, e)[i] = s[i]
         /\ Append(s, e)[Len(s) + 1] = e
OBVIOUS

\* A request that is served stays in its place.
LEMMA ServedStays ==
  ASSUME NEW s \in Seq(Request), NEW i \in 1..Len(s)
  PROVE  LET t == [s EXCEPT ![i].served = TRUE]
         IN  /\ t \in Seq(Request) /\ Len(t) = Len(s)
             /\ \A j \in 1..Len(s) : t[j].cmd = s[j].cmd
             /\ \A j \in 1..Len(s) : t[j].served <=> (j = i \/ s[j].served)
<1> DEFINE t == [s EXCEPT ![i].served = TRUE]
           e == [s[i] EXCEPT !.served = TRUE]
<1>1. s[i] \in Request
  OBVIOUS
<1>2. e \in Request /\ e.cmd = s[i].cmd /\ e.served
  BY <1>1 DEF Request
<1>3. t = [s EXCEPT ![i] = e]
  OBVIOUS
<1> HIDE DEF e, t
<1>4. t \in Seq(Request) /\ Len(t) = Len(s)
  BY <1>2, <1>3
<1>5. \A j \in 1..Len(s) : t[j] = IF j = i THEN e ELSE s[j]
  BY <1>3
<1>6. \A j \in 1..Len(s) : t[j].cmd = s[j].cmd
  BY <1>2, <1>5
<1>7. \A j \in 1..Len(s) : t[j].served <=> (j = i \/ s[j].served)
  BY <1>2, <1>5
<1> QED
  BY <1>4, <1>6, <1>7 DEF t

\* A request that is answered leaves the others in their order.
LEMMA AnsweredLeaves ==
  ASSUME NEW s \in Seq(Request), NEW i \in 1..Len(s)
  PROVE  /\ RemoveAt(s, i) \in Seq(Request) /\ Len(RemoveAt(s, i)) = Len(s) - 1
         /\ \A j \in 1..(Len(s) - 1) :
              RemoveAt(s, i)[j] = IF j < i THEN s[j] ELSE s[j + 1]
<1> DEFINE a == SubSeq(s, 1, i - 1)
           b == SubSeq(s, i + 1, Len(s))
<1>1. a \in Seq(Request) /\ Len(a) = i - 1 /\ \A j \in 1..(i - 1) : a[j] = s[j]
  BY SubSeqProperties
<1>2. b \in Seq(Request) /\ Len(b) = Len(s) - i
        /\ \A j \in 1..(Len(s) - i) : b[j] = s[i + j]
  BY SubSeqProperties
<1>3. RemoveAt(s, i) = a \o b
  BY DEF RemoveAt
<1> HIDE DEF a, b
<1>4. a \o b \in Seq(Request) /\ Len(a \o b) = Len(s) - 1
  <2>1. a \o b \in Seq(Request) /\ Len(a \o b) = Len(a) + Len(b)
    BY <1>1, <1>2, ConcatProperties
  <2>2. Len(s) \in Nat
    OBVIOUS
  <2> QED
    BY <2>1, <2>2, <1>1, <1>2
<1>5. \A j \in 1..(Len(s) - 1) : (a \o b)[j] = IF j < i THEN s[j] ELSE s[j + 1]
  <2> TAKE j \in 1..(Len(s) - 1)
  <2>1. (a \o b)[j] = IF j <= Len(a) THEN a[j] ELSE b[j - Len(a)]
    BY <1>1, <1>2, ConcatProperties
  <2> QED
    BY <2>1, <1>1, <1>2
<1> QED
  BY <1>3, <1>4, <1>5

-----------------------------------------------------------------------------
(* Cameras. *)

\* Every value of a select that is not filled is told from the others.
LEMMA CameraFacts ==
  /\ Cameras \subseteq Nat \ {0} /\ NoCamera \notin Cameras /\ NoCamera # Unset
  /\ Unset \notin Cameras /\ Panels = {1, 2}
  /\ Stored0 \in [Panels -> Cameras] /\ Stored0[1] # Stored0[2]
  /\ \A i \in 1..Len(CameraList) : CameraList[i] \in Cameras
<1>1. /\ \A i \in 1..Len(CameraList) : CameraList[i] \in Cameras
      /\ \A c \in Cameras : c \in Nat \ {0}
  BY CameraAssumption DEF Cameras, ToSet
<1> QED
  BY <1>1, CameraAssumption, ValueAssumption DEF NoCamera, Panels

LEMMA PlayedIsCamera ==
  ASSUME NEW id \in Cameras \cup {NoCamera} PROVE PlayedFor(id) \in Cameras \cup {0}
<1>1. id \in Int
  BY CameraFacts DEF NoCamera
<1> QED
  BY <1>1, CameraFacts DEF PlayedFor, CameraAt

LEMMA InitPagesInv == Init => PagesInv
<1> SUFFICES ASSUME Init PROVE PagesInv
  OBVIOUS
<1> USE CameraFacts DEF Init
<1>1. TypeOK
  <2>1. gets \in Seq(Request) /\ Len(gets) = 0
    OBVIOUS
  <2>2. stored \in [Panels -> Cameras \cup {0}] /\ (known => stored \in [Panels -> Cameras])
    BY DEF NoGroup
  <2>3. runs \in [Panels -> Cameras] \cup {NotRunning}
    OBVIOUS
  <2>4. awaits \subseteq {"tiles", "cameras", "load"}
    BY DEF InitData, InitDataModify
  <2>5. /\ Len(gets) <= 2 * clicks /\ ~Blocked /\ clicks + selects <= MaxActs
        /\ {clicks, selects, losses} \subseteq Nat
    BY <2>1, ValueAssumption DEF Blocked
  <2>6. {tiles, cameras, size, address, player, known, taken, early, hasty,
         unselected, accepted, orderly, emptied} \subseteq BOOLEAN
    OBVIOUS
  <2>7. /\ page \in {"add", "modify"} /\ skipped \subseteq Panels
        /\ select \in [Panels -> Cameras \cup {NoCamera, Unset}]
        /\ shown \in [Panels -> Cameras \cup {0}]
        /\ post \in Posts \cup {Nothing}
    OBVIOUS
  <2> HIDE DEF Init
  <2> QED
    BY <2>1, <2>2, <2>3, <2>4, <2>5, <2>6, <2>7 DEF TypeOK, Request
<1>2. FormKept
  BY DEF FormKept, InitData, InitDataModify
<1>3. PostIsForm
  BY DEF PostIsForm, Blocked
<1>4. InOrder
  BY DEF InOrder, Blocked
<1>5. StoresTheForm /\ CamerasDiffer /\ ShowsTheChannel
  BY DEF StoresTheForm, CamerasDiffer, ShowsTheChannel
<1> QED
  BY <1>1, <1>2, <1>3, <1>4, <1>5 DEF PagesInv

-----------------------------------------------------------------------------
(* The form: answers arrive, the user selects. *)

LEMMA TilesArriveKeepsInv == ASSUME PagesInv, TilesArrive PROVE PagesInv'
<1> USE DEF PagesInv, TilesArrive, serverVars, netVars, Blocked
<1>1. TypeOK'
  BY DEF TypeOK
<1>2. FormKept'
  BY DEF FormKept
<1>3. PostIsForm' /\ InOrder'
  BY DEF PostIsForm, InOrder, AllServed, OneStart
<1>4. StoresTheForm' /\ CamerasDiffer' /\ ShowsTheChannel'
  BY DEF StoresTheForm, CamerasDiffer, ShowsTheChannel
<1> QED
  BY <1>1, <1>2, <1>3, <1>4

\* With the tiles there the stored cameras are selected, and only then is the
\* order of the answers kept.
LEMMA CamerasArriveKeepsInv == ASSUME PagesInv, CamerasArrive PROVE PagesInv'
<1> USE CameraFacts DEF PagesInv, CamerasArrive, viewVars, serverVars, netVars, Blocked
<1>1. select' \in [Panels -> Cameras \cup {NoCamera}] /\ shown' \in [Panels -> Cameras \cup {0}]
  <2>1. ProposeCameras \in [Panels -> Cameras]
    BY CameraAssumption DEF ProposeCameras
  <2>2. select' \in {ProposeCameras, Stored0, [p \in Panels |-> NoCamera]}
    BY DEF TypeOK, LoadTileVideo
  <2>3. shown' \in {Stored0, shown}
    BY DEF LoadTileVideo
  <2> QED
    BY <2>1, <2>2, <2>3 DEF TypeOK
<1>2. page' = "modify" =>
        IF tiles THEN select' = Stored0 /\ shown' = Stored0
        ELSE select' = [p \in Panels |-> NoCamera] /\ skipped' = skipped /\ early'
  BY DEF TypeOK, FormKept, LoadTileVideo
<1>3. TypeOK'
  BY <1>1 DEF TypeOK
<1>4. FormKept'
  <2>1. page' = "modify" => select'[1] \in {Stored0[1], NoCamera}
    BY <1>2
  <2>2. /\ skipped' \in {{}, skipped} /\ cameras'
        /\ awaits' \subseteq awaits /\ ("load" \in awaits' <=> "load" \in awaits)
    OBVIOUS
  <2> QED
    BY <1>1, <1>2, <2>1, <2>2 DEF TypeOK, FormKept
<1>5. PostIsForm' /\ InOrder'
  BY DEF PostIsForm, InOrder, AllServed, OneStart
<1>6. StoresTheForm' /\ CamerasDiffer' /\ ShowsTheChannel'
  BY <1>2 DEF StoresTheForm, CamerasDiffer, ShowsTheChannel, TypeOK
<1> QED
  BY <1>3, <1>4, <1>5, <1>6

LEMMA PageLoadsKeepsInv == ASSUME PagesInv, PageLoads PROVE PagesInv'
<1> USE DEF PagesInv, PageLoads, viewVars, serverVars, netVars, Blocked
<1>1. TypeOK'
  BY CameraFacts DEF TypeOK
<1>2. FormKept'
  BY DEF FormKept, TypeOK
<1>3. PostIsForm' /\ InOrder'
  BY DEF PostIsForm, InOrder, AllServed, OneStart
<1>4. StoresTheForm' /\ CamerasDiffer' /\ ShowsTheChannel'
  BY DEF StoresTheForm, CamerasDiffer, ShowsTheChannel
<1> QED
  BY <1>1, <1>2, <1>3, <1>4

LEMMA AnswerLostKeepsInv == ASSUME PagesInv, NEW w, AnswerLost(w) PROVE PagesInv'
<1> USE DEF PagesInv, AnswerLost, viewVars, serverVars, Blocked
<1>1. TypeOK'
  BY DEF TypeOK
<1>2. FormKept'
  BY DEF FormKept, TypeOK
<1>3. PostIsForm' /\ InOrder'
  BY DEF PostIsForm, InOrder, AllServed, OneStart
<1>4. StoresTheForm' /\ CamerasDiffer' /\ ShowsTheChannel'
  BY DEF StoresTheForm, CamerasDiffer, ShowsTheChannel, TypeOK
<1> QED
  BY <1>1, <1>2, <1>3, <1>4

LEMMA SelectCameraKeepsInv ==
  ASSUME PagesInv, NEW p \in Panels, NEW id \in Cameras \cup {NoCamera},
         SelectCamera(p, id)
  PROVE  PagesInv'
<1> USE CameraFacts DEF PagesInv, SelectCamera, viewVars, serverVars, netVars, Blocked
<1>1. TypeOK'
  <2>1. select' \in [Panels -> Cameras \cup {NoCamera, Unset}]
    BY DEF TypeOK
  <2>2. shown' \in [Panels -> Cameras \cup {0}]
    BY PlayedIsCamera DEF TypeOK
  <2>3. selects' \in Nat /\ clicks' + selects' <= MaxActs
    BY ValueAssumption DEF TypeOK
  <2>4. skipped' \subseteq Panels /\ early' \in BOOLEAN /\ ~Blocked'
    BY DEF TypeOK
  <2> QED
    BY <2>1, <2>2, <2>3, <2>4 DEF TypeOK
<1>2. FormKept'
  <2>1. select' \in [Panels -> Cameras \cup {NoCamera}] /\ cameras
    BY DEF FormKept
  <2>2. p = 1 => 1 \notin skipped'
    OBVIOUS
  <2>3. p # 1 => select'[1] = select[1]
    BY DEF TypeOK
  <2> QED
    BY <2>1, <2>2, <2>3 DEF FormKept, TypeOK
<1>3. PostIsForm' /\ InOrder'
  BY DEF PostIsForm, InOrder, AllServed, OneStart
<1>4. StoresTheForm' /\ CamerasDiffer' /\ ShowsTheChannel'
  BY DEF StoresTheForm, CamerasDiffer, ShowsTheChannel, TypeOK
<1> QED
  BY <1>1, <1>2, <1>3, <1>4

LEMMA AddressKeepsInv == ASSUME PagesInv, EmptyAddress \/ TypeAddress PROVE PagesInv'
<1>1. /\ address' \in BOOLEAN /\ emptied' \in BOOLEAN /\ ~Blocked /\ ~Blocked'
      /\ UNCHANGED <<page, awaits, tiles, cameras, select, shown, skipped, early, hasty,
                     selects, size, player, known, stored, unselected, runs, gets, post,
                     accepted, orderly, clicks, losses, taken>>
  BY DEF PagesInv, TypeOK, EmptyAddress, TypeAddress, formVars, serverVars, netVars,
         Blocked
<1>2. TypeOK'
  BY <1>1 DEF PagesInv, TypeOK
<1>3. FormKept'
  BY <1>1 DEF PagesInv, FormKept
<1>4. PostIsForm' /\ InOrder'
  BY <1>1 DEF PagesInv, PostIsForm, InOrder, AllServed, OneStart
<1>5. StoresTheForm' /\ CamerasDiffer' /\ ShowsTheChannel'
  BY <1>1 DEF PagesInv, StoresTheForm, CamerasDiffer, ShowsTheChannel
<1> QED
  BY <1>2, <1>3, <1>4, <1>5 DEF PagesInv

-----------------------------------------------------------------------------
(* The buttons and their answers. *)

\* The selects that pass the check have been filled.
LEMMA JudgedIsFilled ==
  ASSUME TypeOK, FormKept, JudgeCamID(select[1], select[2])
  PROVE  cameras /\ select \in [Panels -> Cameras \cup {NoCamera}]
<1>1. cameras
  <2> SUFFICES ASSUME ~cameras PROVE FALSE
    OBVIOUS
  <2>1. select[1] = Unset /\ select[2] = Unset
    BY CameraFacts DEF FormKept
  <2> QED
    BY <2>1, CameraFacts DEF JudgeCamID
<1> QED
  BY <1>1 DEF FormKept

\* A new change: the stop is the last request and not served yet.
LEMMA SendKeepsInv ==
  ASSUME PagesInv, NEW kind \in {"group", "osd"}, NEW group \in Groups, ~Blocked,
         Send(kind, group),
         kind = "group" => group = videoMsg /\ JudgeCamID(select[1], select[2])
  PROVE  PagesInv'
<1> DEFINE e == Get("stop")
<1>1. /\ gets \in Seq(Request) /\ clicks \in Nat /\ selects \in Nat
      /\ Len(gets) \in Nat /\ Len(gets) <= 2 * clicks
  BY DEF PagesInv, TypeOK, Request
<1>2. e \in Request /\ e.cmd = "stop" /\ ~e.served
  BY DEF Get, Request
<1>3. /\ gets' = Append(gets, e) /\ clicks' = clicks + 1
      /\ clicks + selects < MaxActs /\ (accepted' <=> FALSE) /\ accepted' \in BOOLEAN
      /\ (orderly' <=> AllServed) /\ orderly' \in BOOLEAN
      /\ player' \in BOOLEAN
      /\ UNCHANGED <<page, awaits, tiles, cameras, select, shown, skipped, early, hasty,
                     selects, size, address, emptied, known, stored, unselected, runs,
                     taken, losses>>
  BY DEF Send, StopFirst, formVars, serverVars, PagesInv, TypeOK, AllServed
<1>4. post' \in Posts /\ post'.kind = kind /\ post'.group = group /\ post'.result = "pending"
  BY DEF Send, Posts, Outcomes
<1>5. Blocked'
  BY <1>4, ValueAssumption DEF Blocked
<1> HIDE DEF e
<1>6. /\ gets' \in Seq(Request) /\ Len(gets') = Len(gets) + 1
      /\ \A i \in 1..Len(gets) : gets'[i] = gets[i]
      /\ gets'[Len(gets) + 1] = e
  BY <1>1, <1>2, <1>3, SentIsLast
<1>7. TypeOK'
  <2>1. /\ Len(gets') < 2 * clicks' /\ clicks' \in Nat
        /\ clicks' + selects' <= MaxActs
    BY <1>1, <1>3, <1>6, ValueAssumption
  <2>2. /\ {tiles, cameras, size, address, player, known, taken, early, hasty,
            unselected, accepted, orderly, emptied}' \subseteq BOOLEAN
        /\ {clicks, selects, losses}' \subseteq Nat
    BY <1>3, <2>1 DEF PagesInv, TypeOK
  <2> QED
    BY <1>3, <1>4, <1>6, <2>1, <2>2 DEF PagesInv, TypeOK, Request
<1>8. FormKept'
  BY <1>3 DEF PagesInv, FormKept
<1>9. PostIsForm'
  BY <1>3, <1>4 DEF PostIsForm, videoMsg, SentPanels
<1>10. InOrder'
  <2>1. ~AllServed'
    BY <1>1, <1>2, <1>6 DEF AllServed
  <2>2. orderly' => \A i \in 1..Len(gets') : gets'[i].served \/ gets'[i].cmd = "stop"
    BY <1>1, <1>2, <1>3, <1>6 DEF AllServed
  <2> QED
    BY <1>3, <1>4, <2>1, <2>2 DEF InOrder
<1>11. StoresTheForm' /\ CamerasDiffer' /\ ShowsTheChannel'
  BY <1>3, <1>4 DEF PagesInv, StoresTheForm, CamerasDiffer, ShowsTheChannel
<1> QED
  BY <1>7, <1>8, <1>9, <1>10, <1>11 DEF PagesInv

LEMMA BtnOkClickKeepsInv == ASSUME PagesInv, BtnOkClick PROVE PagesInv'
<1>1. select \in [Panels -> Cameras \cup {NoCamera}]
  BY JudgedIsFilled DEF BtnOkClick, PagesInv
<1>2. videoMsg \in Groups
  <2>1. SentPanels \in SUBSET Panels
    BY DEF SentPanels
  <2>2. videoMsg \in [SentPanels -> Cameras \cup {NoCamera}]
    BY <1>1, <2>1 DEF videoMsg
  <2> QED
    BY <2>1, <2>2 DEF Groups
<1> QED
  BY <1>2, SendKeepsInv DEF BtnOkClick

LEMMA SendOSDKeepsInv == ASSUME PagesInv, SendOSD PROVE PagesInv'
<1>1. << >> \in Groups
  <2>1. << >> \in [{} -> Cameras \cup {NoCamera}]
    OBVIOUS
  <2>2. {} \in SUBSET Panels
    OBVIOUS
  <2> QED
    BY <2>1, <2>2 DEF Groups
<1> QED
  BY <1>1, SendKeepsInv DEF SendOSD

\* The synchronous answer; a start that follows it is the only request that is
\* not served.
LEMMA PostAnsweredKeepsInv == ASSUME PagesInv, PostAnswered PROVE PagesInv'
<1> DEFINE e == Get("start")
           ok == post.result = "ok"
<1>1. /\ gets \in Seq(Request) /\ clicks \in Nat /\ Blocked
      /\ Len(gets) \in Nat /\ Len(gets) < 2 * clicks
  BY DEF PagesInv, TypeOK, Request, PostAnswered
<1>2. e \in Request /\ e.cmd = "start" /\ ~e.served
  BY DEF Get, Request
<1>3. /\ gets' = IF ok THEN Append(gets, e) ELSE gets
      /\ (accepted' <=> ok) /\ accepted' \in BOOLEAN /\ size' \in BOOLEAN
      /\ post.result # "pending"
      /\ UNCHANGED <<page, awaits, tiles, cameras, select, shown, skipped, early, hasty,
                     selects, address, player, emptied, known, stored, unselected, runs,
                     taken, orderly, clicks, losses>>
  BY DEF PostAnswered, formVars, serverVars, PagesInv, TypeOK
<1>4. post' = Nothing /\ ~Blocked'
  BY DEF PostAnswered, Blocked
<1> HIDE DEF e
<1>5. /\ gets' \in Seq(Request) /\ Len(gets') = Len(gets) + (IF ok THEN 1 ELSE 0)
      /\ \A i \in 1..Len(gets) : gets'[i] = gets[i]
      /\ ok => gets'[Len(gets) + 1] = e
  BY <1>1, <1>2, <1>3, SentIsLast
<1>6. TypeOK'
  <2>1. Len(gets') <= 2 * clicks'
    BY <1>1, <1>3, <1>5
  <2>2. {tiles, cameras, size, address, player, known, taken, early, hasty,
         unselected, accepted, orderly, emptied}' \subseteq BOOLEAN
    BY <1>3 DEF PagesInv, TypeOK
  <2> QED
    BY <1>3, <1>4, <1>5, <2>1, <2>2 DEF PagesInv, TypeOK, Request
<1>7. FormKept' /\ PostIsForm'
  BY <1>3, <1>4 DEF PagesInv, FormKept, PostIsForm
<1>8. InOrder'
  <2>1. ok => known
    BY <1>1 DEF PagesInv, InOrder
  <2>2. orderly => AllServed /\ runs = NotRunning
    BY <1>1, <1>3 DEF PagesInv, InOrder
  <2>3. ok => ~AllServed'
    BY <1>1, <1>2, <1>5 DEF AllServed
  <2>4. ok /\ AllServed => OneStart(gets)'
    BY <1>1, <1>2, <1>5 DEF AllServed, OneStart
  <2> QED
    BY <1>3, <1>4, <2>1, <2>2, <2>3, <2>4 DEF InOrder
<1>9. StoresTheForm' /\ CamerasDiffer' /\ ShowsTheChannel'
  BY <1>3, <1>4 DEF PagesInv, StoresTheForm, CamerasDiffer, ShowsTheChannel
<1> QED
  BY <1>6, <1>7, <1>8, <1>9 DEF PagesInv

LEMMA PostLostKeepsInv == ASSUME PagesInv, PostLost PROVE PagesInv'
<1>1. /\ Blocked /\ post' = Nothing /\ ~Blocked' /\ ~accepted /\ losses' \in Nat
      /\ UNCHANGED <<page, awaits, tiles, cameras, select, shown, skipped, early, hasty,
                     selects, size, address, player, emptied, known, stored, unselected,
                     runs, taken, gets, accepted, orderly, clicks>>
  BY DEF PostLost, formVars, viewVars, serverVars, Blocked, PagesInv, TypeOK, InOrder
<1>2. TypeOK'
  BY <1>1 DEF PagesInv, TypeOK
<1>3. FormKept' /\ PostIsForm'
  BY <1>1 DEF PagesInv, FormKept, PostIsForm
<1>4. InOrder'
  BY <1>1 DEF InOrder
<1>5. StoresTheForm' /\ CamerasDiffer' /\ ShowsTheChannel'
  BY <1>1 DEF PagesInv, StoresTheForm, CamerasDiffer, ShowsTheChannel
<1> QED
  BY <1>2, <1>3, <1>4, <1>5 DEF PagesInv

\* A served request leaves the others as they were.
LEMMA ServedLeaves ==
  ASSUME NEW s \in Seq(Request), NEW i \in 1..Len(s), s[i].served,
         NEW t, t = RemoveAt(s, i)
  PROVE  /\ t \in Seq(Request) /\ Len(t) = Len(s) - 1 /\ Len(s) \in Nat
         /\ (\A j \in 1..Len(t) : t[j].served) <=> (\A j \in 1..Len(s) : s[j].served)
         /\ OneStart(s) => OneStart(t)
<1>1. /\ t \in Seq(Request) /\ Len(t) = Len(s) - 1 /\ Len(s) \in Nat
      /\ \A j \in 1..Len(t) : t[j] = IF j < i THEN s[j] ELSE s[j + 1]
  <2>1. /\ t \in Seq(Request) /\ Len(t) = Len(s) - 1
        /\ \A j \in 1..(Len(s) - 1) : t[j] = IF j < i THEN s[j] ELSE s[j + 1]
    BY AnsweredLeaves
  <2> QED
    BY <2>1
<1>2. (\A j \in 1..Len(s) : s[j].served) => \A j \in 1..Len(t) : t[j].served
  BY <1>1
<1>3. ASSUME \A j \in 1..Len(t) : t[j].served, NEW j \in 1..Len(s)
      PROVE  s[j].served
  <2>1. CASE j < i
    BY <2>1, <1>1, <1>3
  <2>2. CASE j = i
    BY <2>2
  <2>3. CASE j > i
    <3>1. j - 1 \in 1..Len(t) /\ t[j - 1] = s[j]
      BY <2>3, <1>1
    <3> QED
      BY <3>1, <1>3
  <2> QED
    BY <2>1, <2>2, <2>3
<1>4. OneStart(s) => OneStart(t)
  <2> SUFFICES ASSUME OneStart(s), NEW j \in 1..Len(t), NEW k \in 1..Len(t),
                      ~t[j].served, ~t[k].served
               PROVE  j = k /\ t[j].cmd = "start"
    BY DEF OneStart
  <2> DEFINE old(m) == IF m < i THEN m ELSE m + 1
  <2>1. /\ old(j) \in 1..Len(s) /\ old(k) \in 1..Len(s)
        /\ t[j] = s[old(j)] /\ t[k] = s[old(k)]
    BY <1>1
  <2>2. old(j) = old(k) /\ s[old(j)].cmd = "start"
    BY <2>1 DEF OneStart
  <2>3. j = k
    BY <2>2, <1>1
  <2> QED
    BY <2>1, <2>2, <2>3
<1> QED
  BY <1>1, <1>2, <1>3, <1>4

\* The answer to a stop or a start arrives, or is lost, or the request is.
LEMMA GetEndsKeepsInv ==
  ASSUME PagesInv, NEW i \in 1..MaxGets, GetAnswered(i) \/ GetLost(i)
  PROVE  PagesInv'
<1>1. /\ i \in 1..Len(gets) /\ ~Blocked /\ gets' = RemoveAt(gets, i)
      /\ UNCHANGED <<page, awaits, tiles, cameras, select, shown, skipped, early, hasty,
                     selects, size, address, emptied, known, stored, unselected, runs,
                     taken, post, accepted, clicks>>
  BY DEF GetAnswered, GetLost, formVars, viewVars, serverVars
<1>2. /\ orderly' => orderly /\ gets[i].served
      /\ player' \in BOOLEAN /\ orderly' \in BOOLEAN /\ losses' \in Nat
      /\ gets \in Seq(Request) /\ ~Blocked'
  <2>1. /\ {player, orderly, accepted} \subseteq BOOLEAN /\ losses \in Nat
        /\ gets \in Seq(Request) /\ ~Blocked'
    BY <1>1 DEF PagesInv, TypeOK, Request, Blocked
  <2>2. CASE GetAnswered(i)
    <3>1. player' = (player \/ PlaysOn(gets[i].cmd)) /\ UNCHANGED <<orderly, losses>>
      BY <2>2 DEF GetAnswered
    <3>2. player' \in BOOLEAN
      BY <2>1, <3>1
    <3>3. gets[i].served
      BY <2>2 DEF GetAnswered
    <3> QED
      BY <2>1, <3>1, <3>2, <3>3
  <2>3. CASE GetLost(i)
    <3>1. /\ orderly' = (orderly /\ gets[i].served) /\ losses' = losses + 1
          /\ player' = player
      BY <2>3 DEF GetLost, viewVars
    <3>2. orderly' \in BOOLEAN /\ (orderly' => orderly /\ gets[i].served)
      BY <3>1, Zenon
    <3> QED
      BY <2>1, <3>1, <3>2
  <2> QED
    BY <2>1, <2>2, <2>3
<1>3. gets' \in Seq(Request) /\ Len(gets') = Len(gets) - 1 /\ Len(gets) \in Nat
  BY <1>1, <1>2, AnsweredLeaves
<1>4. TypeOK'
  <2>1. Len(gets') <= 2 * clicks'
    BY <1>1, <1>3 DEF PagesInv, TypeOK
  <2>2. {tiles, cameras, size, address, player, known, taken, early, hasty,
         unselected, accepted, orderly, emptied}' \subseteq BOOLEAN
    BY <1>1, <1>2 DEF PagesInv, TypeOK
  <2> QED
    BY <1>1, <1>2, <1>3, <2>1, <2>2 DEF PagesInv, TypeOK, Request
<1>5. FormKept' /\ PostIsForm'
  BY <1>1, <1>2 DEF PagesInv, FormKept, PostIsForm
<1>6. InOrder'
  <2>1. orderly' => (AllServed' <=> AllServed) /\ (OneStart(gets) => OneStart(gets'))
    BY <1>1, <1>2, ServedLeaves DEF AllServed
  <2>2. OneStart(gets)' <=> OneStart(gets')
    BY DEF OneStart
  <2> QED
    BY <1>1, <1>2, <2>1, <2>2 DEF PagesInv, InOrder
<1>7. StoresTheForm' /\ CamerasDiffer' /\ ShowsTheChannel'
  BY <1>1, <1>2 DEF PagesInv, StoresTheForm, CamerasDiffer, ShowsTheChannel
<1> QED
  BY <1>4, <1>5, <1>6, <1>7 DEF PagesInv

-----------------------------------------------------------------------------
(* The server. *)

\* What an accepted group makes of the channel: the camera of a panel that is
\* left out for its data-state is selected as it is stored.
LEMMA MergedIsForm ==
  ASSUME PagesInv, Blocked, post.kind = "group", Acceptable(post.group)
  PROVE  LET new == Merged(post.group)
         IN  /\ new \in [Panels -> Cameras]
             /\ ~hasty => \A p \in Panels : select[p] \in Cameras => new[p] = select[p]
             /\ page = "modify" /\ ~hasty /\ ("load" \in awaits \/ 1 \in skipped)
                  => new[1] = Stored0[1]
<1> DEFINE new == Merged(post.group)
<1>1. /\ post.group = videoMsg /\ JudgeCamID(select[1], select[2])
      /\ TypeOK /\ FormKept
  BY DEF PagesInv, PostIsForm
<1>2. cameras /\ select \in [Panels -> Cameras \cup {NoCamera}]
  BY <1>1, JudgedIsFilled
<1>3. /\ DOMAIN post.group = SentPanels
      /\ \A p \in SentPanels : post.group[p] = select[p]
  BY <1>1 DEF videoMsg
<1>4. \A p \in SentPanels : select[p] \in Cameras
  BY <1>3 DEF Acceptable
<1>5. new = [p \in Panels |-> IF p \in SentPanels THEN select[p] ELSE stored[p]]
  BY <1>3 DEF Merged
<1> HIDE DEF new
<1>6. \A p \in Panels \ SentPanels :
        page = "modify" /\ known /\ (select[p] \in Cameras => p = 1 /\ 1 \in skipped)
  BY <1>1 DEF SentPanels, TypeOK, FormKept
<1>7. new \in [Panels -> Cameras]
  <2>1. \A p \in Panels \ SentPanels : stored[p] \in Cameras
    BY <1>1, <1>6 DEF TypeOK
  <2> QED
    BY <1>4, <1>5, <2>1
<1>8. ASSUME page = "modify", ~hasty, "load" \in awaits \/ 1 \in skipped
      PROVE  new[1] = Stored0[1] /\ (select[1] \in Cameras => select[1] = Stored0[1])
  <2>1. stored[1] = Stored0[1] /\ select[1] \in {Stored0[1], NoCamera}
    BY <1>1, <1>2, <1>8 DEF FormKept
  <2>2. 1 \in SentPanels => select[1] = Stored0[1]
    BY <1>4, <2>1, CameraFacts
  <2> QED
    BY <1>5, <2>1, <2>2, CameraFacts
<1>9. ASSUME ~hasty, NEW p \in Panels, select[p] \in Cameras
      PROVE  new[p] = select[p]
  <2>1. CASE p \in SentPanels
    BY <2>1, <1>5
  <2>2. CASE p \notin SentPanels
    BY <2>2, <1>6, <1>8, <1>9
  <2> QED
    BY <2>1, <2>2
<1> QED
  BY <1>7, <1>8, <1>9 DEF new

LEMMA ServePostKeepsInv == ASSUME PagesInv, ServePost PROVE PagesInv'
<1> DEFINE ok == IF post.kind = "osd" THEN known ELSE Acceptable(post.group)
<1>1. /\ Blocked /\ post \in Posts /\ post.kind \in {"group", "osd"}
      /\ ~accepted /\ {orderly, known} \subseteq BOOLEAN
  BY DEF ServePost, Blocked, PagesInv, TypeOK, InOrder, Posts
<1>2. /\ known' = (known \/ ok)
      /\ stored' = IF ok /\ post.kind = "group" THEN Merged(post.group) ELSE stored
      /\ orderly' = (orderly /\ AllServed)
      /\ unselected' = IF ok /\ post.kind = "group"
                       THEN \E p \in Panels : select[p] = NoCamera ELSE unselected
      /\ UNCHANGED <<page, awaits, tiles, cameras, select, shown, skipped, early, hasty,
                     selects, size, address, player, emptied, taken, runs, gets,
                     accepted, clicks, losses>>
  BY DEF ServePost, formVars, viewVars
<1>3. /\ post' \in Posts /\ post'.kind = post.kind /\ post'.group = post.group
      /\ post'.result = IF ok THEN "ok" ELSE "refused"
  BY <1>1 DEF ServePost, Posts, Outcomes
<1>4. Blocked'
  BY <1>3, ValueAssumption DEF Blocked
<1>5. /\ (known' <=> known \/ ok) /\ known' \in BOOLEAN
      /\ (orderly' <=> orderly /\ AllServed) /\ orderly' \in BOOLEAN
  BY <1>1, <1>2, Zenon
<1>6. unselected' \in BOOLEAN
  BY <1>2 DEF PagesInv, TypeOK
<1> HIDE DEF ok
<1>7. /\ stored' \in [Panels -> Cameras \cup {0}]
      /\ known' => stored' \in [Panels -> Cameras]
      /\ page = "modify" /\ ~hasty /\ ("load" \in awaits \/ 1 \in skipped)
           => stored'[1] = Stored0[1]
      /\ ok /\ post.kind = "group" /\ ~hasty =>
           \A p \in Panels : select[p] \in Cameras => stored'[p] = select[p]
      /\ known' /\ ~hasty /\ ~unselected' => stored'[1] # stored'[2]
  <2>1. CASE ok /\ post.kind = "group"
    <3>1. Acceptable(post.group)
      BY <2>1 DEF ok
    <3>2. stored' = Merged(post.group)
      BY <1>2, <2>1
    <3>3. /\ stored' \in [Panels -> Cameras]
          /\ page = "modify" /\ ~hasty /\ ("load" \in awaits \/ 1 \in skipped)
               => stored'[1] = Stored0[1]
          /\ ~hasty => \A p \in Panels : select[p] \in Cameras => stored'[p] = select[p]
      BY <1>1, <2>1, <3>1, <3>2, MergedIsForm
    <3>4. /\ select \in [Panels -> Cameras \cup {NoCamera}]
          /\ JudgeCamID(select[1], select[2])
      BY <1>1, <2>1, JudgedIsFilled DEF PagesInv, PostIsForm
    <3>5. ~unselected' => \A p \in Panels : select[p] \in Cameras
      BY <1>2, <2>1, <3>4
    <3>6. ~hasty /\ ~unselected' => stored'[1] # stored'[2]
      BY <3>3, <3>4, <3>5, CameraFacts DEF JudgeCamID
    <3> QED
      BY <3>3, <3>6
  <2>2. CASE ~(ok /\ post.kind = "group")
    <3>1. stored' = stored /\ unselected' = unselected
      BY <1>2, <2>2
    <3>2. known' => known
      BY <1>1, <1>5, <2>2 DEF ok
    <3> QED
      BY <2>2, <3>1, <3>2 DEF PagesInv, TypeOK, FormKept, CamerasDiffer
  <2> QED
    BY <2>1, <2>2
<1>8. TypeOK'
  <2>1. /\ UNCHANGED <<tiles, cameras, size, address, player, taken, early, hasty,
                         accepted, emptied>>
        /\ {tiles, cameras, size, address, player, taken, early, hasty, accepted,
            emptied} \subseteq BOOLEAN
    BY <1>2 DEF PagesInv, TypeOK
  <2>2. {tiles, cameras, size, address, player, known, taken, early, hasty,
         unselected, accepted, orderly, emptied}' \subseteq BOOLEAN
    BY <1>5, <1>6, <2>1
  <2>3. Len(gets') < 2 * clicks' /\ Len(gets') <= 2 * clicks'
    BY <1>1, <1>2 DEF PagesInv, TypeOK
  <2> QED
    BY <1>2, <1>3, <1>7, <2>2, <2>3 DEF PagesInv, TypeOK
<1>9. FormKept'
  BY <1>2, <1>5, <1>7 DEF PagesInv, FormKept
<1>10. PostIsForm'
  BY <1>1, <1>2, <1>3 DEF PagesInv, PostIsForm, videoMsg, SentPanels
<1>11. InOrder'
  <2>1. AllServed' <=> AllServed
    BY <1>2 DEF AllServed
  <2>2. orderly' => AllServed /\ runs = NotRunning
    BY <1>1, <1>5 DEF PagesInv, InOrder
  <2>3. orderly' => \A i \in 1..Len(gets') : gets'[i].served \/ gets'[i].cmd = "stop"
    BY <1>2, <2>2 DEF AllServed
  <2>4. post'.result = "ok" => known'
    BY <1>3, <1>5
  <2> QED
    BY <1>1, <1>2, <1>4, <2>1, <2>2, <2>3, <2>4 DEF InOrder
<1>12. StoresTheForm' /\ CamerasDiffer' /\ ShowsTheChannel'
  <2>1. StoresTheForm'
    BY <1>2, <1>3, <1>7 DEF StoresTheForm
  <2>2. CamerasDiffer' /\ ShowsTheChannel'
    BY <1>2, <1>7 DEF PagesInv, CamerasDiffer, ShowsTheChannel
  <2> QED
    BY <2>1, <2>2
<1> QED
  BY <1>8, <1>9, <1>10, <1>11, <1>12 DEF PagesInv

\* A stop before the change is answered, the one start after it.
LEMMA ServeGetKeepsInv ==
  ASSUME PagesInv, NEW i \in 1..MaxGets, ServeGet(i) PROVE PagesInv'
<1>1. /\ i \in 1..Len(gets) /\ ~gets[i].served
      /\ gets' = [gets EXCEPT ![i].served = TRUE]
      /\ UNCHANGED <<page, awaits, tiles, cameras, select, shown, skipped, early, hasty,
                     selects, size, address, player, emptied, taken, known, stored,
                     unselected, post, accepted, clicks, losses>>
  BY DEF ServeGet, formVars, viewVars
<1>2. gets \in Seq(Request) /\ {orderly, known, accepted} \subseteq BOOLEAN
  BY DEF PagesInv, TypeOK, Request
<1>3. /\ gets' \in Seq(Request) /\ Len(gets') = Len(gets)
      /\ \A j \in 1..Len(gets) : gets'[j].cmd = gets[j].cmd
      /\ \A j \in 1..Len(gets) : gets'[j].served <=> (j = i \/ gets[j].served)
  BY <1>1, <1>2, ServedStays
<1>4. orderly' \in BOOLEAN /\ (orderly' => orderly)
  <2>1. orderly' = (orderly /\ \A j \in 1..(i - 1) : gets[j].served)
    BY DEF ServeGet
  <2> QED
    BY <2>1, Zenon
<1>5. /\ gets[i].cmd = "stop" => runs' = NotRunning
      /\ gets[i].cmd = "start" /\ known /\ runs = NotRunning => runs' = stored
      /\ runs' \in {runs, NotRunning} \/ (known /\ runs' = stored)
  <2>1. runs' = CASE gets[i].cmd = "stop" -> NotRunning
                  [] gets[i].cmd = "start" /\ known /\ runs = NotRunning -> stored
                  [] OTHER -> runs
    BY DEF ServeGet
  <2> QED
    BY <2>1
<1>6. TypeOK'
  <2>1. {tiles, cameras, size, address, player, known, taken, early, hasty,
         unselected, accepted, orderly, emptied}' \subseteq BOOLEAN
    BY <1>1, <1>4 DEF PagesInv, TypeOK
  <2>2. runs' \in [Panels -> Cameras] \cup {NotRunning}
    BY <1>5 DEF PagesInv, TypeOK
  <2>3. Len(gets') <= 2 * clicks' /\ (Blocked' => Len(gets') < 2 * clicks')
    BY <1>1, <1>3 DEF PagesInv, TypeOK, Blocked
  <2> QED
    BY <1>1, <1>3, <2>1, <2>2, <2>3 DEF PagesInv, TypeOK, Request
<1>7. FormKept' /\ PostIsForm'
  BY <1>1 DEF PagesInv, FormKept, PostIsForm, Blocked, videoMsg, SentPanels
<1>8. InOrder'
  <2>1. ~AllServed
    BY <1>1 DEF AllServed
  <2>2. Blocked' <=> Blocked
    BY <1>1 DEF Blocked
  <2>3. orderly' /\ Blocked =>
          /\ runs' = NotRunning /\ post.result = "pending"
          /\ \A j \in 1..Len(gets') : gets'[j].served \/ gets'[j].cmd = "stop"
    <3> SUFFICES ASSUME orderly', Blocked
                 PROVE  /\ runs' = NotRunning /\ post.result = "pending"
                        /\ \A j \in 1..Len(gets') :
                             gets'[j].served \/ gets'[j].cmd = "stop"
      OBVIOUS
    <3>1. /\ post.result = "pending"
          /\ \A j \in 1..Len(gets) : gets[j].served \/ gets[j].cmd = "stop"
      BY <1>4, <2>1 DEF PagesInv, InOrder
    <3> QED
      BY <1>1, <1>3, <1>5, <3>1
  <2>4. orderly' /\ accepted => runs' = stored /\ AllServed' /\ OneStart(gets)'
    <3> SUFFICES ASSUME orderly', accepted
                 PROVE  runs' = stored /\ AllServed' /\ OneStart(gets)'
      OBVIOUS
    <3>1. runs = NotRunning /\ OneStart(gets) /\ known
      BY <1>4, <2>1 DEF PagesInv, InOrder
    <3>2. gets[i].cmd = "start" /\ \A j \in 1..Len(gets) : gets[j].served \/ i = j
      BY <1>1, <3>1 DEF OneStart
    <3>3. \A j \in 1..Len(gets') : gets'[j].served
      BY <1>3, <3>2
    <3> QED
      BY <1>5, <3>1, <3>2, <3>3 DEF AllServed, OneStart
  <2> QED
    BY <1>1, <2>2, <2>3, <2>4 DEF PagesInv, InOrder
<1>9. StoresTheForm' /\ CamerasDiffer' /\ ShowsTheChannel'
  BY <1>1 DEF PagesInv, StoresTheForm, CamerasDiffer, ShowsTheChannel,
         Blocked
<1> QED
  BY <1>6, <1>7, <1>8, <1>9 DEF PagesInv

-----------------------------------------------------------------------------
(* The theorems. *)

LEMMA StepKeepsPagesInv == PagesInv /\ [Next]_vars => PagesInv'
<1> SUFFICES ASSUME PagesInv, [Next]_vars PROVE PagesInv'
  OBVIOUS
<1>1. CASE Load
  BY <1>1, TilesArriveKeepsInv, CamerasArriveKeepsInv, PageLoadsKeepsInv,
     AnswerLostKeepsInv DEF Load
<1>2. CASE User
  BY <1>2, SelectCameraKeepsInv, AddressKeepsInv, BtnOkClickKeepsInv,
     SendOSDKeepsInv DEF User
<1>3. CASE Answers
  BY <1>3, PostAnsweredKeepsInv, PostLostKeepsInv, GetEndsKeepsInv DEF Answers
<1>4. CASE Server
  BY <1>4, ServePostKeepsInv, ServeGetKeepsInv DEF Server
<1>5. CASE UNCHANGED vars
  <2> USE <1>5 DEF PagesInv, vars, formVars, viewVars, serverVars, netVars
  <2>1. TypeOK'
    BY DEF TypeOK, Blocked
  <2>2. FormKept'
    BY DEF FormKept
  <2>3. PostIsForm'
    BY DEF PostIsForm, Blocked, videoMsg, SentPanels
  <2>4. InOrder'
    BY DEF InOrder, Blocked, AllServed, OneStart
  <2>5. StoresTheForm' /\ CamerasDiffer' /\ ShowsTheChannel'
    BY DEF Blocked, StoresTheForm, CamerasDiffer, ShowsTheChannel
  <2> QED
    BY <2>1, <2>2, <2>3, <2>4, <2>5
<1> QED
  BY <1>1, <1>2, <1>3, <1>4, <1>5 DEF Next

\* Whatever the order of answers, losses and requests: until the user selects,
\* panel 1 has the channel's camera or none; the request that is out is what
\* the form that was judged sends, a panel that says "please select" left out;
\* it stores what the form says; and requests served as they were sent run
\* first the stop, then the change, then the start.
THEOREM PagesInvariant == Spec => []PagesInv
<1>1. Init => PagesInv
  BY InitPagesInv
<1>2. PagesInv /\ [Next]_vars => PagesInv'
  BY StepKeepsPagesInv
<1> QED
  BY <1>1, <1>2, PTL DEF Spec

\* After an accepted change whose requests were all served as they were sent
\* the server runs the stitch with the stored cameras (BtnOkClick).
THEOREM RunsWhatIsStoredHolds == Spec => []RunsWhatIsStored
<1>1. PagesInv => RunsWhatIsStored
  BY DEF PagesInv, InOrder, RunsWhatIsStored
<1> QED
  BY <1>1, PagesInvariant, PTL

\* A change that is stored stores the camera of every panel that names one, also
\* of the panel that its data-state keeps out of the request (videoMsg), if the
\* user waited for the page to load.
THEOREM StoresTheFormHolds == Spec => []StoresTheForm
<1>1. PagesInv => StoresTheForm
  BY DEF PagesInv
<1> QED
  BY <1>1, PagesInvariant, PTL

\* No camera is stored twice (JudgeCamID), if both panels named one in the last
\* change that was stored and the user waited for the page to load; the order in
\* which tiles and cameras came does not matter.
THEOREM CamerasDifferHolds == Spec => []CamerasDiffer
<1>1. PagesInv => CamerasDiffer
  BY DEF PagesInv
<1> QED
  BY <1>1, PagesInvariant, PTL

\* The modify page shows the channel it opened (LoadTileVideo), if its tiles came
\* before the cameras.
THEOREM ShowsTheChannelHolds == Spec => []ShowsTheChannel
<1>1. PagesInv => ShowsTheChannel
  BY DEF PagesInv
<1> QED
  BY <1>1, PagesInvariant, PTL
=============================================================================
