------------------------------- MODULE Player -------------------------------
(***************************************************************************)
(* The live players of the pages (player.js, decoder.js and the callers    *)
(* that make, play and stop them).  A Player lives in the page and owns a  *)
(* worker (decoder.js); they talk through two message queues.  The worker  *)
(* loads a wasm decoder, keeps requests until it is there, opens one       *)
(* websocket to the server, creates the decoder on the server's 16-byte    *)
(* header and posts decoded frames back.  The page shows frames on         *)
(* animation frames, which a browser only gives to a visible page.         *)
(*                                                                         *)
(* Players are numbered in the order they are made; 0 is null.  The server *)
(* (external) answers every request 202 with a header and broadcasts       *)
(* every packet to all its sockets, whatever url was asked for.            *)
(***************************************************************************)
EXTENDS Integers, Sequences, SequencesExt

CONSTANTS
  PanelSlots,     \* camera_play1, camera_play2: a player for each selection
  MainSlots,      \* document.player of a page
  MaxPlayers,     \* Player objects made (a bound)
  Budgets,        \* what a behaviour may use up (bounds): calls of play,
                  \* visibility changes, packets the server broadcasts, and
                  \* lost sockets or failed decoder creations
  MaxQueue        \* messages queued to a worker when a new play starts (a bound)

Players == 1..MaxPlayers
ASSUME BudgetAssumption ==
  /\ MaxPlayers \in Nat
  /\ Budgets \subseteq [players : Players, plays : Nat, toggles : Nat,
                        frames : Nat, fails : Nat]
Slots == PanelSlots \cup MainSlots

VARIABLES
  \* The page.
  slot,         \* slot[s]: the player it holds, or 0
  made,         \* players made so far
  playing,      \* playing[p]
  looping,      \* looping[p]: displayLoop asks for animation frames
  frameBuffer,  \* frameBuffer[p]: frames to show, oldest first
  decWork,      \* the global: the worker of the last player started, or 0
  listeners,    \* visibility listeners on the document
  visible,      \* the page is visible
  \* Messages between page and worker.
  requests,     \* requests[p]: posted to the worker
  frames,       \* frames[p]: posted to the page
  \* The workers: socket and decoder, and what is on the socket.
  loaded,       \* wasmLoaded
  tmpReqQue,    \* requests kept until then
  worker,       \* [ws, hDec, cacheBuffer, buffers, asked, wire]
  \* History and counters.
  sent,         \* packets broadcast
  wanted,       \* wanted[p]: create was posted after the last close
  max,          \* the budget of this behaviour
  plays, toggles, fails

slotVars == <<slot, made, playing, looping, decWork, listeners, wanted, plays>>
viewVars == <<visible, toggles, max>>
frameVars == <<frameBuffer, frames>>
workVars == <<loaded, tmpReqQue, worker>>
vars == <<slotVars, viewVars, frameVars, requests, workVars, sent, fails>>

Requests == {"create", "visible", "close"}
Header == 0          \* the 16 bytes that name the codec

-----------------------------------------------------------------------------
(* What a request does in the worker. *)

Idle ==
  [ws |-> "none", hDec |-> FALSE, cacheBuffer |-> FALSE, buffers |-> 0,
   asked |-> 0, wire |-> << >>]

\* A play while there is a socket changes nothing, a lost one included.
CreateVideoDec(w) ==
  IF w.ws = "none" THEN [w EXCEPT !.ws = "connecting"] ELSE w

\* Mutant of ReleaseVideoDecode: the handle of the decoder is kept.
ReleaseAllButDecoder(w) ==
  [Idle EXCEPT !.hDec = w.hDec,
               !.buffers = w.buffers - (IF w.cacheBuffer THEN 1 ELSE 0)]

\* Mutant of ReleaseVideoDecode: a buffer is freed, held or not.
ReleaseUnchecked(w) == [Idle EXCEPT !.buffers = w.buffers - 1]

\* The socket is closed (what is on it is never delivered), the buffer freed.
ReleaseVideoDecode(w) ==
  [Idle EXCEPT !.buffers = w.buffers - (IF w.cacheBuffer THEN 1 ELSE 0)]

\* An open socket asks the server again, whichever way the page changed.
processReq(w, r) ==
  CASE r = "create" -> CreateVideoDec(w)
    [] r = "close" -> ReleaseVideoDecode(w)
    [] r = "visible" /\ w.ws = "open" -> [w EXCEPT !.asked = @ + 1]
    [] OTHER -> w

\* Mutant of Drained: the last request first.
DrainedFromTheEnd(w, queue) == FoldRight(LAMBDA r, v : processReq(v, r), queue, w)

\* What onWasmLoaded does with the requests kept for it, one after the other.
Drained(w, queue) ==
  LET after[i \in 0..Len(queue)] ==
        IF i = 0 THEN w ELSE processReq(after[i - 1], queue[i])
  IN  after[Len(queue)]

-----------------------------------------------------------------------------
Init ==
  /\ slot = [s \in Slots |-> 0]
  /\ made = 0
  /\ playing = [p \in Players |-> FALSE]
  /\ looping = [p \in Players |-> FALSE]
  /\ frameBuffer = [p \in Players |-> << >>]
  /\ decWork = 0 /\ listeners = 0 /\ visible \in BOOLEAN
  /\ requests = [p \in Players |-> << >>]
  /\ frames = [p \in Players |-> << >>]
  /\ loaded = [p \in Players |-> FALSE]
  /\ tmpReqQue = [p \in Players |-> << >>]
  /\ worker = [p \in Players |-> Idle]
  /\ sent = 0
  /\ wanted = [p \in Players |-> FALSE]
  /\ max \in Budgets
  /\ plays = 0 /\ toggles = 0 /\ fails = 0

-----------------------------------------------------------------------------
(* The page: stop and play. *)

\* What one pass of displayLoop leaves: it shows up to two frames.
Shown(buffer) ==
  IF Len(buffer) < 2 THEN << >> ELSE SubSeq(buffer, 3, Len(buffer))

\* Player.stop of player old (0: none) and Player.play of player new.  Without a url
\* play only sets playing; with one it starts a display loop, whose first pass
\* it makes itself, posts the creation, takes decWork and reports the
\* visibility at once.
Switch(old, new, url) ==
  LET stops == {p \in {old} \ {0} : playing[p]}
      starts == IF url THEN {new} ELSE {}
  IN  /\ playing' = [p \in Players |-> p = new \/ (playing[p] /\ p # old)]
      /\ requests' = [p \in Players |->
           IF p \in stops THEN Append(requests[p], "close")
           ELSE IF p \in starts THEN requests[p] \o <<"create", "visible">>
           ELSE requests[p]]
      /\ wanted' = [p \in Players |-> p \in starts \/ (wanted[p] /\ p \notin stops)]
      /\ looping' = [p \in Players |-> looping[p] \/ p \in starts]
      /\ frameBuffer' = [p \in Players |->
           IF p \in starts THEN Shown(frameBuffer[p]) ELSE frameBuffer[p]]
      /\ decWork' = IF url THEN new ELSE decWork
      /\ listeners' = IF url THEN listeners + 1 ELSE listeners

\* Mutant of ExecuteCanvas: the player of the last selection is not stopped.
ReplacedWithoutStop(s, url) ==
  /\ made < max.players /\ plays < max.plays
  /\ Switch(0, made + 1, url)
  /\ made' = made + 1 /\ plays' = plays + 1
  /\ slot' = [slot EXCEPT ![s] = made + 1]
  /\ UNCHANGED <<viewVars, frames, workVars, sent, fails>>

\* A camera is selected for a panel: its last player is stopped and dropped,
\* a new one plays the camera's url (which may be empty).
ExecuteCanvas(s, url) ==
  /\ made < max.players /\ plays < max.plays
  /\ Switch(slot[s], made + 1, url)
  /\ made' = made + 1 /\ plays' = plays + 1
  /\ slot' = [slot EXCEPT ![s] = made + 1]
  /\ UNCHANGED <<viewVars, frames, workVars, sent, fails>>

\* The stitch pages play the stitch: on the player they have, if any.
playVideo(s) ==
  LET p == IF slot[s] = 0 THEN made + 1 ELSE slot[s]
  IN  /\ p <= max.players /\ plays < max.plays
      /\ Len(requests[p]) + Len(tmpReqQue[p]) <= MaxQueue
      /\ Switch(0, p, TRUE)
      /\ made' = IF slot[s] = 0 THEN p ELSE made
      /\ plays' = plays + 1
      /\ slot' = [slot EXCEPT ![s] = p]
      /\ UNCHANGED <<viewVars, frames, workVars, sent, fails>>

\* The camera pages play on a new player only: without a canvas the player
\* is made and kept, and no later call plays it.
camera_player_play(s, canvas) ==
  /\ slot[s] = 0 /\ made < max.players /\ plays < max.plays
  /\ made' = made + 1 /\ plays' = plays + 1
  /\ slot' = [slot EXCEPT ![s] = made + 1]
  /\ IF canvas THEN Switch(0, made + 1, TRUE)
     ELSE UNCHANGED <<playing, looping, decWork, listeners, wanted, requests,
                      frameBuffer>>
  /\ UNCHANGED <<viewVars, frames, workVars, sent, fails>>

\* stopVideo and camera_player_stop.
stopVideo(s) ==
  LET p == slot[s]
  IN  /\ p # 0
      /\ slot' = [slot EXCEPT ![s] = 0]
      /\ playing' = [playing EXCEPT ![p] = FALSE]
      /\ wanted' = [wanted EXCEPT ![p] = @ /\ ~playing[p]]
      /\ requests' = [requests EXCEPT ![p] =
                        IF playing[p] THEN Append(@, "close") ELSE @]
      /\ UNCHANGED <<made, looping, decWork, listeners, plays, viewVars,
                     frameVars, workVars, sent, fails>>

\* The tab is hidden or shown: every listener, whichever player registered
\* it, posts to the worker of the player started last.
onchange ==
  /\ toggles < max.toggles
  /\ toggles' = toggles + 1 /\ visible' = ~visible /\ UNCHANGED max
  /\ IF decWork = 0 THEN UNCHANGED requests
     ELSE requests' = [requests EXCEPT ![decWork] =
                         @ \o [i \in 1..listeners |-> "visible"]]
  /\ UNCHANGED <<slotVars, frameVars, workVars, sent, fails>>

-----------------------------------------------------------------------------
(* The page: frames. *)

Pushed(buffer, f) == Append(buffer, f)

\* decodeWorker.onmessage: a stopped player takes frames too.
onFrame(p) ==
  /\ frames[p] # << >>
  /\ frames' = [frames EXCEPT ![p] = Tail(@)]
  /\ frameBuffer' = [frameBuffer EXCEPT ![p] = Pushed(@, Head(frames[p]))]
  /\ UNCHANGED <<slotVars, viewVars, requests, workVars, sent, fails>>

\* Mutant of Displays: the display stops with the player.
DisplaysWhilePlaying(p) == looping[p] /\ visible /\ playing[p]

\* Once started the display loop never ends.
Displays(p) == looping[p] /\ visible

\* displayLoop, on an animation frame.
displayLoop(p) ==
  /\ Displays(p) /\ frameBuffer[p] # << >>
  /\ frameBuffer' = [frameBuffer EXCEPT ![p] = Shown(@)]
  /\ UNCHANGED <<slotVars, viewVars, frames, requests, workVars, sent, fails>>

-----------------------------------------------------------------------------
(* The worker. *)

\* A message from the page is kept until the decoder's code is there.
onmessage(p) ==
  LET r == Head(requests[p])
  IN  /\ requests[p] # << >>
      /\ requests' = [requests EXCEPT ![p] = Tail(@)]
      /\ IF loaded[p]
         THEN /\ worker' = [worker EXCEPT ![p] = processReq(@, r)]
              /\ UNCHANGED tmpReqQue
         ELSE /\ tmpReqQue' = [tmpReqQue EXCEPT ![p] = Append(@, r)]
              /\ UNCHANGED worker
      /\ UNCHANGED <<slotVars, viewVars, frameVars, loaded, sent, fails>>

onWasmLoaded(p) ==
  /\ p <= made /\ ~loaded[p]
  /\ loaded' = [loaded EXCEPT ![p] = TRUE]
  /\ worker' = [worker EXCEPT ![p] = Drained(@, tmpReqQue[p])]
  /\ tmpReqQue' = [tmpReqQue EXCEPT ![p] = << >>]
  /\ UNCHANGED <<slotVars, viewVars, frameVars, requests, sent, fails>>

\* Mutant of onopen: the socket is open and the page asks for nothing.
OpenWithoutAsking(p) ==
  /\ worker[p].ws = "connecting"
  /\ worker' = [worker EXCEPT ![p].ws = "open"]
  /\ UNCHANGED <<slotVars, viewVars, frameVars, requests, loaded, tmpReqQue,
                 sent, fails>>

onopen(p) ==
  /\ worker[p].ws = "connecting"
  /\ worker' = [worker EXCEPT ![p].ws = "open", ![p].asked = 1]
  /\ UNCHANGED <<slotVars, viewVars, frameVars, requests, loaded, tmpReqQue,
                 sent, fails>>

\* Nothing listens to onclose: the worker keeps the dead socket.
SocketLost(p) ==
  /\ worker[p].ws \in {"connecting", "open"} /\ fails < max.fails
  /\ worker' = [worker EXCEPT ![p].ws = "lost", ![p].asked = 0, ![p].wire = << >>]
  /\ fails' = fails + 1
  /\ UNCHANGED <<slotVars, viewVars, frameVars, requests, loaded, tmpReqQue, sent>>

\* onWsMsg: a header makes the decoder, or fails to; with a decoder every
\* message is decoded, a second header like a packet; before, packets are lost.
onWsMsg(p, created, decoded) ==
  LET w == worker[p]
      m == Head(w.wire)
  IN  /\ w.wire # << >>
      /\ CASE w.hDec ->
                /\ worker' = [worker EXCEPT ![p].wire = Tail(@)]
                /\ frames' = IF decoded /\ m # Header
                             THEN [frames EXCEPT ![p] = Append(@, m)] ELSE frames
                /\ UNCHANGED fails
           [] ~w.hDec /\ m = Header ->
                /\ created \/ fails < max.fails
                /\ worker' = [worker EXCEPT
                     ![p] = [w EXCEPT !.wire = Tail(@), !.hDec = created,
                                      !.cacheBuffer = TRUE, !.buffers = @ + 1]]
                /\ fails' = IF created THEN fails ELSE fails + 1
                /\ UNCHANGED frames
           [] OTHER ->
                /\ worker' = [worker EXCEPT ![p].wire = Tail(@)]
                /\ UNCHANGED <<frames, fails>>
      /\ UNCHANGED <<slotVars, viewVars, frameBuffer, requests, loaded,
                     tmpReqQue, sent>>

-----------------------------------------------------------------------------
(* The server, as the worker sees it. *)

Answer(p) ==
  /\ worker[p].asked > 0
  /\ worker' = [worker EXCEPT ![p].asked = @ - 1, ![p].wire = Append(@, Header)]
  /\ UNCHANGED <<slotVars, viewVars, frameVars, requests, loaded, tmpReqQue,
                 sent, fails>>

Broadcast ==
  /\ sent < max.frames /\ sent' = sent + 1
  /\ worker' = [p \in Players |->
       IF worker[p].ws = "open" THEN [worker[p] EXCEPT !.wire = Append(@, sent + 1)]
       ELSE worker[p]]
  /\ UNCHANGED <<slotVars, viewVars, frameVars, requests, loaded, tmpReqQue, fails>>

-----------------------------------------------------------------------------
Page ==
  \/ \E s \in PanelSlots, url \in BOOLEAN : ExecuteCanvas(s, url)
  \/ \E s \in MainSlots : \/ playVideo(s) \/ stopVideo(s)
                          \/ \E canvas \in BOOLEAN : camera_player_play(s, canvas)
  \/ onchange
  \/ \E p \in Players : onFrame(p) \/ displayLoop(p)

Worker(p) ==
  \/ onmessage(p) \/ onWasmLoaded(p) \/ onopen(p)
  \/ \E created, decoded \in BOOLEAN : onWsMsg(p, created, decoded)

Next ==
  \/ Page \/ Broadcast
  \/ \E p \in Players : Worker(p) \/ SocketLost(p) \/ Answer(p)

\* The event loops of page and worker take every event they are given, the
\* wasm code loads, the server answers; a socket opens or is lost.
Fairness ==
  \A p \in Players :
    /\ WF_vars(onFrame(p)) /\ WF_vars(displayLoop(p))
    /\ WF_vars(onmessage(p)) /\ WF_vars(onWasmLoaded(p)) /\ WF_vars(onopen(p))
    /\ WF_vars(\E created, decoded \in BOOLEAN : onWsMsg(p, created, decoded))
    /\ WF_vars(Answer(p))

Spec == Init /\ [][Next]_vars /\ Fairness

-----------------------------------------------------------------------------
(* Properties. *)

WorkerStates(packets) ==
  [ws : {"none", "connecting", "open", "lost"}, hDec : BOOLEAN, cacheBuffer : BOOLEAN,
   buffers : Nat, asked : Nat, wire : Seq(packets)]

\* Numbers of players, queues of requests, the worker's record; a player not
\* made yet has no state.
TypeOK ==
  /\ slot \in [Slots -> 0..made] /\ made \in 0..MaxPlayers
  /\ playing \in [Players -> BOOLEAN] /\ looping \in [Players -> BOOLEAN]
  /\ wanted \in [Players -> BOOLEAN] /\ loaded \in [Players -> BOOLEAN]
  /\ decWork \in 0..made /\ listeners \in 0..plays /\ max \in Budgets /\ visible \in BOOLEAN
  /\ plays \in Nat /\ toggles \in Nat /\ fails \in Nat /\ sent \in Nat
  /\ frameBuffer \in [Players -> Seq(1..sent)] /\ frames \in [Players -> Seq(1..sent)]
  /\ requests \in [Players -> Seq(Requests)] /\ tmpReqQue \in [Players -> Seq(Requests)]
  /\ worker \in [Players -> WorkerStates(0..sent)]
  /\ \A p \in Players :
       p > made => requests[p] = << >> /\ worker[p] = Idle /\ ~playing[p]

\* The parts of a worker go together: nothing happens before its code is loaded
\* and no request is kept afterwards, only an open socket has anything on it,
\* and a buffer is freed as often as it was made, but for the failures.
WorkerConsistent(p) ==
  LET w == worker[p]
  IN  /\ ~loaded[p] => w = Idle
      /\ loaded[p] => tmpReqQue[p] = << >>
      /\ w.ws # "open" => w.asked = 0 /\ w.wire = << >>
      /\ w.ws = "none" => ~w.hDec /\ ~w.cacheBuffer
      /\ w.hDec => w.cacheBuffer
      /\ w.cacheBuffer => w.buffers > 0
      /\ w.buffers <= fails + (IF w.hDec THEN 1 ELSE 0)

\* Types, and the parts of each worker, through every order of requests, late
\* code, answers, packets and failures.
PlayerInv == TypeOK /\ \A p \in Players : WorkerConsistent(p)

\* No player goes on playing that no variable of the page refers to: nothing
\* could stop it again.
NoPlayerLost == \A p \in Players : playing[p] => \E s \in Slots : slot[s] = p

\* What the requests of q leave of `now`: the last create or close decides.
LastWord(now, q) ==
  \/ \E i \in DOMAIN q : q[i] = "create" /\ \A j \in i..Len(q) : q[j] # "close"
  \/ now /\ \A i \in DOMAIN q : q[i] # "close"

\* Whatever order the wasm code and the requests arrive in, the worker will
\* end with a socket exactly when the page's last word was to play.
LastWordCounts ==
  \A p \in Players :
    LastWord(worker[p].ws # "none", tmpReqQue[p] \o requests[p]) <=> wanted[p]

\* A decoder has a socket and a buffer to decode into, and no buffer is lost
\* but for decoders that could not be created.
DecoderEquipped ==
  \A p \in Players :
    LET w == worker[p]
    IN  /\ w.hDec => w.ws # "none" /\ w.cacheBuffer /\ loaded[p]
        /\ w.buffers <= (IF w.cacheBuffer THEN 1 ELSE 0) + fails

Dropped(p) == p <= made /\ \A s \in Slots : slot[s] # p

Released(p) ==
  /\ worker[p].ws = "none" /\ ~worker[p].hDec /\ ~worker[p].cacheBuffer
  /\ frames[p] = << >> /\ frameBuffer[p] = << >>

\* A player that was dropped gives socket and decoder back, and what it has
\* decoded is shown and freed unless the page is hidden.
DroppedIsReleased ==
  \A p \in Players : Dropped(p) ~> (Released(p) \/ ~visible)

\* A player that plays gets its decoder, unless it is stopped, its socket is
\* lost or the decoder cannot be created.
PlayingIsServed ==
  \A p \in Players :
    (wanted[p] /\ fails = 0) ~> (worker[p].hDec \/ ~wanted[p] \/ fails > 0)
=============================================================================
