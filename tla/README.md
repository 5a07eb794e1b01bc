# Verification of cvideo_split

cvideo_split is a C++ server that stitches the multicast video of several
cameras into one picture, encodes it on a GPU and multicasts the result. It is
managed over HTTP, reports to a video management server (VMS) over SIP, and
offers its streams over websockets. Web pages of its own
(`res/www/video_split`) make and change the stitches and play them. This
directory holds TLA+ modules of the server's concurrent and persistent parts and
of the pages, TLC configurations that check them on small instances, and proofs
checked by TLAPS.

File names below are relative to the repository's root, `src/` here.

## 1. The system

The server is one process. `cvideo_split_server::Loop` is the main loop: every 100 ms it calls
`update` on each manager in a fixed order (websocket server, VMS device, VMS
configuration, VMS ports, HTTP queue, cameras, channels, stitches), until
`stop()`, called from a signal handler, sets `m_stoped`; then `Destroy` tears
the managers down in another fixed order, the log last.

| Part | State | Operations | Talks to |
|---|---|---|---|
| HTTP call queue (`common_web/chttp_queue_mgr.cpp`, `cproxy.cpp`, `event.h`) | list of posted calls; one event per call | post, copy and clear per tick, dispatch, set and wait | HTTP threads call into the main loop and wait |
| Channel registry (`cvideo_split/cvideo_split_info_mgr.cpp`) | map of channels, ids ever used, claim of each multicast address, next id, changed flag, JSON file | add, change, change text, delete, save, load | stitches (delete stops one), VMS device (list of channels) |
| Stitch manager (`cvideo_split_mgr.cpp`) | map of running stitches, GPU use counts, reported state per id | start, stop, choice of a GPU, state get/set | registry, workers, VMS device |
| Stitch pipeline (`cvideo_split.cpp`, `cdecode.cpp`, `cencoder.cpp`) | worker and decoder threads, FFmpeg graph | open, decode, filter, encode, reconnect, destroy | stitch manager (state), websocket (packets) |
| Camera registry (`ccamera_info_mgr.cpp`, `clib/cudp.cpp`) | map of cameras, next id, queue of checks, queue of results, JSON file | add, change, delete, check round, apply results, save, load | its check thread; stitches read addresses |
| WebSocket server (`common_websocket`, `cwebsocket_wan_server.cpp`) | session map per side, message queue, two send lists and a flag per session | accept, read, send, completion, close | main loop (queue), any thread (send) |
| Log (`clib/casync_log.cpp`) | list of lines, stop flag, file | append, drain, destroy | every thread |
| VMS device (`cvms_device.cpp`, `cvms_device_handler.cpp`) | SIP context, registered and stopped flags, serial number, list of channels | start, stop, heartbeat, queries | its SIP thread; registry |
| VMS configuration and ports | six settings, changed flag, JSON file; list of ports | change, save, load, start/stop command | VMS device |

The pages run in a browser, each in one thread, with a worker for each player:

| Part | State | Operations | Talks to |
|---|---|---|---|
| Crop panels (`js/Canvas1.js` to `js/Canvas12.js`) | per panel: the style of a box, four text inputs, two hidden inputs, `paramsN`; the document's mouse handlers, shared | open, press a grip, drag, drop, type a number, reselect, change the layout; the same for the OSD text | stitch pages, which send what the panels say |
| Live player (`player.js`, `decoder.js`) | page: buffer of frames, playing flag; worker: socket, wasm decoder, buffers, kept requests | play, stop, visibility, open, header, packet, frame | websocket server; the panels and the stitch pages make and drop players |
| Stitch pages (`js/SplicInfos.js`, `js/Modify.js`) | two selects, the list of cameras, the channel's tiles, the form | load, select, test for repeated cameras, stop and modify and start, OSD | HTTP handlers; panels; players |
| Camera pages (`js/camera*.js`) | none that outlives a request | add, change, preview | HTTP handlers; player |

What is hard in it, and which properties make each part correct:

* **Waiting across threads** (call queue, log): an atomic flag is stored and a
  condition variable notified without the lock of the waiter. Correct means
  that a call returns only when served, is served once and in order, that a line
  logged is written once and in order, and that a waiter wakes up.
* **A lock-free hand-over** (websocket session): a compare-exchange decides who
  drives the writes. Correct means one write at a time and a FIFO channel.
* **Several tables that must agree** (registry, stitches): the map, the ids ever
  used, the claims, the reported state, the GPU counts, the running stitches and
  the file are updated by different operations, by workers and by reloads.
  Correct means unique and stable ids, exclusive addresses, true states and counts.
* **Late answers** (cameras): a check takes seconds, and its result is applied by
  id to whatever has that id by then. Correct means that the last word on a
  camera is about the address it has.
* **Flags and a handle shared without a lock** (VMS device): the main loop stops,
  frees and starts the client while its thread is in a handler. Correct means that
  no start meets what is left of the last client, and that the flags tell the
  truth of the present one.
* **Objects that end while others use them** (websocket server): a session is
  deleted by the io thread while other threads send through it, and may be closed
  more than once. Correct means that a sender holds a session that lives, and that the
  main loop's table follows the io thread's.
* **Crashes** (both registries): a file is truncated, then written.
* **One mouse for many panels** (crop panels): every panel writes the same two
  handlers of the document, and installs the second only when the mouse moves. Correct
  means that a handler belongs to a panel that is being dragged, that the numbers sent are the
  box that is seen, and that a box that was inside the picture stays there.
* **A page and its worker** (player): requests cross the loading of the wasm code, frames cross
  a stop, a selection replaces a player. Correct means that the last request counts,
  and that a player that is dropped gives back its socket, decoder and worker.
* **Answers in any order** (stitch pages): the form is filled from two or three answers,
  and one click sends three requests, two of them asynchronous. Correct means that
  the form shows the channel, that what the form says is what is stored, runs and is
  played, and that no camera is stored twice.

`PROJECT.json` lists every component with its status, and under `hazards` each
hard spot at its line with the properties that would catch it.

## 2. Modules

| Module | Models | State and actions |
|---|---|---|
| `RemoteCall` | what a synchronous call promises | call, serve in order, return |
| `SyncCall` | `Event`, `SynchronousMethodCall::Invoke`, `chttp_queue_mgr`, stop and join of the HTTP server | `m_list`, `temp` (the copy of a tick), `m_run` per call, a program counter per thread; each load, store and notification is one action |
| `Channel` | a FIFO channel that may fail once | send, receive, fail |
| `WsSession` | `cwebsocket_session::send_msg`, `_handle_write`, `_release`, the removal of a session | the two lists, `m_writeing`, the sender `spc`, the io thread `hpc`, the number of writes outstanding |
| `AsyncLog` | `casync_log` append, worker, destroy | `m_log_item`, `m_stoped`, program counters of writers, worker and destroyer |
| `VideoSplit` | `cvideo_split_info_mgr`, `cvideo_split_mgr`, the opening and ending of a worker | one variable per table; one action per request, `Opened`, `OpenFails`, `BeginSave`, `EndSave`, `Crash`, `Shutdown`, `Boot` |
| `Camera` | `ccamera_info_mgr` and its thread | the map, both queues, the camera `hand` being checked; actions for requests, the three parts of a tick, the thread's steps, stop, crash and boot |
| `VmsDevice` | `cvms_device`, its thread, and the commands that start and stop it | `m_stoped`, `m_is_register`, the SIP `context`, the list of channels, a program counter for the main loop and one for the thread; `session` counts the clients started and `granted` names the one that was registered last |
| `WsServer` | `cwebsocket_server_mgr`, the handlers of `cwebsocket_session`, the message queue, `cwebsocket_wan_server` | both tables of sessions, the outstanding operations of each session, the posted closes, the queue; program counters of the io thread and of the main thread in `shutdown`, and the thread that holds `m_session_mutex` to send |
| `CropPanels` | `Canvas1.js` to `Canvas12.js` and the parts of the stitch pages that touch a box | one variable per table (`box`, `inp`, `crop`, `params`, `flag`, `kind`), the owners `onmove` and `onup` of the document's handlers, the `button`; one action per event; `how` remembers what touched a box last |
| `Player` | `player.js`, `decoder.js`, and their callers | the page's `slot`s and buffers, the queues `requests` and `frames` between page and worker, the worker's socket, decoder and buffers, the packets on the `wire` |
| `StitchPages` | `SplicInfos.js`, `Modify.js`, with one channel of the server | the selects, what answers are still to come, the requests that are out; the server's `stored` cameras and what `runs` |
| `SyncCallProofs`, `AsyncLogProofs`, `VideoSplitProofs`, `CameraProofs`, `CropPanelProofs`, `PlayerProofs`, `StitchPagesProofs` | theorems about the module of that name | |
| `ConnectionProofs` | theorems about the server's connections: `WsServer`, `WsSession` and `VmsDevice`, whose names differ (`Spec`, `PumpSpec`, `VmsSpec`) so that it can extend all three | |
| `MC*` | instances for TLC | |

Every definition that translates code is listed under `map` in `PROJECT.json`,
with its lines. Definitions marked "Mutant of X" are variants of X with a
plausible bug; no behaviour of a specification uses them. They exist to show
that each property can fail: with the body of X replaced, TLC finds it violated.

Abstractions worth knowing:

* `SyncCall`: the web server is configured with one thread
  (`server_http.hpp:390`); the module takes any number, so that order matters.
  What a call does is modelled as the fact that it ran.
* `WsSession`: `send_msg` of the server holds the session mutex for the whole
  call, so there is one sender at a time, whatever thread it is. A sender may
  swap in an empty list (the completion took its message first); its `front()`
  is then undefined, and the model starts a write of nobody's message. Nothing
  is modelled after the session is deleted.
* `VideoSplit`: a channel is an id, an address, a set of camera positions
  (never two cameras at one position) and a status. Stopping a stitch is one
  step, after which its worker is gone; the worker may have written its state
  meanwhile. `cvideo_splist::init` also refuses a start when a camera is unknown,
  which changes nothing and is not modelled. `fopen` does not fail.
  An entry without cameras is written without the member `camera_group`, and
  skipped by the reload; an empty registry is written as `null`, and an empty or
  truncated file loads as an empty registry.
* `VideoSplit` and `VmsDevice`, the list of the VMS device: `cvms_device::update_device_info`
  declares the same lock guard twice in one scope (lines 207 and 220), which does
  not compile as it stands; the model takes the lock once.
* `Camera`: requests carry one camera each. A request of the code may carry
  several, with the effect of several requests in one tick, which the model
  also has. A check is abstracted to the address it was made at.
* `VmsDevice`: `stop` and then `destroy` store the same two flags, which is taken
  as one pair of stores. A channel is its score, the number that the list
  is sorted by; two channels have different scores. What the thread waits for is one
  of the events whose handler does more than log: a registration that
  succeeds, one that gets no answer, and a request that is answered through the
  context. The use of a context that was quit, or of the cleared pointer, is
  undefined: the process ends or the thread goes on. `init` that fails leaves its
  context open, for the next `destroy`. Heartbeats come at any time.
* `WsServer`: a session is named by its id, also where the code has a pointer.
  Threads that send hold `m_session_mutex` throughout, so one at most is inside.
  The io thread is the one that `cwebsocket_wan_server::startup` asks for. What `is_open`
  says of a stream whose operation failed is left open. Three uses of what is
  gone are undefined: a second `_handle_close` of a deleted session reads any id
  (its own, none, or that of a newer session) or ends the process; an operation that was outstanding on
  a deleted session completes with any of the outcomes of its handler, or not at all; `_post_accept` on a deleted acceptor
  ends the process or goes on. `named` is the set of sessions whose main-loop
  object has learnt its id, which the code does only in `handler_msg`.
* `CropPanels`: ten files that differ in a few lines are one module with the differences
  named: two panels show a player and nine an image, one never takes a displacement for
  none and one fails on a grip. A coordinate is a whole pixel or not a number; a style refuses a
  negative width and keeps the last one. A box that is replaced while the mouse holds
  its grip is left out. The layout select offers 2 today, and its commented options went up to 10; the module takes
  any (`Layouts`), up to the last script there is. `Canvas3.js` is commented out as a whole.
* `Player`: a frame is a number, and a packet one frame. The server broadcasts every packet to
  every socket; what url was asked for does not matter to it. WebGL, fullscreen
  and the page's logger are left out. Storage is counted: buffers that
  the worker allocated, a decoder handle, a cached packet.
* `StitchPages`: a camera is its id, and whether the text of an id occurs in another's is a
  constant. The two panels are those that the layout offers; a channel has two
  cameras. While the synchronous request is out the page runs nothing. The server's
  side is what `VideoSplit` models in full, for one channel: a stop, a modification that is
  refused for an address or an entry without a camera, a start that is refused while the
  stitch runs. A group may lack panels, since the test of its size is commented out
  (`cweb_handler.cpp:451`): the modify page leaves out the panels that its data-state hides
  or that say "please select", the add page sends -1 for these. `hasty`, `unselected`, `early` and
  `orderly` are history: no guard reads them. `emptied` also bounds the user.
* `AsyncLog`: the log level, the console and the daily change of file are left
  out. `StoreStoped` happens when no writer is inside a call:
  `cvideo_split_server::Destroy` has joined the other threads by then.

## 3. What is checked

Runs of TLC (`tlc -config X.cfg MCX`):

| Run | Bounds | Shows |
|---|---|---|
| `sync_call` | 2 callers, 2 calls each | `IndInv`, the inductive invariant; `ImplementsRemoteCall`; `PostedCallsAreServed` while the loop runs; `SleeperReturns` |
| `sync_call_signal` | 1 caller, 1 call | fails: an event that is set does not always end the wait |
| `ws_session` | 4 messages | `PumpInv`, `ImplementsChannel`, `BatchIsWritten`, `NextSendCarriesTheRest` |
| `video_split` | 2 channels, 2 addresses, 3 ids, 2 GPUs with room for one stitch each, stitches of 2 cameras | `IndInv`, `CurrentStreamsDiffer`, `IdsAreStable` |
| `async_log` | 2 writers, 2 lines each | `LogInv`, `ImplementsChannel`, `LinesAreWritten`, `SeenStopReturns` |
| `camera` | 2 addresses, 2 ids, 2 changes in one run of the process, any number of restarts | `CameraInv`, the inductive invariant; `LatestCheckIsCurrent`, `ChangesAreChecked`, `StopReturns` |
| `vms_device` | 3 channels, 3 clients one after the other | `DeviceInv`, the inductive invariant; `CatalogsAreCurrent`, `CommandsReturn` |
| `ws_server` | 2 sessions without a message, or 1 with 2 messages and nobody sending while a close is posted | `ServerInv`, the inductive invariant; `GoneSessionsLeave`, `ShutdownReturns` |
| `crop_panels` | a picture of 4 by 3 pixels, boxes of 1 to start from; each panel alone, and 1 with 4; 1 to 3 acts of the user | `PanelInv`, `HandlersOwned`, `SentIsShown`, `InsideKept` |
| `player` | 2 players with 2 plays; or 1 player with 2 plays, 2 packets and a failure; or 1 with 4 packets and a failure | `PlayerInv`, `NoPlayerLost` and `LastWordCounts`, inductive together; `DecoderEquipped`, `DroppedIsReleased`, `PlayingIsServed` |
| `stitch_pages` | 3 cameras, 3 clicks and selections together, 1 message lost | `PagesInv`, the inductive invariant, with `StoresTheForm`; `RunsWhatIsStored`, `CamerasDiffer`, `ShowsTheChannel`, `AcceptedIsPlayed` |
| `stitch_pages_repeated` | the same | fails, see section 6 |

An inductive invariant is checked as one property. The parts that a reader would look for by
name are:

* in `IndInv` of `SyncCall`: it implies `ReturnedCallsAreServed` and `OutstandingCallsAreQueuedOnce`;
* in `PumpInv`: `OneWriteAtATime`;
* in `IndInv` of `VideoSplit`: `IdsAreUnique`, `ClaimsMatch` (for ids that are not short),
  `LiveStateIsTrue`, `GpuUseCounts`, `CleanMeansSaved`;
* in `LogInv`: it implies `NothingIsLost`;
* in `CameraInv`: `LatestCheckIsCurrent`, `OutstandingIdsAreOld`, `CleanMeansSaved`;
* in `DeviceInv`: `RegistrationIsCurrent`, `StartsClean` and `RestartIsQuiet` of the client
  (`ClientInv`), and the order and completeness of the list of channels (`ListInv`);
* in `ServerInv`: `TablesAgree`, `MessagesFindTheirSession`, `SendersHoldLiveSessions`;
* in `PlayerInv`: `WorkerConsistent` for each player;
* in `PanelInv`: `HandlersOwned`; it implies `SentIsShown` and `InsideKept`;
* in `PagesInv`: `StoresTheForm`, `CamerasDiffer` and `ShowsTheChannel`; it implies `RunsWhatIsStored`.

Why the bounds are enough for the interesting cases:

* Two callers with two calls each overlap a call with the dispatch of another
  and a second event with the late notification of the first.
* Four messages let the pump go through a batch of several, a swap by the
  completion, a message left behind and one that carries it away.
* Two channels and two addresses are enough for every conflict, which is
  between two. Three ids allow a deletion, an addition and a reload in between.
  Three requests (no camera, two, one) reach groups that are empty, too small,
  just enough and too large.
* Two lines of two writers put a line in every place between two steps of the worker.
* Two changes put an older and a newer check of one camera in the queue, in hand
  and in the results at once; a deletion and a new camera race a check.

* Three clients: one that ends by itself or by command, its successor, which
  meets what was left of it, and one after a start that failed in between. Three
  channels make the order of a list that is half filled matter.

* Two websocket sessions let a second close of one meet the life of the other, and one session
  with two messages lets threads send to it, and be in the way of its close.
* A picture of 4 by 3 pixels and displacements of (0,0), (2,1) and (-1,-2) let every grip
  stay inside, leave the picture, and pass the opposite edge. Panel 6, whose script has
  every difference, gets three acts (a drag, a number, another drag); panels 1 and 4
  share the mouse with two acts between them, and with the OSD text. `CropPanelProofs` has
  no such bounds.
* Two players are what one selection makes of another. Two plays of one
  player put a stop between them; one visibility change at any time hides the
  page. Four packets fill the buffer of a hidden page while a stop is on its way. A
  play starts only when less than `MaxQueue` messages wait at its worker, which
  keeps two requests in front of code that has not loaded.
* Cameras 1, 2 and 11: the list has an id whose text occurs in another, and more
  cameras than panels. Three clicks are an add or a change and two more after a
  refusal or a loss.

Only the counters named as bounds in the modules are cut off (`MaxCalls`,
`MaxMsgs`, `MaxLines`, `MaxId`, `MaxChanges`, `MaxSessions`, `MaxClients`, `Budgets`, `MaxPlayers`,
`MaxQueue`, `MaxActs`, `MaxLosses`, and what the user may do in `CropPanels`: `Worked`,
`Moves`, `Typed`); nothing else limits the runs.
`CHECK_DEADLOCK FALSE` is set where the system may stop: when the process has
ended, when nobody sends, connects or clicks any more, and (`sync_call`, `async_log`) when
it hangs in the way section 6 describes. In `video_split` and `camera` a process
that has ended may be started again, and the bound on ids or changes ends the run.

Fairness. `SyncCall`, `WsSession`, `AsyncLog`, `Camera` and `VmsDevice` assume weak fairness
of threads that are able to run: the main loop, the io thread, the workers, and
a thread inside a call. They assume nothing about the environment: no request,
message, stop, spurious wakeup or restart need ever happen. `WsSession` counts the
completion of a write among the io thread's steps: a write of a connection
that is neither read nor lost for ever would not complete. `VmsDevice` counts
`eXosip_event_wait` among the thread's steps: it is given 100 milliseconds. `WsServer` assumes
weak fairness of the main loop's messages, of its shutdown, of a sender inside the lock and of
the io thread's own steps, and strong fairness of three steps: a posted close, the
completion of a stream's close, and the io thread's taking of the mutex. `io_context` runs
its handlers in the order in which they became ready, so a loop of others cannot
starve one, and senders release the mutex between packets. Accepts,
reads, writes and failures need never come. `Player` assumes weak
fairness of the event loops of page and worker, of animation frames while the page is
visible, of the loading of the wasm code, of the server's answer to a request, and of a socket
that connects: it opens or is lost. Packets, failures and the user need never come.
`StitchPages` assumes that the server takes the requests and the page the
answers; a lost one is an action of its own, and nobody need click. `VideoSplit` and
`CropPanels` have no liveness properties and no fairness: what a worker does depends on
cameras, and what a panel does on the user.

## 4. What is proved

With TLAPS, for every value of the constants:

| Theorem | Says |
|---|---|
| `SyncCallProofs!Invariance`, `!Refinement` | `IndInv`; `SyncCall` implements `RemoteCall` |
| `ConnectionProofs!PumpInvariant`, `!SingleWrite`, `!PumpImplementsChannel` | `PumpInv`; one write at a time; the session is a `Channel` |
| `AsyncLogProofs!Invariance`, `!Complete`, `!Refinement` | `LogInv`; nothing is lost at the end; the log is a `Channel` |
| `CameraProofs!CameraInvariant` and its consequences | `CameraInv`; the last word on a camera is about its present address; no result for an id that can be given out again; a saved registry |
| `ConnectionProofs!DeviceInvariant` and its consequences | `DeviceInv`; registrations are current; starts are clean; restarts are quiet |
| `ConnectionProofs!CatalogsAlwaysCurrent` | `CatalogsAreCurrent`, an action property: what is sent is sorted and is what was saved |
| `ConnectionProofs!ServerInvariant` and its consequences | `ServerInv`; both tables are equal once everything queued is handled; messages find their session; senders hold sessions that live |
| `PlayerProofs!PlayersInvariant` and its consequences | `PlayerInv`; no player that plays is lost; the last request counts; decoders are equipped |
| `CropPanelProofs!PanelInvariant` and its consequences | `PanelInv`; whose the document's handlers are; what is sent is the box; what stays in the picture |
| `StitchPagesProofs!PagesInvariant` and its consequences | `PagesInv`; what runs is what was stored, when requests are served as sent; what is stored is what the form says, when nothing was selected before the load; no camera twice, when also both panels named one; the channel's form, when its answer came first |
| `VideoSplitProofs!Invariance` and its consequences | `IndInv`; unique ids, stable ids, true states, true GPU counts, a saved registry; exclusive addresses and different streams when no channel id is short |

The assumptions are those of the modules' `ASSUME`s: finite sets of callers and
channels, bounds that are natural numbers, a "no value" that is not a value; for the panels,
that the proposed box fits in the picture; for the stitch pages, that there are two different cameras and the
opened channel has two of them. The text test of `JudgeCamID` may hold of any pairs of cameras.

The arguments:

* `SyncCall`. The properties alone are not inductive. `CallStands` adds that a
  thread has at most one call outstanding, that its flag is up while it is, and
  that a call being dispatched is still waited for until its flag goes down. A
  thread leaves `Wait` only on seeing the flag down, so an outstanding call
  has not returned. Refinement follows from the order of `temp` before `m_list`.
* `WsServer`. What both threads know of the sessions is related through the messages between
  them: `TableAfter(known, q, n)` is the table that the main loop will have after n of
  the messages of `q`. `TablesAgree` says that after all of them it is the io thread's table,
  less the session that `Erase` is about to remove, and `MessagesFindTheirSession` that each data
  message comes while its session is in. The lemmas on `TableAfter` (a message that is
  appended, one that is taken from the front) make each step local. A close, also a
  second one of a deleted session, pushes the disconnection of the very session that `Erase` then
  removes, or one of no session at all, so both tables lose the same. `SendersHoldLiveSessions` rests on the
  mutex alone: `Erase` waits for the sender.
* `WsSession`. `OneDriver`: either the sender that won the flag, or a write or
  its completion, drives the pump, never both, and the flag is up; `NothingHalfSent`:
  `m_sending` is empty whenever somebody is about to swap it. So a swap is a
  move, and the concatenation of both lists is the channel's buffer.
* `AsyncLog`. `WakeupIsOwed`: a line in the list of a sleeping worker implies a
  writer that has yet to notify. It rests on the lock that `append_var` takes:
  a line cannot be appended between the worker's predicate and its sleep.
* `VideoSplit`. What makes it inductive over deletions with an orphaned stitch,
  crashes and reloads is `KnownChannels`: every channel in memory, in a stitch
  or in the file is in `channelIds`, so that an orphan's channel can only come
  back by a reload, which ends all stitches; `FileIds` and `FileAddrs`: the file
  itself is consistent, and agrees with memory on ids; `FreshIds`: an id not yet given
  out has state 0. `ClaimsMatch` is part of it only if `ShortIds` is empty.

* `Camera`. `LatestCheckIsCurrent` reads the queue, the hand and the results as one
  sequence, newest first, and asks of each camera that the last item for it is at its
  present address. Every step either appends to that sequence, moves an item
  along it in order, or applies its oldest part, so the last item stays the last;
  `LastOf` makes this precise and the lemmas on it (appending, taking the head, pushing the
  hand) carry the proof. What has to be added is `Queues` (the hand is empty when a
  camera is taken) and `Saving` (an unmarked registry is saved everywhere but inside
  a save); `OutstandingIdsAreOld` is needed because a new camera must find no
  older item with its id. Finiteness of the registered ids, a subset of `Ids`, gives the
  length of the snapshot that a round queues.
* `VmsDevice`. The invariant says when the thread is out of its handlers (`Quiet`):
  always when the main loop is at rest and `m_stoped` is up, since whoever raised it
  was a `destroy` that has joined the thread, or the thread itself as its last
  act in a handler. A start is granted only then, so `destroy` lowers the
  registered flag with nobody left to raise it. `ListInv` says of the list that it is sorted, has
  nothing twice, and holds what was saved, less the channels that a save has not come to
  (`todo`), which are none outside a save. That one insertion keeps the order is
  `InsertKeepsOrder`: a sorted list splits at the place of the new channel, which `SortedSplits`
  finds as the least index with a greater one. A catalog is sent by two steps only, and both
  copy the list.
* `Player`. `PlayersInv` is the conjunction of three properties that are checked by name.
  `NoPlayerLost` needs that a player not made yet has no state (in `TypeOK`): otherwise
  a new one might come playing. `LastWordCounts` reads what the worker has kept, then what
  the page has sent, as one sequence that is applied to the worker's present socket: appending a
  request changes the last word as it changes the page's wish, and serving the
  first one changes the socket as it changes what is left. It needs `WorkerConsistent`: a worker
  without code is idle, and one with code has kept nothing. When the code
  comes, the worker serves all that was kept at once (`Drained`); that this leaves a socket
  exactly when the last word of it was to play (`DrainedFollows`) is an induction over the
  kept requests. It is written without the library's induction rule: the set of lengths for which it
  fails would have a least one (`LeastOf`, from the well-foundedness of <), and that
  is neither 0 nor the successor of one for which it holds (`UpTo`). The function
  that `Drained` chooses exists for the same reason (`AfterExists`). `DecoderEquipped` follows from
  `WorkerConsistent`, where a count of buffers is bounded by the decoders that failed.

* `CropPanels`. `HandlersOwned` is inductive with `Present`: a panel without a box or with timers
  to come has had its script loaded. `SentIsShown` follows from `Reported`: after a drop the inputs and the
  hidden inputs are functions of the box, and `params` its computed style, which a reload of the
  inputs must not separate while `how` says `dropped`. `InsideKept` is not inductive, since a press
  says nothing of where the box is: `DragKept` says instead that while a grip of the kinds that keep
  a box is held, `Dragged` relates the box to `params`, where the drag began: a move keeps the
  size, a stretch the corner, and a box that began in the picture is in it. That one more
  movement keeps `Dragged` is arithmetic.

* `StitchPages`. `InOrder` follows one click through its three requests: while the modification is out and the
  server has taken everything as sent, what is not served is a stop, and once nothing
  is left the stitch does not run; after acceptance at most one request, a start, is not served, and it meets
  a stitch that does not run. `PostIsForm` holds because a page whose synchronous request is out
  runs nothing. `FormKept` is what makes `StoresTheForm` and with it `CamerasDiffer` inductive: the modify page
  may leave panel 1 out of a change for its data-state, and if the user waited for the load that
  panel selects the camera that is stored for it, or none: the test has seen what the merge keeps
  (`MergedIsForm`). It has not when a panel says "please select" or was selected before the load;
  both properties except these cases.
  The lemmas on the list of requests say what sending, serving and answering one do to it.

Every invariant, action property and refinement that a passing run checks is stated by
a theorem. Only model-checked are the liveness properties, which need fairness and
ENABLED and are out of the prover's reach: `PostedCallsAreServed`, `SleeperReturns`,
`BatchIsWritten`, `NextSendCarriesTheRest`, `LinesAreWritten`, `SeenStopReturns`, `ChangesAreChecked`, `StopReturns`,
`CommandsReturn`, `GoneSessionsLeave`, `ShutdownReturns`, `DroppedIsReleased`, `PlayingIsServed`
and `AcceptedIsPlayed`. `CurrentStreamsDiffer` of `VideoSplit` is proved as
`ExclusiveAddresses`, with what that needs for ids that are not short.

## 5. Not modelled

The reasons are in `PROJECT.json`, per component. In short: FFmpeg, CUDA and
socket calls; JSON and SIP text; page by page listings; the licence test; the
separate decoder server, the SIP robot, demos and vendored libraries.
Of the pages: the copies of the player and its decoder under `video/`, which are older and belong to a
page of their own; `Canvas3.js`, which is a comment; validation of single fields, cookies and
fullscreen; configuration, jQuery, lodash, layui, swagger-ui and the compiled
decoder. Of the camera pages only the player is modelled: adding and changing a
camera is one request each. In the
stitch manager the restart of failed stitches
(`m_video_split_list`, `m_video_split_restart`) is dead: only
`callback_decoder_failed` pushes to it and nothing calls that.

Hazards outside the present modules are listed with a note: above all the data
race of `send_packet` on the session map, and the stream that senders and the io
thread use without a common strand. `WsServer` has the second disconnection of
a session, the acceptor that is deleted under `_post_accept`, and the packets that
stitches send after `destroy` has deleted the server; its properties say what
holds whatever comes of these.

A stop command, or a shutdown, of a VMS client whose thread is running quits
the SIP context while the thread waits in it (`cvms_device.cpp:252`, before the
join at 257). `VmsDevice` has this: its properties say what holds whatever comes of
it, and `CommandsReturn` allows that the process ends.

## 6. Where code and text disagree

* `sync_call_signal`: `event.h:69-76` says that `Wait` waits for the event to
  become signaled and returns true when it was. `Wait` first stores `m_run = true`, so a
  `Set` that came before is undone; and `Set` takes no lock, so its notification
  may fall between the waiter's predicate and its sleep. In both cases the
  HTTP thread waits for ever, and the join at shutdown with it. The first needs
  the main loop to take the call between two statements of `Invoke`: rare, but a
  tick may begin there. `SleeperReturns` states the order in which it works.
* `stitch_pages_repeated`: `Modify.js:828` tells the user that there must be no repeated cameras. The
  duplicate test passes a panel that says "please select" (line 867), the request leaves
  it out (line 518), and the server merges by index into what it has: the panel keeps a camera
  that was not compared. With 2 and 1 stored, "please select" for panel 2 and camera 1 for panel 1
  store 1 twice, whatever the order of the answers. When the cameras came before the channel, both
  panels say so without the user's doing; the run finds this shorter way.

  There is a second way, by the loop at line 314: when the page has loaded it marks
  container 1 as not shown, whatever it shows, and the request leaves its panel out
  (line 512) until it is selected again. A camera that the user selected for it before is compared and not
  sent; who then picks the stored one for panel 2 has it twice, although both
  panels name different cameras. If nothing was selected before the load this is harmless:
  the panel says what is stored, or "please select". `CamerasDiffer` states what is left: no camera is stored
  twice when both panels named one in the last change that was stored, and the user
  waited for the load.

What follows has no run of its own: it is visible in the modules, in the guards of a
property or in the note of a hazard.

* `VideoSplit.proto:33` says that status 1 means that stitching has begun. A change of a channel
  overwrites its entry, status included (`cvideo_split_info_mgr.cpp:193`); the channel is then
  stitched with status 0, and its deletion does not stop it. The stitch can still be stopped by
  command.
* `chttp_code.h:44` explains `EWebFindVideoSplitId` as "the channel id exists already". It is
  also the answer for an id that was deleted (line 208).
* `chttp_code.h:46` explains `EWebVideoChannelMulticastAddress` as a conflict of multicast
  addresses. A change that takes the address of a channel whose id has one or two
  characters is granted (line 123).
* A call that is posted after the last drain of the queue is never served, and the join of
  the HTTP threads at shutdown waits for its thread for ever (`cweb_http_api_mgr.cpp:99`).
* The stitch pages stop a stitch before they send its modification, and do not start it again when
  that is refused or lost. Stop and start are asynchronous: the server may take the start
  before the stop.
* `ChangeVideoNmae` of the add page uses the id of a camera as its index in the list; `JudgeCamID` looks for
  the text of an id in the text of the others, so 1 and 11 are taken for a repetition, depending on their order.
* The worker of a player logs a lost socket and keeps it: the next play sees a socket and does nothing.
  A second play of one url does nothing either. `decWork` is one variable for all
  players. A decoder that cannot be created leaves its buffer behind.
* While the page is hidden no animation frame comes, and the buffer of frames grows.
* The interval that copies a stored tile into `params1` and `params2` may come after a drag,
  which then starts from the stored box. On the add page it fails and goes on for ever.
* A press on a grip without a movement is not ended by its release, since a panel
  installs `onmouseup` in its first movement.

## 7. Plan

In the order of importance; the first ten are done, with their proofs.

1. Channel registry and stitches (`VideoSplit`), with its proofs.
2. The call into the main loop (`SyncCall` under `RemoteCall`), with its proofs.
3. The websocket write pump (`WsSession` under `Channel`), with its proofs.
4. The log (`AsyncLog` under `Channel`), with its proofs.
5. Cameras (`Camera`), with its proofs.
6. The VMS client (`VmsDevice`), with its proofs.
7. The websocket server (`WsServer`), with its proofs.
8. The crop panels (`CropPanels`), with their proofs.
9. The live player and its worker (`Player`), with its proofs.
10. The stitch pages and their requests (`StitchPages`), with their proofs.
11. `Pipeline`: the worker, its decoder threads, reconnection and `destroy`; the
    pacing of decoders against the encoder with its counters' wrap-around.
12. The settings of the VMS and their file, the list of ports.
13. A composition of `SyncCall` and `VideoSplit`: a request that was answered is
    saved by the end of its tick.
14. Proofs for 11 to 13.
