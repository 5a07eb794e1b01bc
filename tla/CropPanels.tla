----------------------------- MODULE CropPanels -----------------------------
(***************************************************************************)
(* The crop boxes of the stitch pages (video_split/js/Canvas1.js to        *)
(* Canvas12.js, with the parts of SplicInfos.js and Modify.js that touch a *)
(* box).  A panel shows one camera; the user frames a part of its picture  *)
(* with a box that can be dragged and stretched by eight grips, and the    *)
(* panel's text inputs follow.  Each panel keeps the box (a CSS style),    *)
(* its inputs, two hidden inputs with the size, and `params`, the geometry *)
(* the next drag starts from.  The panels share one mouse: a press         *)
(* installs document.onmousemove, the first move installs                  *)
(* document.onmouseup, and so does the OSD text of the same page.          *)
(*                                                                         *)
(* Canvas1 and Canvas2 show a live player; Canvas4 to Canvas12 an image    *)
(* (Canvas3.js has no code left).  One module models the ten files: what   *)
(* differs between them is named (Nudged, Throws, OpenLive, OpenImage).    *)
(*                                                                         *)
(* A coordinate is a whole pixel or NaN: a style that is absent or was     *)
(* refused, or the text "NaN" in an input.  Not modelled: a box that is    *)
(* replaced while the mouse holds its grip (guard Released).               *)
(***************************************************************************)
EXTENDS Integers

CONSTANTS
  NaN, Empty,      \* not a number; the empty input
  Osd, Nobody,     \* owners of the document's handlers besides the panels
  W, H,            \* bgwidth and bgheight, the size of a picture
  Default,         \* width and height of the box the pages propose (100)
  HiddenDefault,   \* cropImageWidth and cropImageHeight in the HTML (180)
  OsdW, OsdH,      \* how far the OSD text may go to the right and down
  Tile,            \* the stored boxes of panels 1 and 2 of the channel
  Layouts,         \* the panel counts the layout select offers
  Worked,          \* the sets of panels the user works with (a bound)
  Moves,           \* displacements of the mouse since the press (a bound)
  Typed,           \* what the user types into an input (a bound)
  MaxActs          \* presses, typings, reselections, for each of them (a bound)

LivePanels == {1, 2}
ImagePanels == 4..12
Panels == LivePanels \cup ImagePanels
Numbers == Int \cup {NaN}
Texts == Numbers \cup {Empty}
Geometry(S) == [left : S, top : S, width : S, height : S]
Inputs == [left : Texts, up : Texts, right : Texts, down : Texts]
Grips == {"n", "s", "e", "w", "nw", "ne", "sw", "se"}
Kinds == Grips \cup {"drag"}

ASSUME ValueAssumption ==
  /\ {NaN, Empty, Osd, Nobody} \cap Int = {}
  /\ NaN # Empty /\ Osd # Nobody
ASSUME SizeAssumption ==
  /\ {W, H, Default, HiddenDefault, OsdW, OsdH} \subseteq Nat
  /\ Default <= W /\ Default <= H
  /\ Tile \in [LivePanels -> Geometry(Nat)]
ASSUME InputAssumption ==
  /\ Layouts \subseteq 2..12
  /\ Worked \subseteq SUBSET Panels
  /\ Moves \subseteq Int \X Int
  /\ Typed \subseteq Nat \cup {Empty}
  /\ MaxActs \in [Worked -> Nat]

VARIABLES
  page,      \* "add" (SplicInfos.js) or "modify" (Modify.js)
  worked,    \* the panels of this behaviour
  layout,    \* prevnum: panels 1..layout have their script
  tiles,     \* tileArray has been filled (only the modify page does it)
  inp,       \* inp[p]: the inputs leftN, upN, rightN, downN
  crop,      \* crop[p]: the hidden inputs cropImageWidthN/HeightN
  box,       \* box[p]: the style of zxxCropBoxN
  params,    \* params[p]: left, top, width, height of paramsN
  flag,      \* flag[p]: paramsN.flag
  kind,      \* kind[p]: paramsN.kind
  waits,     \* waits[p]: the timers and the image load of the panel to come
  onmove,    \* whose document.onmousemove is installed
  onup,      \* whose document.onmouseup is installed
  button,    \* the mouse button is down
  osd,       \* the OSD text: position, position at the press, isDown
  how,       \* history: what wrote the box last ("none": there is no box)
  acts       \* history: user actions so far

panelVars == <<inp, crop, box, params, flag, kind, waits, how>>
mouseVars == <<onmove, onup, button, osd>>
pageVars == <<page, worked, layout, tiles>>
vars == <<panelVars, mouseVars, pageVars, acts>>

-----------------------------------------------------------------------------
(* Numbers of the browser. *)

\* Mutant of Parse: the text is used without parseInt.
RawText(v) == v

\* parseInt of a text, and sums that NaN absorbs.
Parse(v) == IF v \in Int THEN v ELSE NaN
Plus(a, b) == IF a \in Int /\ b \in Int THEN a + b ELSE NaN
Minus(a, b) == IF a \in Int /\ b \in Int THEN a - b ELSE NaN
NotBelow0(v) == IF v \in Int /\ v < 0 THEN 0 ELSE v

\* A style of width or height refuses a negative length: what it had stays.
Sized(old, v) == IF v \in Int /\ v >= 0 THEN v ELSE old

\* The computed style in pixels; an absent one computes to 0 for this box.
Computed(v) == IF v \in Int THEN v ELSE 0
ComputedBox(b) ==
  [left |-> Computed(b.left), top |-> Computed(b.top),
   width |-> Computed(b.width), height |-> Computed(b.height)]

NoBox == [left |-> NaN, top |-> NaN, width |-> NaN, height |-> NaN]
Zero == [left |-> 0, top |-> 0, width |-> 0, height |-> 0]

\* The style the pages build from the inputs.
BoxOf(i) ==
  [left |-> Parse(i.left), top |-> Parse(i.up),
   width |-> Sized(NaN, Minus(i.right, i.left)),
   height |-> Sized(NaN, Minus(i.down, i.up))]

\* Empty inputs get the default box.
Or(v, default) == IF v # Empty THEN v ELSE default
Filled(i) ==
  [left |-> Or(i.left, 0), up |-> Or(i.up, 0),
   right |-> Or(i.right, Default), down |-> Or(i.down, Default)]

Cleared == [left |-> Empty, up |-> Empty, right |-> Empty, down |-> Empty]
HtmlInputs == Filled(Cleared)

\* Mutant of CropOf: width and height exchanged.
CropSwapped(b) == [w |-> b.height, h |-> b.width]

\* What a drop writes into the hidden inputs, and into the others.
CropOf(b) == [w |-> b.width, h |-> b.height]
InputsOf(b) ==
  LET x == NotBelow0(b.left)
      y == NotBelow0(b.top)
  IN  [left |-> x, up |-> y, right |-> NotBelow0(Plus(x, b.width)),
       down |-> NotBelow0(Plus(y, b.height))]

-----------------------------------------------------------------------------
(* The geometry of a drag: b the box, q the params, d the displacement. *)

North(k) == k \in {"n", "nw", "ne"}
South(k) == k \in {"s", "sw", "se"}
West(k) == k \in {"w", "nw", "sw"}
East(k) == k \in {"e", "ne", "se"}

\* What the conditions of the eight grips ask.
MayStretch(k, q, d) ==
  /\ North(k) => q.top + d[2] > 0
  /\ South(k) => q.height + d[2] + q.top < H
  /\ West(k) => q.left + d[1] > 0
  /\ East(k) => q.width + d[1] + q.left < W

Stretched(b, q, k, d) ==
  [left |-> IF West(k) THEN q.left + d[1] ELSE b.left,
   top |-> IF North(k) THEN q.top + d[2] ELSE b.top,
   width |-> IF West(k) THEN Sized(b.width, q.width - d[1])
             ELSE IF East(k) THEN Sized(b.width, q.width + d[1]) ELSE b.width,
   height |-> IF North(k) THEN Sized(b.height, q.height - d[2])
              ELSE IF South(k) THEN Sized(b.height, q.height + d[2])
              ELSE b.height]

\* Mutant of Kept: only the left (top) edge is kept.
KeptAtStart(v, size, max) == IF v < 0 THEN 0 ELSE v

\* The drag keeps the box in the picture; the left (top) edge is tried first.
Kept(v, size, max) ==
  IF v < 0 THEN 0
  ELSE IF size \in Int /\ v + size > max THEN max - size ELSE v

Moved(b, q, k, d) ==
  IF k = "drag"
  THEN [b EXCEPT !.left = Kept(q.left + d[1], b.width, W),
                 !.top = Kept(q.top + d[2], b.height, H)]
  ELSE IF MayStretch(k, q, d) THEN Stretched(b, q, k, d) ELSE b

\* Canvas2 turns no displacement into one pixel.
Nudged(p, d) ==
  IF p = 2 THEN <<IF d[1] = 0 THEN 1 ELSE d[1], IF d[2] = 0 THEN 1 ELSE d[2]>>
  ELSE d

\* Canvas6 reads an unknown name in the second condition of grip "ne": the
\* handler ends there, with nothing moved and no mouseup handler installed.
Throws(p, d) ==
  /\ p = 6 /\ kind[p] = "ne"
  /\ params[p].width + d[1] + params[p].left < W

-----------------------------------------------------------------------------
Init ==
  /\ page \in {"add", "modify"}
  /\ worked \in Worked
  /\ layout = 2
  /\ tiles = FALSE
  /\ inp = [p \in Panels |-> IF p <= 2 \/ page = "modify" THEN HtmlInputs
                             ELSE Cleared]
  /\ crop = [p \in Panels |-> [w |-> HiddenDefault, h |-> HiddenDefault]]
  /\ box = [p \in Panels |-> NoBox]
  /\ params = [p \in Panels |-> Zero]
  /\ flag = [p \in Panels |-> FALSE]
  /\ kind = [p \in Panels |-> "drag"]
  /\ waits = [p \in Panels |-> {}]
  /\ onmove = Nobody /\ onup = Nobody /\ button = FALSE
  /\ osd = [left |-> 0, top |-> 0, l |-> 0, t |-> 0, down |-> FALSE]
  /\ how = [p \in Panels |-> "none"]
  /\ acts = 0

Act == acts < MaxActs[worked] /\ acts' = acts + 1

HasBox(p) == how[p] # "none"

\* No handler of the document holds the panel's box.
Released(p) == onmove # p /\ onup # p

\* ExecuteCanvas1/2 and cutImg1/2: the box is made from the inputs as they
\* are, and only then the empty ones are filled; params wait for the tiles.
\* With the tiles known ChangeVideoNmae also asks for the stored box.
OpenLive(p) ==
  /\ p \in worked /\ Released(p)
  /\ IF HasBox(p) THEN Act ELSE UNCHANGED acts
  /\ box' = [box EXCEPT ![p] = BoxOf(inp[p])]
  /\ inp' = [inp EXCEPT ![p] = Filled(@)]
  /\ waits' = [waits EXCEPT ![p] = @ \cup {"params"} \cup
                 (IF tiles THEN {"coordinate"} ELSE {})]
  /\ how' = [how EXCEPT ![p] = "fresh"]
  /\ UNCHANGED <<crop, params, flag, kind, mouseVars, pageVars>>

\* ExecuteCanvasN, the image's onload and cutImgN of the image panels.
OpenImage(p) ==
  /\ "image" \in waits[p]
  /\ waits' = [waits EXCEPT ![p] = @ \ {"image"}]
  /\ inp' = [inp EXCEPT ![p] = Filled(@)]
  /\ box' = [box EXCEPT ![p] = BoxOf(inp'[p])]
  /\ crop' = [crop EXCEPT ![p] = CropOf(box'[p])]
  /\ params' = [params EXCEPT ![p] = ComputedBox(box'[p])]
  /\ how' = [how EXCEPT ![p] = IF box'[p] \in Geometry(Int) THEN "opened"
                               ELSE "edited"]
  /\ UNCHANGED <<flag, kind, mouseVars, pageVars, acts>>

\* The grip's onmousedown.  A grip pressed again before the last drag was
\* dropped starts from params that are older than the box.  ("edited" also
\* stands for a box that lacks a length.)
Press(p, k) ==
  /\ HasBox(p) /\ ~button /\ Act
  /\ flag' = [flag EXCEPT ![p] = TRUE]
  /\ kind' = [kind EXCEPT ![p] = k]
  /\ onmove' = p /\ button' = TRUE
  /\ how' = [how EXCEPT ![p] = IF @ = "moved" \/ box[p] \notin Geometry(Int)
                                THEN "edited" ELSE @]
  /\ UNCHANGED <<inp, crop, box, params, waits, onup, osd, pageVars>>

\* document.onmousemove of the panel; it needs no button, only flag.
Drag(p, d) ==
  /\ onmove = p
  /\ ~(flag[p] /\ Throws(p, d))
  /\ IF flag[p]
     THEN /\ box' = [box EXCEPT ![p] = Moved(@, params[p], kind[p], Nudged(p, d))]
          /\ how' = [how EXCEPT ![p] =
                       IF @ \in {"opened", "dropped", "moved"} THEN "moved"
                       ELSE "edited"]
     ELSE UNCHANGED <<box, how>>
  /\ onup' = p
  /\ UNCHANGED <<inp, crop, params, flag, kind, waits, onmove, button, osd,
                 pageVars, acts>>

\* Mutant of HandlersFreed: the mouseup handler stays installed.
OnlyMoveFreed == onmove' = Nobody /\ onup' = onup

\* A drop gives both handlers of the document back.
HandlersFreed == onmove' = Nobody /\ onup' = Nobody

\* document.onmouseup of the panel: the inputs are written from the box.
Drop(p) ==
  LET b == box[p]
  IN  /\ onup = p /\ button
      /\ HandlersFreed /\ button' = FALSE
      /\ flag' = [flag EXCEPT ![p] = FALSE]
      /\ params' = [params EXCEPT ![p] = ComputedBox(b)]
      /\ inp' = [inp EXCEPT ![p] = InputsOf(b)]
      /\ crop' = [crop EXCEPT ![p] = CropOf(b)]
      /\ how' = [how EXCEPT ![p] = "dropped"]
      /\ UNCHANGED <<box, kind, waits, osd, pageVars, acts>>

\* The button goes down beside the boxes, or up with no handler to hear it.
PressElsewhere ==
  /\ ~button /\ Act /\ button' = TRUE
  /\ UNCHANGED <<panelVars, onmove, onup, osd, pageVars>>
ReleaseUnheard ==
  /\ button /\ onup = Nobody /\ button' = FALSE
  /\ UNCHANGED <<panelVars, onmove, onup, osd, pageVars, acts>>

-----------------------------------------------------------------------------
(* The files: one pair of definitions each. *)

DragPanel(p) ==
  \/ \E k \in Kinds : Press(p, k)
  \/ \E d \in Moves : Drag(p, d)
  \/ Drop(p)

Canvas1Open == OpenLive(1)
Canvas2Open == OpenLive(2)
Canvas4Open == OpenImage(4)
Canvas5Open == OpenImage(5)
Canvas6Open == OpenImage(6)
Canvas7Open == OpenImage(7)
Canvas8Open == OpenImage(8)
Canvas9Open == OpenImage(9)
Canvas10Open == OpenImage(10)
Canvas11Open == OpenImage(11)
Canvas12Open == OpenImage(12)

Canvas1Drag == DragPanel(1)
Canvas2Drag == DragPanel(2)
Canvas4Drag == DragPanel(4)
Canvas5Drag == DragPanel(5)
Canvas6Drag == DragPanel(6)
Canvas7Drag == DragPanel(7)
Canvas8Drag == DragPanel(8)
Canvas9Drag == DragPanel(9)
Canvas10Drag == DragPanel(10)
Canvas11Drag == DragPanel(11)
Canvas12Drag == DragPanel(12)

-----------------------------------------------------------------------------
(* The pages. *)

\* sendGetTileAjax of the modify page: the channel's stored boxes arrive.
TilesArrive ==
  /\ page = "modify" /\ ~tiles /\ tiles' = TRUE
  /\ UNCHANGED <<panelVars, mouseVars, page, worked, layout, acts>>

\* The interval of cutImg1/2, once a second until the tiles are there.  The
\* add page has no tileArray: there it fails for ever.
ParamsTick(p) ==
  /\ "params" \in waits[p] /\ tiles
  /\ params' = [params EXCEPT ![p] = Tile[p]]
  /\ waits' = [waits EXCEPT ![p] = @ \ {"params"}]
  /\ how' = [how EXCEPT ![p] = "edited"]
  /\ UNCHANGED <<inp, crop, box, flag, kind, mouseVars, pageVars, acts>>

\* InitCoordinate of the modify page, 100 ms after the panel was opened.
InitCoordinate(p) ==
  /\ "coordinate" \in waits[p]
  /\ box' = [box EXCEPT ![p] = Tile[p]]
  /\ waits' = [waits EXCEPT ![p] = @ \ {"coordinate"}]
  /\ how' = [how EXCEPT ![p] = "edited"]
  /\ UNCHANGED <<inp, crop, params, flag, kind, mouseVars, pageVars, acts>>

\* onkeyup of an input removes a single 0.
Keyup(v) == IF v = 0 THEN Empty ELSE v

\* One input is typed into: v stays there, and when it fits the box moves
\* along one axis and the opposite input follows.
Edited(p, b, i) ==
  /\ HasBox(p) /\ Act
  /\ box' = [box EXCEPT ![p] = b]
  /\ inp' = [inp EXCEPT ![p] = i]
  /\ how' = [how EXCEPT ![p] = "edited"]
  /\ UNCHANGED <<crop, params, flag, kind, waits, mouseVars, pageVars>>

ChangeUp1(p, v) ==
  LET i == [inp[p] EXCEPT !.up = Keyup(v)]
      height == Computed(box[p].height)
  IN  IF v # Empty /\ v + height <= H
      THEN Edited(p, [box[p] EXCEPT !.top = v], [i EXCEPT !.down = v + height])
      ELSE Edited(p, box[p], i)

ChangeDown1(p, v) ==
  LET i == [inp[p] EXCEPT !.down = Keyup(v)]
      top == v - Computed(box[p].height)
  IN  IF v # Empty /\ v <= H /\ top >= 0
      THEN Edited(p, [box[p] EXCEPT !.top = top], [i EXCEPT !.up = top])
      ELSE Edited(p, box[p], i)

ChangeLeft1(p, v) ==
  LET i == [inp[p] EXCEPT !.left = Keyup(v)]
      width == Computed(box[p].width)
  IN  IF v # Empty /\ v + width <= W
      THEN Edited(p, [box[p] EXCEPT !.left = v], [i EXCEPT !.right = v + width])
      ELSE Edited(p, box[p], i)

\* The add page returns before it moves anything; the modify page pushes the
\* box to the right edge whatever was typed.
ChangeRight1(p, v) ==
  LET i == [inp[p] EXCEPT !.right = Keyup(v)]
      width == Computed(box[p].width)
  IN  IF page = "modify" /\ v # Empty /\ v <= W /\ v > width
      THEN Edited(p, [box[p] EXCEPT !.left = W - width],
                     [i EXCEPT !.left = W - width])
      ELSE Edited(p, box[p], i)

Type(p) ==
  \E v \in Typed : \/ ChangeUp1(p, v) \/ ChangeDown1(p, v)
                   \/ ChangeLeft1(p, v) \/ ChangeRight1(p, v)

\* The boxes of the panels in S leave the page; the images of the panels in
\* L are loading, those of S no longer.
Unboxed(S, L) ==
  /\ \A p \in S : Released(p)
  /\ waits' = [p \in Panels |-> IF p \in S THEN waits[p] \ {"image"}
                                ELSE IF p \in L THEN waits[p] \cup {"image"}
                                ELSE waits[p]]
  /\ box' = [p \in Panels |-> IF p \in S THEN NoBox ELSE box[p]]
  /\ how' = [p \in Panels |-> IF p \in S THEN "none" ELSE how[p]]

\* loadJS: scripts are added, and run, or removed; the inputs of the panels that are
\* not shown are emptied (the modify page only looks at panels 1 and 2).
LoadScripts(n) ==
  /\ n # layout
  /\ IF n > layout THEN UNCHANGED acts ELSE Act
  /\ layout' = n
  /\ Unboxed({p \in worked : n < p /\ p <= layout},
             {p \in worked : layout < p /\ p <= n})
  /\ inp' = [p \in Panels |-> IF page = "add" /\ n < p THEN Cleared ELSE inp[p]]
  /\ UNCHANGED <<crop, params, flag, kind, mouseVars, page, worked, tiles>>

\* ChangeVideoNmae of an image panel: the box goes, and with no image (the
\* callers pass null) onload never makes another.
SelectCamera(p) ==
  /\ p \in ImagePanels \cap worked /\ p <= layout /\ Act
  /\ Unboxed({p}, {})
  /\ UNCHANGED <<inp, crop, params, flag, kind, mouseVars, pageVars>>

\* moveOSD: the text takes the document's handlers and never returns them.
OsdPress ==
  /\ ~button /\ Act
  /\ osd' = [osd EXCEPT !.l = osd.left, !.t = osd.top, !.down = TRUE]
  /\ onmove' = Osd /\ onup' = Osd /\ button' = TRUE
  /\ UNCHANGED <<panelVars, pageVars>>

OsdDrag(d) ==
  /\ onmove = Osd /\ osd.down
  /\ osd' = [osd EXCEPT !.left = Kept(osd.l + d[1], 0, OsdW),
                        !.top = Kept(osd.t + d[2], 0, OsdH)]
  /\ UNCHANGED <<panelVars, onmove, onup, button, pageVars, acts>>

OsdDrop ==
  /\ onup = Osd /\ button /\ button' = FALSE
  /\ osd' = [osd EXCEPT !.down = FALSE]
  /\ UNCHANGED <<panelVars, onmove, onup, pageVars, acts>>

moveOSD == OsdPress \/ OsdDrop \/ \E d \in Moves : OsdDrag(d)

-----------------------------------------------------------------------------
Files ==
  \/ Canvas1Open \/ Canvas2Open \/ Canvas4Open \/ Canvas5Open \/ Canvas6Open
  \/ Canvas7Open \/ Canvas8Open \/ Canvas9Open \/ Canvas10Open
  \/ Canvas11Open \/ Canvas12Open
  \/ Canvas1Drag \/ Canvas2Drag \/ Canvas4Drag \/ Canvas5Drag \/ Canvas6Drag
  \/ Canvas7Drag \/ Canvas8Drag \/ Canvas9Drag \/ Canvas10Drag
  \/ Canvas11Drag \/ Canvas12Drag

Pages ==
  \/ TilesArrive
  \/ \E p \in LivePanels : ParamsTick(p) \/ InitCoordinate(p)
  \/ \E p \in Panels : Type(p) \/ SelectCamera(p)
  \/ \E n \in Layouts : LoadScripts(n)
  \/ moveOSD \/ PressElsewhere \/ ReleaseUnheard

Next == Files \/ Pages

Spec == Init /\ [][Next]_vars

-----------------------------------------------------------------------------
(* Properties. *)

TypeOK ==
  /\ page \in {"add", "modify"} /\ worked \in SUBSET Panels
  /\ layout \in 2..12 /\ tiles \in BOOLEAN
  /\ inp \in [Panels -> Inputs]
  /\ crop \in [Panels -> [w : Numbers, h : Numbers]]
  /\ box \in [Panels -> Geometry(Numbers)]
  /\ params \in [Panels -> Geometry(Int)]
  /\ flag \in [Panels -> BOOLEAN] /\ kind \in [Panels -> Kinds]
  /\ waits \in [Panels -> SUBSET {"params", "coordinate", "image"}]
  /\ onmove \in Panels \cup {Osd, Nobody}
  /\ onup \in Panels \cup {Osd, Nobody}
  /\ button \in BOOLEAN
  /\ osd \in [left : Int, top : Int, l : Int, t : Int, down : BOOLEAN]
  /\ how \in [Panels -> {"none", "fresh", "opened", "moved", "dropped", "edited"}]
  /\ acts \in Nat

\* videoMsg of the add page takes the entry of the camera group from the
\* inputs, the one of the modify page takes it from the style.
AddEntry(p) ==
  [x |-> Parse(inp[p].left), y |-> Parse(inp[p].up),
   w |-> Parse(crop[p].w), h |-> Parse(crop[p].h)]
ModifyEntry(p) ==
  LET b == ComputedBox(box[p])
  IN  [x |-> b.left, y |-> b.top, w |-> b.width, h |-> b.height]

\* A handler of the document belongs to a panel that has a box and whose
\* drag has not been dropped, and while the OSD text is held nobody else has a handler: no
\* release of one drag can end, or report, the drag of another.
HandlersOwned ==
  /\ \A p \in Panels : onmove = p \/ onup = p => flag[p] /\ HasBox(p)
  /\ osd.down => onmove = Osd /\ onup = Osd /\ button

\* After a drop the next drag starts from the box as it is shown, and both
\* pages send that box: the add page from its inputs, the modify page from
\* the style (an edge left of or above the picture is sent as 0).
SentIsShown ==
  \A p \in Panels :
    /\ how[p] \in {"opened", "dropped"} => params[p] = ComputedBox(box[p])
    /\ how[p] = "dropped" =>
         AddEntry(p) = [x |-> NotBelow0(box[p].left), y |-> NotBelow0(box[p].top),
                        w |-> box[p].width, h |-> box[p].height]
    /\ how[p] = "dropped" /\ inp[p].right # NaN /\ inp[p].down # NaN
         /\ box[p].left >= 0 /\ box[p].top >= 0 => AddEntry(p) = ModifyEntry(p)

Inside(b) ==
  /\ b \in Geometry(Nat)
  /\ b.left + b.width <= W /\ b.top + b.height <= H

\* The kinds whose conditions bound the edge they move.  The others let a
\* negative height or width be refused while the edge moves on.
Keeping == {"drag", "s", "e", "se"}

\* A box that was in the picture when the drag began stays in it.
InsideKept ==
  \A p \in Panels :
    /\ flag[p] /\ kind[p] \in Keeping /\ Inside(params[p])
    /\ how[p] \in {"opened", "dropped", "moved"}
    => Inside(box[p])
-----------------------------------------------------------------------------
(* The inductive invariant. *)

\* Only panels that are worked with and shown have a box or wait for one.
Present ==
  \A p \in Panels :
    /\ HasBox(p) \/ waits[p] # {} => p \in worked /\ p <= layout
    /\ p \in ImagePanels => waits[p] \subseteq {"image"}

Reported ==
  \A p \in Panels :
    /\ how[p] \in {"opened", "dropped"} => params[p] = ComputedBox(box[p])
    /\ how[p] = "dropped" => inp[p] = InputsOf(box[p]) /\ crop[p] = CropOf(box[p])
    /\ how[p] = "opened" => box[p] \in Geometry(Int)

\* What a drag of one of the Keeping kinds has left of the params.
Dragged(b, q, k) ==
  /\ b \in Geometry(Int)
  /\ k = "drag" => b.width = q.width /\ b.height = q.height
  /\ k # "drag" => b.left = q.left /\ b.top = q.top
  /\ k = "s" => b.width = q.width
  /\ k = "e" => b.height = q.height
  /\ Inside(q) => Inside(b)

DragKept ==
  \A p \in Panels :
    flag[p] /\ kind[p] \in Keeping /\ how[p] \in {"opened", "dropped", "moved"}
      => Dragged(box[p], params[p], kind[p])

\* The properties above and what makes them inductive.
PanelInv == TypeOK /\ HandlersOwned /\ Present /\ Reported /\ DragKept
=============================================================================
