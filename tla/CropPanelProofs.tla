--------------------------- MODULE CropPanelProofs ---------------------------
(***************************************************************************)
(* Proofs about the crop boxes, for every size of the picture, every set   *)
(* of panels the user works with and any number of user actions.           *)
(***************************************************************************)
EXTENDS CropPanels, TLAPS

USE DEF Geometry, Numbers, Texts, Inputs, Panels, LivePanels, ImagePanels

-----------------------------------------------------------------------------
(* The operators on boxes and inputs. *)

LEMMA NumberTypes ==
  ASSUME NEW a \in Numbers, NEW b \in Numbers
  PROVE  /\ Plus(a, b) \in Numbers /\ Minus(a, b) \in Numbers
         /\ NotBelow0(a) \in Numbers
         /\ Sized(a, b) \in Numbers
         /\ Computed(a) \in Int
  BY DEF Plus, Minus, NotBelow0, Sized, Computed

LEMMA ParseType == ASSUME NEW v PROVE Parse(v) \in Numbers
  BY DEF Parse

LEMMA ParseOfNumber == ASSUME NEW v \in Numbers PROVE Parse(v) = v
  BY ValueAssumption DEF Parse

LEMMA ComputedBoxType ==
  ASSUME NEW b \in Geometry(Numbers)
  PROVE  ComputedBox(b) \in Geometry(Int)
  BY DEF ComputedBox, Computed

LEMMA ComputedBoxOfNumbers ==
  ASSUME NEW b \in Geometry(Int)
  PROVE  ComputedBox(b) = b
  BY DEF ComputedBox, Computed

LEMMA FilledType ==
  ASSUME NEW i \in Inputs
  PROVE  Filled(i) \in Inputs
  BY SizeAssumption DEF Filled, Or

LEMMA BoxOfType ==
  ASSUME NEW i \in Inputs
  PROVE  BoxOf(i) \in Geometry(Numbers)
<1>1. \A v \in Texts : v \in Numbers \/ v = Empty
  OBVIOUS
<1>2. Minus(i.right, i.left) \in Numbers /\ Minus(i.down, i.up) \in Numbers
  BY DEF Minus
<1>3. Sized(NaN, Minus(i.right, i.left)) \in Numbers
      /\ Sized(NaN, Minus(i.down, i.up)) \in Numbers
  BY <1>2, NumberTypes
<1> QED
  BY <1>3, ParseType DEF BoxOf

LEMMA InputsOfType ==
  ASSUME NEW b \in Geometry(Numbers)
  PROVE  InputsOf(b) \in Inputs
<1> DEFINE x == NotBelow0(b.left)
           y == NotBelow0(b.top)
<1>1. x \in Numbers /\ y \in Numbers
  BY NumberTypes
<1>2. Plus(x, b.width) \in Numbers /\ Plus(y, b.height) \in Numbers
  BY <1>1, NumberTypes
<1>3. NotBelow0(Plus(x, b.width)) \in Numbers /\ NotBelow0(Plus(y, b.height)) \in Numbers
  BY <1>2, NumberTypes
<1> QED
  BY <1>1, <1>3 DEF InputsOf

LEMMA KeptType ==
  ASSUME NEW v \in Int, NEW size \in Numbers, NEW max \in Int
  PROVE  Kept(v, size, max) \in Int
  BY DEF Kept

\* A move keeps a box that was in the picture in the picture.
LEMMA KeptInside ==
  ASSUME NEW v \in Int, NEW size \in Nat, NEW max \in Nat, size <= max
  PROVE  Kept(v, size, max) \in Nat /\ Kept(v, size, max) + size <= max
  BY DEF Kept

LEMMA NudgedType ==
  ASSUME NEW p, NEW d \in Int \X Int
  PROVE  Nudged(p, d) \in Int \X Int
  BY DEF Nudged

LEMMA StretchedType ==
  ASSUME NEW b \in Geometry(Numbers), NEW q \in Geometry(Int), NEW k,
         NEW d \in Int \X Int
  PROVE  Stretched(b, q, k, d) \in Geometry(Numbers)
<1>1. /\ q.width - d[1] \in Numbers /\ q.width + d[1] \in Numbers
      /\ q.height - d[2] \in Numbers /\ q.height + d[2] \in Numbers
      /\ q.left + d[1] \in Numbers /\ q.top + d[2] \in Numbers
      /\ b.width \in Numbers /\ b.height \in Numbers
  OBVIOUS
<1>2. /\ Sized(b.width, q.width - d[1]) \in Numbers
      /\ Sized(b.width, q.width + d[1]) \in Numbers
      /\ Sized(b.height, q.height - d[2]) \in Numbers
      /\ Sized(b.height, q.height + d[2]) \in Numbers
  BY <1>1, NumberTypes
<1> QED
  BY <1>1, <1>2 DEF Stretched

LEMMA MovedType ==
  ASSUME NEW b \in Geometry(Numbers), NEW q \in Geometry(Int), NEW k,
         NEW d \in Int \X Int
  PROVE  Moved(b, q, k, d) \in Geometry(Numbers)
<1>1. /\ q.left + d[1] \in Int /\ q.top + d[2] \in Int /\ W \in Int /\ H \in Int
      /\ b.width \in Numbers /\ b.height \in Numbers
  BY SizeAssumption
<1>2. Kept(q.left + d[1], b.width, W) \in Int /\ Kept(q.top + d[2], b.height, H) \in Int
  BY <1>1, KeptType
<1> QED
  BY <1>2, StretchedType DEF Moved

\* A step of a drag of one of the Keeping kinds keeps what Dragged says.
LEMMA MovedDragged ==
  ASSUME NEW b, NEW q \in Geometry(Int), NEW k \in Keeping, NEW d \in Int \X Int,
         Dragged(b, q, k)
  PROVE  Dragged(Moved(b, q, k, d), q, k)
<1>1. d[1] \in Int /\ d[2] \in Int /\ W \in Nat /\ H \in Nat
  BY SizeAssumption
<1>2. b \in Geometry(Int)
  BY DEF Dragged
<1>3. CASE k = "drag"
  <2> DEFINE x == Kept(q.left + d[1], b.width, W)
             y == Kept(q.top + d[2], b.height, H)
  <2>1. x \in Int /\ y \in Int
    <3>1. q.left + d[1] \in Int /\ q.top + d[2] \in Int
          /\ b.width \in Numbers /\ b.height \in Numbers /\ W \in Int /\ H \in Int
      BY <1>1, <1>2
    <3> QED
      BY <3>1, KeptType
  <2>2. Moved(b, q, k, d) = [left |-> x, top |-> y, width |-> b.width,
                             height |-> b.height]
    BY <1>2, <1>3 DEF Moved
  <2>3. b.width = q.width /\ b.height = q.height
    BY <1>3 DEF Dragged
  <2>4. ASSUME Inside(q)
        PROVE  /\ x \in Nat /\ x + b.width <= W
               /\ y \in Nat /\ y + b.height <= H
    <3>1. b.width \in Nat /\ b.height \in Nat /\ b.width <= W /\ b.height <= H
      BY <2>3, <2>4, <1>1 DEF Inside
    <3>2. q.left + d[1] \in Int /\ q.top + d[2] \in Int
      BY <1>1
    <3> QED
      BY <3>1, <3>2, <1>1, KeptInside
  <2> QED
    BY <1>2, <1>3, <2>1, <2>2, <2>3, <2>4 DEF Dragged, Inside
<1>4. CASE k # "drag"
  <2>1. k \in {"s", "e", "se"}
    BY <1>4 DEF Keeping
  <2>2. CASE ~MayStretch(k, q, d)
    BY <2>2, <1>4 DEF Moved
  <2>3. CASE MayStretch(k, q, d)
    <3> DEFINE c == Stretched(b, q, k, d)
    <3>1. Moved(b, q, k, d) = c
      BY <2>3, <1>4 DEF Moved
    <3>2. /\ c.left = b.left /\ c.top = b.top
          /\ c.width = IF k = "s" THEN b.width ELSE Sized(b.width, q.width + d[1])
          /\ c.height = IF k = "e" THEN b.height ELSE Sized(b.height, q.height + d[2])
          /\ c = [left |-> c.left, top |-> c.top, width |-> c.width, height |-> c.height]
      BY <2>1 DEF Stretched, North, South, West, East
    <3>3. /\ k # "s" => q.width + d[1] + q.left < W
          /\ k # "e" => q.height + d[2] + q.top < H
      BY <2>1, <2>3 DEF MayStretch, South, East
    <3>4. c.width \in Int /\ c.height \in Int
      BY <3>2, <1>1, <1>2 DEF Sized
    <3>5. c \in Geometry(Int)
      BY <3>2, <3>4, <1>2
    <3>6. ASSUME Inside(q) PROVE Inside(c)
      <4>1. Inside(b)
        BY <3>6 DEF Dragged
      <4>2. b.left = q.left /\ b.top = q.top
        BY <1>4 DEF Dragged
      <4>3. c.width \in Nat /\ c.left + c.width <= W
        BY <4>1, <4>2, <3>2, <3>3, <1>1, <1>2 DEF Sized, Inside
      <4>4. c.height \in Nat /\ c.top + c.height <= H
        BY <4>1, <4>2, <3>2, <3>3, <1>1, <1>2 DEF Sized, Inside
      <4> QED
        BY <4>1, <4>3, <4>4, <3>2, <3>5 DEF Inside
    <3> QED
      BY <1>4, <2>1, <3>1, <3>2, <3>5, <3>6 DEF Dragged
  <2> QED
    BY <2>2, <2>3
<1> QED
  BY <1>3, <1>4

-----------------------------------------------------------------------------
(* The initial states. *)

LEMMA InitInv == Init => PanelInv
<1> SUFFICES ASSUME Init PROVE PanelInv
  OBVIOUS
<1> USE DEF Init, HasBox
<1>1. Cleared \in Inputs
  BY DEF Cleared
<1>2. HtmlInputs \in Inputs
  BY <1>1, FilledType DEF HtmlInputs
<1>3. /\ worked \in SUBSET Panels /\ NoBox \in Geometry(Numbers)
      /\ Zero \in Geometry(Int) /\ HiddenDefault \in Numbers
  BY InputAssumption, SizeAssumption DEF NoBox, Zero
<1>4. TypeOK
  <2>1. inp \in [Panels -> Inputs]
    BY <1>1, <1>2
  <2>2. crop \in [Panels -> [w : Numbers, h : Numbers]]
    BY <1>3
  <2>3. box \in [Panels -> Geometry(Numbers)] /\ params \in [Panels -> Geometry(Int)]
    BY <1>3
  <2>4. kind \in [Panels -> Kinds] /\ flag \in [Panels -> BOOLEAN]
    BY DEF Kinds
  <2>5. /\ waits \in [Panels -> SUBSET {"params", "coordinate", "image"}]
        /\ how \in [Panels -> {"none", "fresh", "opened", "moved", "dropped", "edited"}]
    OBVIOUS
  <2>6. osd \in [left : Int, top : Int, l : Int, t : Int, down : BOOLEAN]
    OBVIOUS
  <2>7. /\ onmove \in Panels \cup {Osd, Nobody} /\ onup \in Panels \cup {Osd, Nobody}
        /\ layout \in 2..12 /\ acts \in Nat
    OBVIOUS
  <2>8. tiles \in BOOLEAN /\ button \in BOOLEAN
    BY Zenon
  <2> QED
    BY <1>3, <2>1, <2>2, <2>3, <2>4, <2>5, <2>6, <2>7, <2>8 DEF TypeOK
<1>5. HandlersOwned
  BY ValueAssumption DEF HandlersOwned, HasBox
<1>6. Present
  BY DEF Present, HasBox
<1>7. Reported /\ DragKept
  BY DEF Reported, DragKept
<1> QED
  BY <1>4, <1>5, <1>6, <1>7 DEF PanelInv

-----------------------------------------------------------------------------
(* The panels' actions. *)

LEMMA OpenLiveKeeps ==
  ASSUME PanelInv, NEW p \in LivePanels, OpenLive(p)
  PROVE  PanelInv'
<1> USE DEF OpenLive, PanelInv, mouseVars, pageVars
<1>1. TypeOK'
  <2>1. BoxOf(inp[p]) \in Geometry(Numbers) /\ Filled(inp[p]) \in Inputs
    BY BoxOfType, FilledType DEF TypeOK
  <2>2. acts' \in Nat
    BY DEF TypeOK, Act
  <2> QED
    BY <2>1, <2>2 DEF TypeOK
<1>2. HandlersOwned'
  BY DEF HandlersOwned, HasBox
<1>3. Present'
  BY DEF Present, HasBox, TypeOK
<1>4. Reported'
  BY DEF Reported, TypeOK
<1>5. DragKept'
  BY DEF DragKept, TypeOK
<1> QED
  BY <1>1, <1>2, <1>3, <1>4, <1>5

LEMMA OpenImageKeeps ==
  ASSUME PanelInv, NEW p \in ImagePanels, OpenImage(p)
  PROVE  PanelInv'
<1> USE DEF OpenImage, PanelInv, mouseVars, pageVars
<1> DEFINE i == Filled(inp[p])
           b == BoxOf(i)
<1>1. i \in Inputs /\ b \in Geometry(Numbers) /\ ComputedBox(b) \in Geometry(Int)
  BY BoxOfType, FilledType, ComputedBoxType DEF TypeOK
<1>2. CropOf(b) \in [w : Numbers, h : Numbers]
  BY <1>1 DEF CropOf
<1>3. /\ inp' = [inp EXCEPT ![p] = i] /\ box' = [box EXCEPT ![p] = b]
      /\ params' = [params EXCEPT ![p] = ComputedBox(b)]
      /\ crop' = [crop EXCEPT ![p] = CropOf(b)]
      /\ how' = [how EXCEPT ![p] = IF b \in Geometry(Int) THEN "opened" ELSE "edited"]
  BY DEF TypeOK
<1> HIDE DEF i, b
<1>4. TypeOK'
  BY <1>1, <1>2, <1>3 DEF TypeOK
<1>5. HandlersOwned'
  BY DEF HandlersOwned, HasBox
<1>6. Present'
  BY <1>3 DEF Present, HasBox, TypeOK
<1>7. Reported'
  BY <1>3 DEF Reported, TypeOK
<1>8. DragKept'
  <2>1. ASSUME b \in Geometry(Int) PROVE Dragged(b, ComputedBox(b), kind[p])
    BY <2>1, ComputedBoxOfNumbers DEF Dragged
  <2> QED
    BY <1>3, <2>1 DEF DragKept, TypeOK
<1> QED
  BY <1>4, <1>5, <1>6, <1>7, <1>8

LEMMA PressKeeps ==
  ASSUME PanelInv, NEW p \in Panels, NEW k \in Kinds, Press(p, k)
  PROVE  PanelInv'
<1> USE DEF Press, PanelInv, pageVars
<1>1. TypeOK'
  BY DEF TypeOK, Act
<1>2. HandlersOwned'
  BY ValueAssumption DEF HandlersOwned, HasBox, TypeOK
<1>3. Present'
  BY DEF Present, HasBox, TypeOK
<1>4. Reported'
  BY DEF Reported, TypeOK
<1>5. DragKept'
  <2>1. ASSUME how'[p] \in {"opened", "dropped", "moved"}
        PROVE  Dragged(box[p], params[p], k)
    <3>1. box[p] \in Geometry(Int) /\ how[p] \in {"opened", "dropped"}
      BY <2>1 DEF TypeOK
    <3>2. params[p] = box[p]
      BY <3>1, ComputedBoxOfNumbers DEF Reported
    <3> QED
      BY <3>1, <3>2 DEF Dragged
  <2> QED
    BY <2>1 DEF DragKept, TypeOK
<1> QED
  BY <1>1, <1>2, <1>3, <1>4, <1>5

LEMMA DragKeeps ==
  ASSUME PanelInv, NEW p \in Panels, NEW d \in Moves, Drag(p, d)
  PROVE  PanelInv'
<1> USE DEF Drag, PanelInv, pageVars
<1> DEFINE b == Moved(box[p], params[p], kind[p], Nudged(p, d))
<1>1. flag[p]
  BY DEF HandlersOwned, HasBox
<1>2. /\ box' = [box EXCEPT ![p] = b]
      /\ how' = [how EXCEPT ![p] = IF @ \in {"opened", "dropped", "moved"}
                                  THEN "moved" ELSE "edited"]
  BY <1>1
<1>3. Nudged(p, d) \in Int \X Int
  BY InputAssumption, NudgedType
<1>4. b \in Geometry(Numbers)
  BY <1>3, MovedType DEF TypeOK
<1>5. ASSUME kind[p] \in Keeping, how[p] \in {"opened", "dropped", "moved"}
      PROVE  Dragged(b, params[p], kind[p])
  <2>1. Dragged(box[p], params[p], kind[p])
    BY <1>1, <1>5 DEF DragKept
  <2> QED
    BY <1>3, <1>5, <2>1, MovedDragged DEF TypeOK
<1> HIDE DEF b
<1>6. TypeOK'
  BY <1>2, <1>4 DEF TypeOK
<1>7. HandlersOwned'
  BY <1>1, <1>2, ValueAssumption DEF HandlersOwned, HasBox, TypeOK
<1>8. Present'
  BY <1>1, <1>2 DEF Present, HasBox, TypeOK, HandlersOwned
<1>9. Reported'
  BY <1>2 DEF Reported, TypeOK
<1>10. DragKept'
  BY <1>2, <1>5 DEF DragKept, TypeOK
<1> QED
  BY <1>6, <1>7, <1>8, <1>9, <1>10

LEMMA Owners == Osd \notin Panels /\ Nobody \notin Panels /\ Osd # Nobody
  BY ValueAssumption

LEMMA DropKeeps ==
  ASSUME PanelInv, NEW p \in Panels, Drop(p)
  PROVE  PanelInv'
<1> USE DEF Drop, HandlersFreed, PanelInv, pageVars
<1> DEFINE b == box[p]
<1>1. b \in Geometry(Numbers) /\ InputsOf(b) \in Inputs /\ ComputedBox(b) \in Geometry(Int)
  BY InputsOfType, ComputedBoxType DEF TypeOK
<1>2. CropOf(b) \in [w : Numbers, h : Numbers]
  BY <1>1 DEF CropOf
<1>3. TypeOK'
  BY <1>1, <1>2 DEF TypeOK
<1>4. HandlersOwned'
  <2>1. ~osd.down
    BY Owners DEF HandlersOwned
  <2> QED
    BY <2>1, Owners DEF HandlersOwned
<1>5. Present'
  BY DEF Present, HandlersOwned, HasBox, TypeOK
<1>6. Reported'
  BY DEF Reported, TypeOK
<1>7. DragKept'
  BY DEF DragKept, TypeOK
<1> QED
  BY <1>3, <1>4, <1>5, <1>6, <1>7

LEMMA MouseKeeps ==
  ASSUME PanelInv, PressElsewhere \/ ReleaseUnheard \/ moveOSD
  PROVE  PanelInv'
<1> USE DEF PanelInv, panelVars, pageVars
<1>1. osd' \in [left : Int, top : Int, l : Int, t : Int, down : BOOLEAN]
  <2>1. CASE PressElsewhere \/ ReleaseUnheard \/ OsdPress \/ OsdDrop
    BY <2>1 DEF PressElsewhere, ReleaseUnheard, OsdPress, OsdDrop, TypeOK
  <2>2. ASSUME NEW d \in Moves, OsdDrag(d)
        PROVE  osd' \in [left : Int, top : Int, l : Int, t : Int, down : BOOLEAN]
    <3>1. /\ osd.l + d[1] \in Int /\ osd.t + d[2] \in Int
          /\ 0 \in Numbers /\ OsdW \in Int /\ OsdH \in Int
      BY InputAssumption, SizeAssumption DEF TypeOK
    <3>2. Kept(osd.l + d[1], 0, OsdW) \in Int /\ Kept(osd.t + d[2], 0, OsdH) \in Int
      BY <3>1, KeptType
    <3> QED
      BY <2>2, <3>2 DEF OsdDrag, TypeOK
  <2> QED
    BY <2>1, <2>2 DEF moveOSD
<1>2. UNCHANGED <<panelVars, pageVars>>
  BY DEF PressElsewhere, ReleaseUnheard, moveOSD, OsdPress, OsdDrag, OsdDrop
<1>3. TypeOK' /\ HandlersOwned'
  <2>1. CASE PressElsewhere
    <3>1. ~osd.down
      BY <2>1 DEF PressElsewhere, HandlersOwned
    <3> QED
      BY <1>1, <2>1, <3>1 DEF PressElsewhere, Act, TypeOK, HandlersOwned, HasBox
  <2>2. CASE ReleaseUnheard
    <3>1. ~osd.down
      BY <2>2, Owners DEF ReleaseUnheard, HandlersOwned
    <3> QED
      BY <1>1, <2>2, <3>1 DEF ReleaseUnheard, TypeOK, HandlersOwned, HasBox
  <2>3. CASE OsdPress
    BY <1>1, <2>3, Owners DEF OsdPress, Act, TypeOK, HandlersOwned, HasBox
  <2>4. CASE OsdDrop
    <3>1. ~osd'.down
      BY <2>4 DEF OsdDrop, TypeOK
    <3> QED
      BY <1>1, <2>4, <3>1, Owners DEF OsdDrop, TypeOK, HandlersOwned, HasBox
  <2>5. ASSUME NEW d \in Moves, OsdDrag(d) PROVE TypeOK' /\ HandlersOwned'
    BY <1>1, <2>5, Owners DEF OsdDrag, TypeOK, HandlersOwned, HasBox
  <2> QED
    BY <2>1, <2>2, <2>3, <2>4, <2>5 DEF moveOSD
<1>5. Present' /\ Reported' /\ DragKept'
  BY <1>2 DEF Present, Reported, DragKept, HasBox
<1> QED
  BY <1>3, <1>5

-----------------------------------------------------------------------------
(* The pages' actions. *)

\* Whoever writes the box and says so by "edited" keeps the invariant.
LEMMA EditedKeeps ==
  ASSUME PanelInv, NEW p \in Panels, HasBox(p) \/ waits[p] # {},
         TypeOK', UNCHANGED <<crop, flag, kind, mouseVars, pageVars>>,
         how' = [how EXCEPT ![p] = "edited"],
         \A r \in Panels : waits'[r] \subseteq waits[r],
         \A r \in Panels \ {p} : /\ box'[r] = box[r] /\ inp'[r] = inp[r]
                                /\ params'[r] = params[r]
  PROVE  PanelInv'
<1> USE DEF PanelInv, mouseVars, pageVars
<1>1. HandlersOwned'
  BY DEF HandlersOwned, HasBox, TypeOK
<1>2. Present'
  BY DEF Present, HasBox, TypeOK
<1>3. Reported'
  BY DEF Reported, TypeOK
<1>4. DragKept'
  BY DEF DragKept, TypeOK
<1> QED
  BY <1>1, <1>2, <1>3, <1>4

LEMMA EditedStep ==
  ASSUME PanelInv, NEW p \in Panels, NEW b \in Geometry(Numbers), NEW i \in Inputs,
         Edited(p, b, i)
  PROVE  PanelInv'
<1>1. TypeOK'
  BY DEF Edited, PanelInv, TypeOK, Act, mouseVars, pageVars
<1> QED
  BY <1>1, EditedKeeps DEF Edited, PanelInv, TypeOK

LEMMA TypeKeeps ==
  ASSUME PanelInv, NEW p \in Panels, NEW v \in Typed,
         \/ ChangeUp1(p, v) \/ ChangeDown1(p, v)
         \/ ChangeLeft1(p, v) \/ ChangeRight1(p, v)
  PROVE  PanelInv'
<1> DEFINE b == box[p]
           i == inp[p]
           height == Computed(b.height)
           width == Computed(b.width)
<1>1. /\ b \in Geometry(Numbers) /\ i \in Inputs /\ v \in Nat \cup {Empty}
      /\ Keyup(v) \in Texts /\ W \in Nat /\ H \in Nat
  BY InputAssumption, SizeAssumption DEF PanelInv, TypeOK, Keyup
<1>2. height \in Int /\ width \in Int
  BY <1>1 DEF Computed
<1> HIDE DEF b, i, height, width
<1>3. CASE ChangeUp1(p, v)
  <2> DEFINE j == [i EXCEPT !.up = Keyup(v)]
  <2>1. j \in Inputs
    BY <1>1
  <2>2. CASE v # Empty /\ v + height <= H
    <3>1. [b EXCEPT !.top = v] \in Geometry(Numbers) /\ [j EXCEPT !.down = v + height] \in Inputs
      <4>1. v \in Numbers
        BY <1>1, <2>2
      <4>2. v + height \in Texts
        BY <1>1, <1>2, <4>1, <2>2
      <4>3. [b EXCEPT !.top = v] \in Geometry(Numbers)
        BY <1>1, <4>1
      <4> HIDE DEF j
      <4>4. [j EXCEPT !.down = v + height] \in Inputs
        BY <2>1, <4>2 DEF Inputs
      <4> QED
        BY <4>3, <4>4
    <3>2. Edited(p, [b EXCEPT !.top = v], [j EXCEPT !.down = v + height])
      BY <1>3, <2>2 DEF ChangeUp1, b, i, height
    <3> QED
      BY <3>1, <3>2, EditedStep
  <2>3. CASE ~(v # Empty /\ v + height <= H)
    <3>1. Edited(p, b, j)
      BY <1>3, <2>3 DEF ChangeUp1, b, i, height
    <3> QED
      BY <1>1, <2>1, <3>1, EditedStep
  <2> QED
    BY <2>2, <2>3
<1>4. CASE ChangeDown1(p, v)
  <2> DEFINE j == [i EXCEPT !.down = Keyup(v)]
             top == v - height
  <2>1. j \in Inputs
    BY <1>1
  <2>2. CASE v # Empty /\ v <= H /\ top >= 0
    <3>1. [b EXCEPT !.top = top] \in Geometry(Numbers) /\ [j EXCEPT !.up = top] \in Inputs
      <4>1. top \in Int
        BY <1>1, <1>2, <2>2
      <4> HIDE DEF top
      <4> QED
        BY <1>1, <2>1, <4>1
    <3>2. Edited(p, [b EXCEPT !.top = top], [j EXCEPT !.up = top])
      BY <1>4, <2>2 DEF ChangeDown1, b, i, height
    <3> QED
      BY <3>1, <3>2, EditedStep
  <2>3. CASE ~(v # Empty /\ v <= H /\ top >= 0)
    <3>1. Edited(p, b, j)
      BY <1>4, <2>3 DEF ChangeDown1, b, i, height
    <3> QED
      BY <1>1, <2>1, <3>1, EditedStep
  <2> QED
    BY <2>2, <2>3
<1>5. CASE ChangeLeft1(p, v)
  <2> DEFINE j == [i EXCEPT !.left = Keyup(v)]
  <2>1. j \in Inputs
    BY <1>1
  <2>2. CASE v # Empty /\ v + width <= W
    <3>1. [b EXCEPT !.left = v] \in Geometry(Numbers) /\ [j EXCEPT !.right = v + width] \in Inputs
      <4>1. v \in Numbers /\ v + width \in Texts
        BY <1>1, <1>2, <2>2
      <4> QED
        BY <1>1, <2>1, <4>1
    <3>2. Edited(p, [b EXCEPT !.left = v], [j EXCEPT !.right = v + width])
      BY <1>5, <2>2 DEF ChangeLeft1, b, i, width
    <3> QED
      BY <3>1, <3>2, EditedStep
  <2>3. CASE ~(v # Empty /\ v + width <= W)
    <3>1. Edited(p, b, j)
      BY <1>5, <2>3 DEF ChangeLeft1, b, i, width
    <3> QED
      BY <1>1, <2>1, <3>1, EditedStep
  <2> QED
    BY <2>2, <2>3
<1>6. CASE ChangeRight1(p, v)
  <2> DEFINE j == [i EXCEPT !.right = Keyup(v)]
  <2>1. j \in Inputs
    BY <1>1
  <2>2. CASE page = "modify" /\ v # Empty /\ v <= W /\ v > width
    <3>1. [b EXCEPT !.left = W - width] \in Geometry(Numbers)
          /\ [j EXCEPT !.left = W - width] \in Inputs
      <4>1. W - width \in Int
        BY <1>1, <1>2
      <4> QED
        BY <1>1, <2>1, <4>1
    <3>2. Edited(p, [b EXCEPT !.left = W - width], [j EXCEPT !.left = W - width])
      BY <1>6, <2>2 DEF ChangeRight1, b, i, width
    <3> QED
      BY <3>1, <3>2, EditedStep
  <2>3. CASE ~(page = "modify" /\ v # Empty /\ v <= W /\ v > width)
    <3>1. Edited(p, b, j)
      BY <1>6, <2>3 DEF ChangeRight1, b, i, width
    <3> QED
      BY <1>1, <2>1, <3>1, EditedStep
  <2> QED
    BY <2>2, <2>3
<1> QED
  BY <1>3, <1>4, <1>5, <1>6

LEMMA TilesKeep ==
  ASSUME PanelInv,
         \/ TilesArrive
         \/ \E p \in LivePanels : ParamsTick(p) \/ InitCoordinate(p)
  PROVE  PanelInv'
<1> USE DEF mouseVars, panelVars, pageVars
<1>1. CASE TilesArrive
  BY <1>1 DEF TilesArrive, PanelInv, TypeOK, HandlersOwned, Present, Reported,
     DragKept, HasBox
<1>2. ASSUME NEW p \in LivePanels, ParamsTick(p) PROVE PanelInv'
  <2>1. Tile[p] \in Geometry(Int) /\ p \in Panels
    BY SizeAssumption
  <2>2. TypeOK'
    BY <1>2, <2>1 DEF ParamsTick, PanelInv, TypeOK
  <2> QED
    BY <1>2, <2>1, <2>2, EditedKeeps DEF ParamsTick, PanelInv, TypeOK
<1>3. ASSUME NEW p \in LivePanels, InitCoordinate(p) PROVE PanelInv'
  <2>1. Tile[p] \in Geometry(Numbers) /\ p \in Panels
    BY SizeAssumption
  <2>2. TypeOK'
    BY <1>3, <2>1 DEF InitCoordinate, PanelInv, TypeOK
  <2> QED
    BY <1>3, <2>1, <2>2, EditedKeeps DEF InitCoordinate, PanelInv, TypeOK
<1> QED
  BY <1>1, <1>2, <1>3

LEMMA ScriptsKeep ==
  ASSUME PanelInv, NEW n \in Layouts, LoadScripts(n)
  PROVE  PanelInv'
<1> USE DEF mouseVars, pageVars
<1> DEFINE S == {p \in worked : n < p /\ p <= layout}
           L == {p \in worked : layout < p /\ p <= n}
<1>1. n \in 2..12 /\ layout \in 2..12 /\ layout' = n
  BY InputAssumption DEF LoadScripts, PanelInv, TypeOK
<1>2. /\ worked \subseteq Panels
      /\ \A p \in S : p \in ImagePanels
  <2>1. worked \subseteq Panels
    BY DEF PanelInv, TypeOK
  <2>2. ASSUME NEW p \in S PROVE p \in ImagePanels
    <3>1. p \in LivePanels \cup ImagePanels /\ n < p
      BY <2>1
    <3> QED
      BY <1>1, <3>1
  <2> QED
    BY <2>1, <2>2
<1>3. \A p \in Panels :
        /\ p \in S => Released(p) /\ box'[p] = NoBox /\ how'[p] = "none"
                      /\ waits'[p] = waits[p] \ {"image"}
        /\ p \notin S => box'[p] = box[p] /\ how'[p] = how[p]
        /\ p \notin S => waits'[p] = IF p \in L THEN waits[p] \cup {"image"} ELSE waits[p]
  BY <1>2 DEF LoadScripts, Unboxed
<1>4. TypeOK'
  <2>1. NoBox \in Geometry(Numbers) /\ Cleared \in Inputs
    BY DEF NoBox, Cleared
  <2>2. box' \in [Panels -> Geometry(Numbers)]
    BY <2>1 DEF LoadScripts, Unboxed, PanelInv, TypeOK
  <2>3. inp' \in [Panels -> Inputs]
    BY <2>1 DEF LoadScripts, PanelInv, TypeOK
  <2>4. /\ waits' \in [Panels -> SUBSET {"params", "coordinate", "image"}]
        /\ how' \in [Panels -> {"none", "fresh", "opened", "moved", "dropped", "edited"}]
    BY DEF LoadScripts, Unboxed, PanelInv, TypeOK
  <2>5. acts' \in Nat
    BY DEF LoadScripts, Act, PanelInv, TypeOK
  <2> QED
    BY <1>1, <2>2, <2>3, <2>4, <2>5 DEF LoadScripts, PanelInv, TypeOK
<1>5. HandlersOwned'
  <2>1. UNCHANGED <<flag, onmove, onup, osd, button>>
    BY DEF LoadScripts
  <2>2. ASSUME NEW p \in Panels, onmove = p \/ onup = p
        PROVE  flag[p] /\ how'[p] # "none"
    BY <1>3, <2>2 DEF Released, PanelInv, HandlersOwned, HasBox
  <2> QED
    BY <2>1, <2>2 DEF PanelInv, HandlersOwned, HasBox
<1>6. Present'
  <2>1. ASSUME NEW p \in Panels
        PROVE  /\ how'[p] # "none" \/ waits'[p] # {} => p \in worked /\ p <= n
               /\ p \in ImagePanels => waits'[p] \subseteq {"image"}
    <3>1. /\ how[p] # "none" \/ waits[p] # {} => p \in worked /\ p <= layout
          /\ p \in ImagePanels => waits[p] \subseteq {"image"}
      BY DEF PanelInv, Present, HasBox
    <3>2. CASE p \in S
      BY <1>1, <1>2, <1>3, <3>1, <3>2
    <3>3. CASE p \in L
      BY <1>1, <1>3, <3>1, <3>3
    <3>4. CASE p \notin S /\ p \notin L
      BY <1>1, <1>3, <3>1, <3>4
    <3> QED
      BY <3>2, <3>3, <3>4
  <2>2. worked' = worked
    BY DEF LoadScripts
  <2> QED
    BY <1>1, <2>1, <2>2 DEF Present, HasBox
<1>7. ASSUME NEW p \in Panels, how'[p] # "none"
      PROVE  /\ box'[p] = box[p] /\ how'[p] = how[p] /\ inp'[p] = inp[p]
             /\ crop'[p] = crop[p] /\ params'[p] = params[p]
             /\ flag'[p] = flag[p] /\ kind'[p] = kind[p]
  <2>1. p <= n
    BY <1>1, <1>6, <1>7 DEF Present, HasBox
  <2>2. ~(n < p)
    BY <1>1, <2>1
  <2> QED
    BY <1>3, <1>7, <2>2 DEF LoadScripts
<1>8. Reported'
  BY <1>7 DEF PanelInv, Reported
<1>9. DragKept'
  BY <1>7 DEF PanelInv, DragKept
<1> QED
  BY <1>4, <1>5, <1>6, <1>8, <1>9 DEF PanelInv

LEMMA SelectKeeps ==
  ASSUME PanelInv, NEW p \in Panels, SelectCamera(p)
  PROVE  PanelInv'
<1> USE DEF SelectCamera, Unboxed, PanelInv, mouseVars, pageVars
<1>1. TypeOK'
  <2>1. NoBox \in Geometry(Numbers)
    BY DEF NoBox
  <2> QED
    BY <2>1 DEF TypeOK, Act
<1>2. HandlersOwned'
  BY DEF HandlersOwned, HasBox, Released
<1>3. Present'
  BY DEF Present, HasBox
<1>4. Reported'
  BY DEF Reported
<1>5. DragKept'
  BY DEF DragKept
<1> QED
  BY <1>1, <1>2, <1>3, <1>4, <1>5

LEMMA PanelKeeps ==
  ASSUME PanelInv, NEW p \in Panels, DragPanel(p)
  PROVE  PanelInv'
BY PressKeeps, DragKeeps, DropKeeps DEF DragPanel

LEMMA FilesKeep ==
  ASSUME PanelInv, Files
  PROVE  PanelInv'
<1>1. CASE \E p \in LivePanels : OpenLive(p)
  BY <1>1, OpenLiveKeeps
<1>2. CASE \E p \in ImagePanels : OpenImage(p)
  BY <1>2, OpenImageKeeps
<1>3. CASE \E p \in Panels : DragPanel(p)
  BY <1>3, PanelKeeps
<1> QED
  BY <1>1, <1>2, <1>3 DEF Files, Canvas1Open, Canvas2Open, Canvas4Open, Canvas5Open,
     Canvas6Open, Canvas7Open, Canvas8Open, Canvas9Open, Canvas10Open, Canvas11Open,
     Canvas12Open, Canvas1Drag, Canvas2Drag, Canvas4Drag, Canvas5Drag, Canvas6Drag,
     Canvas7Drag, Canvas8Drag, Canvas9Drag, Canvas10Drag, Canvas11Drag, Canvas12Drag

LEMMA StepInv == PanelInv /\ [Next]_vars => PanelInv'
<1> SUFFICES ASSUME PanelInv, [Next]_vars PROVE PanelInv'
  OBVIOUS
<1>1. CASE Files
  BY <1>1, FilesKeep
<1>2. CASE Pages
  <2>1. CASE \E p \in Panels : Type(p)
    BY <2>1, TypeKeeps DEF Type
  <2>2. CASE \E p \in Panels : SelectCamera(p)
    BY <2>2, SelectKeeps
  <2>3. CASE \E n \in Layouts : LoadScripts(n)
    BY <2>3, ScriptsKeep
  <2> QED
    BY <1>2, <2>1, <2>2, <2>3, TilesKeep, MouseKeeps DEF Pages
<1>3. CASE UNCHANGED vars
  BY <1>3 DEF vars, panelVars, mouseVars, pageVars, PanelInv, TypeOK, HandlersOwned,
     Present, Reported, DragKept, HasBox
<1> QED
  BY <1>1, <1>2, <1>3 DEF Next

-----------------------------------------------------------------------------
(* The theorems. *)

\* The inductive invariant: types, who owns the document's handlers, and
\* what a drag and a drop leave of a box.
THEOREM PanelInvariant == Spec => []PanelInv
BY InitInv, StepInv, PTL DEF Spec

\* A handler of the document belongs to a panel that is being dragged; while
\* the OSD text is held nobody else has one (the handlers of moveOSD and of
\* the Canvas files share one document).
THEOREM HandlersAreOwned == Spec => []HandlersOwned
<1>1. PanelInv => HandlersOwned
  BY DEF PanelInv
<1> QED
  BY PanelInvariant, <1>1, PTL

LEMMA SentFromInv == PanelInv => SentIsShown
<1> SUFFICES ASSUME PanelInv, NEW p \in Panels
             PROVE  SentIsShown!(p)
  BY DEF SentIsShown
<1> DEFINE b == box[p]
<1>1. b \in Geometry(Numbers) /\ NotBelow0(b.left) \in Numbers /\ NotBelow0(b.top) \in Numbers
  BY NumberTypes DEF PanelInv, TypeOK
<1>2. ASSUME how[p] = "dropped"
      PROVE  AddEntry(p) = [x |-> NotBelow0(b.left), y |-> NotBelow0(b.top),
                            w |-> b.width, h |-> b.height]
  <2>1. inp[p] = InputsOf(b) /\ crop[p] = CropOf(b)
    BY <1>2 DEF PanelInv, Reported
  <2>2. /\ inp[p].left = NotBelow0(b.left) /\ inp[p].up = NotBelow0(b.top)
        /\ crop[p].w = b.width /\ crop[p].h = b.height
    BY <2>1 DEF InputsOf, CropOf
  <2> QED
    BY <1>1, <2>2, ParseOfNumber DEF AddEntry
<1>3. ASSUME how[p] = "dropped", inp[p].right # NaN, inp[p].down # NaN,
             b.left >= 0, b.top >= 0
      PROVE  AddEntry(p) = ModifyEntry(p)
  <2>1. inp[p] = InputsOf(b)
    BY <1>3 DEF PanelInv, Reported
  <2>2. /\ inp[p].right = NotBelow0(Plus(NotBelow0(b.left), b.width))
        /\ inp[p].down = NotBelow0(Plus(NotBelow0(b.top), b.height))
    BY <2>1 DEF InputsOf
  <2>3. b \in Geometry(Int)
    BY <1>1, <1>3, <2>2, ValueAssumption DEF Plus, NotBelow0
  <2>4. ModifyEntry(p) = [x |-> b.left, y |-> b.top, w |-> b.width, h |-> b.height]
    BY <2>3, ComputedBoxOfNumbers DEF ModifyEntry
  <2> QED
    BY <1>2, <1>3, <2>3, <2>4 DEF NotBelow0
<1> QED
  BY <1>2, <1>3 DEF PanelInv, Reported

\* After a drop the next drag starts from the box as it is shown and both
\* pages send that box (videoMsg of SplicInfos.js and of Modify.js).
THEOREM SentIsTheBox == Spec => []SentIsShown
BY PanelInvariant, SentFromInv, PTL

LEMMA InsideFromInv == PanelInv => InsideKept
BY DEF PanelInv, DragKept, Dragged, InsideKept

\* A drag of a kind that bounds its edge never takes a box out of the picture.
THEOREM BoxStaysInside == Spec => []InsideKept
BY PanelInvariant, InsideFromInv, PTL
=============================================================================
