-------------------------- MODULE TerminalPage_proofs --------------------------
(***************************************************************************)
(* Theorems about the page's terminal for every value of the constants.    *)
(* A behaviour of the page is one of each of its parts (StepsOfParts), so  *)
(* what a part keeps by itself it keeps in the page.                       *)
(***************************************************************************)
EXTENDS TerminalPage, Sequences, FiniteSetTheorems, TLAPS

-----------------------------------------------------------------------------
(* The parts *)

LEMMA StepsOfParts ==
  ASSUME [PageNext]_pageVars
  PROVE  /\ [Next]_vars /\ [Rows!Next]_(Rows!vars) /\ [Atlas!Next]_(Atlas!vars)
         /\ [Life!Next]_(Life!vars) /\ [InLinks!Next]_(InLinks!vars)
         /\ [Heap!Next]_(Heap!vars)
         /\ [Appears!Next]_(Appears!vars) /\ [Framed!Next]_(Framed!vars)
         /\ [Textures!Next]_(Textures!vars) /\ [Look!Next]_(Look!vars)
         /\ [Shapes!Next]_(Shapes!vars) /\ part' = part
<1> USE DEF rowVars, glyphVars, lifeVars, heapVars, settingVars, linkVars, frameVars,
      Heap!vars,
      imageVars, lookVars, shapeVars, Textures!vars, Look!vars, Shapes!vars, Rows!vars,
      Rows!engine, Rows!mouse, Rows!painter, Atlas!vars, Atlas!packing, Life!vars, Life!env,
      Life!drawing, Appears!vars, InLinks!vars, Framed!vars, Framed!engine, Framed!cached,
      Framed!drawn
<1>1. CASE UNCHANGED pageVars
  BY <1>1 DEF pageVars
<1>2. CASE PageNext
  BY <1>2 DEF PageNext, About
<1> QED
  BY <1>1, <1>2

-----------------------------------------------------------------------------
(* Painting *)

HoldTyped == hold \in {"none", "running", "passed", "fired"}

(* What a step of the view does to the canvas: nothing, or it blanks it, or it
   looks at the hold and paints only if there is none. *)
Untouched == UNCHANGED <<hold, screen>>
Timed == hold' \in {"passed", "fired"} /\ UNCHANGED screen
Careful == CheckHold /\ screen' \in {screen, Blank}
Painted == CheckHold /\ ~Held'

LEMMA ViewSteps ==
  ASSUME [Next]_vars
  PROVE  Untouched \/ Timed \/ Careful \/ Painted
<1> USE DEF Untouched, Timed, Careful, Painted
<1>1. CASE UNCHANGED vars
  BY <1>1 DEF vars, viewVars, canvas
<1>2. ASSUME RenderFrame \/ RenderBlanked
      PROVE  Careful \/ Painted
  BY <1>2 DEF RenderFrame, RenderBlanked
<1>3. ASSUME ViewNext
      PROVE  Untouched \/ Timed \/ Careful \/ Painted
  <2>1. CASE renderTick
    BY <2>1, <1>2 DEF renderTick
  <2>2. CASE HoldLapses
    BY <2>2 DEF HoldLapses
  <2>3. CASE SyncTimer
    BY <2>3 DEF SyncTimer
  <2>4. CASE HideScrollbar
    BY <2>4, <1>2 DEF HideScrollbar, NotPainted, canvas
  <2>5. CASE FadeFrame
    BY <2>5, <1>2 DEF FadeFrame
  <2>6. CASE Write
    BY <2>6, <1>2 DEF Write
  <2>7. CASE Input
    BY <2>7 DEF Input, Change, NotPainted, canvas
  <2>8. CASE Clear
    BY <2>8 DEF Clear, Change
  <2>9. CASE Reset \/ Select
    BY <2>9 DEF Reset, Select, NotPainted, canvas
  <2>10. CASE DragSelection
    BY <2>10 DEF DragSelection, Change
  <2>11. ASSUME NEW y, ScrolledTo(y)
         PROVE  Untouched \/ Careful \/ Painted
    BY <2>11, <1>2 DEF ScrolledTo, NotPainted, canvas
  <2>12. CASE ScrollTo
    BY <2>12, <2>11 DEF ScrollTo
  <2>13. ASSUME NEW t, AnimateScroll(t)
         PROVE  Untouched \/ Careful \/ Painted
    BY <2>13, <2>11 DEF AnimateScroll
  <2>14. CASE SmoothScrollTo
    BY <2>14, <2>13 DEF SmoothScrollTo, canvas
  <2>15. CASE ScrollFrame
    BY <2>15, <2>13 DEF ScrollFrame
  <2>16. CASE FontChange
    BY <2>16, <1>2 DEF FontChange
  <2> QED
    BY <1>3, <2>1, <2>2, <2>3, <2>4, <2>5, <2>6, <2>7, <2>8, <2>9, <2>10, <2>12, <2>14,
       <2>15, <2>16 DEF ViewNext
<1>4. ASSUME fit
      PROVE  Untouched \/ Careful \/ Painted
  BY <1>4, <1>2 DEF fit, Resize, NoFit, viewVars, canvas
<1>5. CASE WindowResizes \/ DebounceFires
  BY <1>5, <1>4 DEF WindowResizes, DebounceFires
<1>6. CASE LayoutChanges \/ ResizingEnds
  BY <1>6 DEF LayoutChanges, ResizingEnds, viewVars, canvas
<1>7. CASE DprChanges
  BY <1>7, <1>2 DEF DprChanges, Resize, DprBlanks
<1> QED
  BY <1>1, <1>3, <1>5, <1>6, <1>7 DEF Next, ViewOnly

LEMMA HoldKept == PageSpec => []HoldTyped
<1>1. PageInit => HoldTyped
  BY DEF PageInit, Init, ViewInit, HoldTyped
<1>2. HoldTyped /\ [PageNext]_pageVars => HoldTyped'
  BY StepsOfParts, ViewSteps DEF HoldTyped, Untouched, Timed, Careful, Painted, CheckHold
<1> QED
  BY <1>1, <1>2, PTL DEF PageSpec

(* No frame is painted within a bracket (mode 2026) that has been open for less
   than a second, whichever of the paths that paint it takes and however large
   the page, its history and its contents are. *)
THEOREM Untorn == PageSpec => NoTornFrame
<1>1. ASSUME HoldTyped, [PageNext]_pageVars
      PROVE  [screen' # screen /\ screen' # Blank /\ sync' => hold' \in {"passed", "fired"}]_vars
  BY <1>1, StepsOfParts, ViewSteps
    DEF HoldTyped, Untouched, Timed, Careful, Painted, CheckHold, Held
<1> QED
  BY <1>1, HoldKept, PTL DEF PageSpec, NoTornFrame

-----------------------------------------------------------------------------
(* The life of a terminal *)

LifeEnv ==
  /\ wanted \in {"auto", "webgpu", "webgl", "canvas2d"}
  /\ webgpu \in {"none", "works", "late", "dead"}
  /\ webgl \in {"none", "works", "late"}

LifeTyped ==
  /\ stage \in {"start", "loading", "fonts", "picking", "running", "failed"}
  /\ term \in {"none", "live", "dropped"} /\ isDisposed \in BOOLEAN
  /\ held \subseteq Life!TerminalParts \cup Life!PageParts \cup {"addon"}

(* There is a terminal from the moment it is loaded, and dispose() drops it. *)
TermFollowsStage ==
  /\ term = "none" <=> stage \in {"start", "loading"}
  /\ isDisposed <=> term = "dropped"

(* What is held at each stage of open(). *)
HeldByStage ==
  /\ term # "live" => held = {}
  /\ stage = "fonts" => held \subseteq {"addon"}
  /\ stage = "picking" => held \subseteq {"addon", "engine", "canvas"}
  /\ stage = "failed" => held \cap Life!TerminalParts = {}

(* Only a terminal that runs has a renderer. *)
RendererByStage ==
  /\ renderer \in {"none", "failed", "webgpu", "webgl", "canvas2d"}
  /\ stage # "running" \/ isDisposed => renderer = "none" /\ ~lost

LifeInv ==
  LifeEnv /\ LifeTyped /\ TermFollowsStage /\ HeldByStage /\ RendererByStage
    /\ Life!AlwaysDraws

LEMMA Choices ==
  ASSUME NEW k \in {"auto", "webgpu", "webgl", "canvas2d"}, LifeEnv
  PROVE  LET choice == Life!pickRenderer(k) IN
         /\ choice.renderer \in {"none", "webgpu", "webgl", "canvas2d"}
         /\ choice.renderer # "none" => choice.canvas = choice.renderer
         /\ choice.renderer = "webgpu" => webgpu \in {"works", "dead"}
         /\ k = "canvas2d" => choice = Life!On("canvas2d", "canvas2d")
         /\ k = "webgl" /\ webgl # "late" =>
              \/ choice = Life!On("webgl", "webgl")
              \/ choice = Life!On("none", "none")
<1> USE DEF LifeEnv, Life!pickRenderer, Life!WebGPU, Life!WebGL, Life!Canvas2D, Life!On
<1>1. CASE k = "canvas2d"
  BY <1>1
<1>2. CASE k = "webgl"
  BY <1>2
<1>3. CASE k = "webgpu"
  BY <1>3
<1>4. CASE k = "auto"
  <2>1. CASE webgpu \in {"works", "dead"}
    BY <1>4, <2>1
  <2>2. CASE webgpu = "late"
    BY <1>4, <2>2
  <2>3. CASE webgpu = "none"
    BY <1>4, <2>3
  <2> QED
    BY <2>1, <2>2, <2>3
<1> QED
  BY <1>1, <1>2, <1>3, <1>4

LEMMA LifeInvStart == PageInit => LifeInv
BY DEF PageInit, Life!Init, LifeInv, LifeEnv, LifeTyped, TermFollowsStage, HeldByStage,
  RendererByStage, Life!AlwaysDraws

LEMMA LifeInvStep ==
  ASSUME LifeInv, [Life!Next]_(Life!vars)
  PROVE  LifeInv'
<1> USE DEF LifeInv, LifeEnv, LifeTyped, TermFollowsStage, HeldByStage, RendererByStage,
    Life!AlwaysDraws
<1>1. CASE UNCHANGED Life!vars
  BY <1>1 DEF Life!vars, Life!env, Life!drawing
<1>2. CASE Life!CallInit
  BY <1>2 DEF Life!CallInit, Life!env, Life!drawing
<1>3. CASE Life!Loaded
  BY <1>3 DEF Life!Loaded, Life!env, Life!drawing
<1>4. CASE Life!FontsReady
  <2>1. CASE isDisposed
    <3>1. stage = "fonts" /\ Life!OpenFails /\ UNCHANGED <<Life!env, term, isDisposed>>
      BY <1>4, <2>1 DEF Life!FontsReady
    <3> QED
      BY <3>1 DEF Life!OpenFails, Life!cleanupComponents, Life!NoDrawing, Life!TerminalParts,
        Life!env
  <2>2. CASE ~isDisposed
    <3>1. /\ stage = "fonts" /\ stage' = "picking" /\ held' = held \cup {"engine", "canvas"}
          /\ UNCHANGED <<renderer, lost, context, listening>>
          /\ UNCHANGED <<Life!env, term, isDisposed>>
      BY <1>4, <2>2 DEF Life!FontsReady, Life!drawing
    <3>2. held' \subseteq {"addon", "engine", "canvas"}
      BY <3>1
    <3>3. HeldByStage' /\ LifeTyped'
      <4>1. HeldByStage'
        <5>1. term = "live"
          BY <2>2, <3>1
        <5>2. /\ term' = "live" /\ stage' # "fonts" /\ stage' # "failed"
              /\ held' \subseteq {"addon", "engine", "canvas"}
          BY <3>1, <3>2, <5>1
        <5> HIDE DEF LifeInv
        <5> QED
          BY <5>2
      <4>2. held' \subseteq Life!TerminalParts \cup Life!PageParts \cup {"addon"}
        BY <3>2 DEF Life!TerminalParts
      <4> QED
        BY <3>1, <4>1, <4>2
    <3>4. /\ stage' # "running" /\ stage' # "start" /\ stage' # "loading"
          /\ renderer = "none" /\ ~lost
      BY <3>1
    <3>5. LifeEnv' /\ TermFollowsStage'
      BY <3>1, <3>4 DEF Life!env
    <3>6. RendererByStage' /\ Life!AlwaysDraws'
      BY <3>1, <3>4
    <3> QED
      BY <3>3, <3>5, <3>6
  <2> QED
    BY <2>1, <2>2
<1>5. CASE Life!Picked
  <2> DEFINE choice == Life!pickRenderer(wanted)
  <2>1. /\ choice.renderer \in {"none", "webgpu", "webgl", "canvas2d"}
        /\ choice.renderer # "none" => choice.canvas = choice.renderer
    BY Choices
  <2> HIDE DEF choice
  <2>2. CASE choice.renderer = "none" \/ isDisposed
    <3>1. stage = "picking" /\ Life!OpenFails /\ UNCHANGED <<Life!env, term, isDisposed>>
      BY <1>5, <2>2 DEF Life!Picked, choice
    <3> QED
      BY <3>1 DEF Life!OpenFails, Life!cleanupComponents, Life!NoDrawing, Life!TerminalParts,
        Life!env
  <2>3. CASE choice.renderer # "none" /\ ~isDisposed
    <3>1. /\ stage' = "running" /\ held' = held \cup Life!TerminalParts \cup Life!PageParts
          /\ context' = choice.canvas /\ renderer' = choice.renderer
          /\ lost' = (choice.renderer = "webgpu" /\ webgpu = "dead")
          /\ listening' = (choice.renderer \in {"webgpu", "webgl"} /\ ~lost')
          /\ stage = "picking" /\ UNCHANGED <<Life!env, term, isDisposed>>
      BY <1>5, <2>3 DEF Life!Picked, choice
    <3> QED
      BY <2>1, <2>3, <3>1 DEF Life!env
  <2> QED
    BY <2>2, <2>3
<1>6. CASE Life!LoseGpu
  BY <1>6 DEF Life!LoseGpu, Life!env
<1>7. CASE Life!Swap
  <2> DEFINE k == IF renderer = "webgpu" THEN "webgl" ELSE "canvas2d"
             next == Life!pickRenderer(k)
             new == Life!Replacement
  <2>1. new = IF next.renderer # "none" THEN next ELSE Life!Canvas2D(next.canvas)
    BY DEF Life!Replacement
  <2>2. /\ next.renderer \in {"none", "webgpu", "webgl", "canvas2d"}
        /\ next.renderer # "none" => next.canvas = next.renderer
        /\ k = "canvas2d" => next = Life!On("canvas2d", "canvas2d")
        /\ k = "webgl" /\ webgl # "late" =>
              \/ next = Life!On("webgl", "webgl")
              \/ next = Life!On("none", "none")
    BY Choices
  <2> HIDE DEF next
  <2>3. new.renderer \in {"none", "webgpu", "webgl", "canvas2d"}
    BY <2>1, <2>2 DEF Life!Canvas2D, Life!On
  <2>4. webgl # "late" =>
          \/ new = Life!On("webgl", "webgl")
          \/ new = Life!On("canvas2d", "canvas2d")
    BY <2>1, <2>2 DEF Life!Canvas2D, Life!On
  <2>5. /\ lost /\ lost' = FALSE /\ context' = new.canvas
        /\ UNCHANGED <<Life!env, stage, term, isDisposed>>
        /\ IF new.renderer = "none"
           THEN renderer' = "failed" /\ held' = held \ {"renderer", "selection"}
           ELSE renderer' = new.renderer /\ UNCHANGED held
        /\ listening' = (renderer' = "webgl")
    BY <1>7 DEF Life!Swap
  <2> HIDE DEF new
  <2>6. stage = "running" /\ ~isDisposed /\ term = "live"
    BY <2>5
  <2>7. CASE new.renderer = "none"
    BY <2>4, <2>5, <2>6, <2>7 DEF Life!env, Life!On
  <2>8. CASE new.renderer # "none"
    <3>1. renderer' = new.renderer /\ held' = held
      BY <2>5, <2>8
    <3>2. RendererByStage'
      BY <2>3, <2>5, <2>6, <3>1
    <3>3. webgl # "late" =>
            new.canvas = new.renderer /\ new.renderer \in {"webgl", "canvas2d"}
      BY <2>4 DEF Life!On
    <3>4. webgl' = webgl /\ context' = new.canvas /\ listening' = (renderer' = "webgl")
      BY <2>5 DEF Life!env
    <3> HIDE DEF LifeInv, LifeEnv, LifeTyped, TermFollowsStage, HeldByStage, RendererByStage
    <3>5. Life!AlwaysDraws'
      BY <3>1, <3>3, <3>4
    <3> QED
      BY <2>5, <2>6, <3>1, <3>2, <3>5
        DEF Life!env, LifeInv, LifeEnv, LifeTyped, TermFollowsStage, HeldByStage
  <2> QED
    BY <2>7, <2>8
<1>8. CASE Life!Dispose
  <2>1. CASE term = "live"
    <3>1. /\ isDisposed' = TRUE /\ term' = "dropped" /\ renderer' = "none" /\ lost' = FALSE
          /\ held' = held \ (Life!TerminalParts \cup Life!PageParts \cup {"addon"})
          /\ stage' = stage /\ UNCHANGED Life!env
      BY <1>8, <2>1 DEF Life!Dispose, Life!DisposeTerm, Life!NoDrawing
    <3>2. held' = {}
      BY <3>1
    <3> QED
      BY <2>1, <3>1, <3>2 DEF Life!env
  <2>2. CASE term # "live"
    <3>1. /\ held' = held \ Life!PageParts /\ UNCHANGED <<isDisposed, term>>
          /\ UNCHANGED <<renderer, lost, context, listening>>
          /\ stage' = stage /\ UNCHANGED Life!env
      BY <1>8, <2>2 DEF Life!Dispose, Life!DisposeTerm, Life!drawing
    <3>2. held' = {}
      BY <2>2, <3>1
    <3> QED
      BY <2>2, <3>1, <3>2 DEF Life!env
  <2> QED
    BY <2>1, <2>2
<1> QED
  BY <1>1, <1>2, <1>3, <1>4, <1>5, <1>6, <1>7, <1>8 DEF Life!Next

LEMMA LifeInvariance == PageSpec => []LifeInv
<1>1. LifeInv /\ [PageNext]_pageVars => LifeInv'
  BY LifeInvStep, StepsOfParts
<1> QED
  BY LifeInvStart, <1>1, PTL DEF PageSpec

(* An open terminal has a renderer that draws, on a canvas of its kind, and a GPU
   that it loses, be it the second one, finds someone who replaces it. *)
THEOREM RendererKept == PageSpec => []AlwaysDraws
BY LifeInvariance, PTL DEF LifeInv, AlwaysDraws

(* Whichever wait of open() is overtaken by dispose(), in the end neither memory
   nor a GPU nor a listener is held; and an init() that fails leaves no part of a
   terminal. *)
THEOREM NothingHeldBack == PageSpec => [](part = "life" => Life!NothingLeft)
<1>1. LifeInv => Life!NothingLeft
  BY DEF LifeInv, LifeTyped, TermFollowsStage, HeldByStage, RendererByStage, Life!NothingLeft
<1> QED
  BY <1>1, LifeInvariance, PTL

-----------------------------------------------------------------------------
(* Glyphs *)

Places == Nat \X Nat
Slots == [image : [glyph : Glyphs, cell : CellSizes], slot : SUBSET Places]

GlyphTyped ==
  /\ cell \in CellSizes
  /\ nextX \in Nat /\ nextY \in Nat /\ rowHeight \in Nat
  /\ encoded \in Seq(Slots) /\ grown \in BOOLEAN

(* The slots of f are behind (x, y) in a shelf that is h pixels high. *)
Behind(f, x, y, h) ==
  /\ f = [g \in DOMAIN f |-> f[g]] /\ DOMAIN f \subseteq Glyphs
  /\ \A g \in DOMAIN f : f[g] \in SUBSET Places
  /\ \A g \in DOMAIN f : \A p \in f[g] : p[2] < y + h /\ (p[2] < y \/ p[1] < x)

(* Those of them that are within the texture show their glyphs. *)
ShownIn(f, t) ==
  \A g \in DOMAIN f : f[g] \subseteq DOMAIN t => \A p \in f[g] : t[p] = Atlas!Image(g)

(* The cells of a frame refer to slots that are kept. *)
EncodedKept ==
  ~grown => \A i \in DOMAIN encoded :
    \E g \in DOMAIN glyphSlots :
      encoded[i].slot = glyphSlots[g] /\ encoded[i].image = Atlas!Image(g)

GlyphInv ==
  /\ GlyphTyped /\ Behind(glyphSlots, nextX, nextY, rowHeight)
  /\ ShownIn(glyphSlots, texture) /\ EncodedKept

LEMMA SlotOf ==
  ASSUME NEW g \in Glyphs, NEW x \in Nat, NEW y \in Nat, cell \in CellSizes
  PROVE  /\ Atlas!Width(g) \in Nat /\ cell.h \in Nat
         /\ Atlas!Slot(x, y, g) \in SUBSET Places
         /\ \A p \in Atlas!Slot(x, y, g) :
              x <= p[1] /\ p[1] < x + Atlas!Width(g) /\ y <= p[2] /\ p[2] < y + cell.h
<1>1. cell.w \in Nat /\ cell.h \in Nat
  BY PageAssumption
<1>2. Atlas!Width(g) \in Nat
  BY <1>1 DEF Atlas!Width
<1> QED
  BY <1>1, <1>2 DEF Atlas!Slot, Places

(* A glyph that goes to (x, y) writes over none of the slots behind. *)
LEMMA Rasterizing ==
  ASSUME GlyphTyped, NEW g \in Glyphs, NEW x \in Nat, NEW y \in Nat, NEW h \in Nat,
         NEW f, NEW t, g \notin DOMAIN f, Behind(f, x, y, h), ShownIn(f, t),
         Atlas!Rasterized(g, x, y, h, f, t), grown' \in BOOLEAN
  PROVE  /\ GlyphTyped' /\ Behind(glyphSlots, nextX, nextY, rowHeight)'
         /\ ShownIn(glyphSlots, texture)'
         /\ DOMAIN glyphSlots' = DOMAIN f \cup {g}
         /\ \A k \in DOMAIN f : glyphSlots'[k] = f[k]
         /\ encoded' = Append(encoded, [image |-> Atlas!Image(g), slot |-> glyphSlots'[g]])
         /\ UNCHANGED cell
<1> DEFINE slot == Atlas!Slot(x, y, g)
<1>1. /\ Atlas!Width(g) \in Nat /\ cell.h \in Nat
      /\ slot \in SUBSET Places
      /\ \A p \in slot :
           x <= p[1] /\ p[1] < x + Atlas!Width(g) /\ y <= p[2] /\ p[2] < y + cell.h
  BY SlotOf DEF GlyphTyped
<1>2. /\ nextX' = x + Atlas!Width(g) /\ nextY' = y
      /\ rowHeight' = IF cell.h > h THEN cell.h ELSE h
      /\ glyphSlots' = [k \in DOMAIN f \cup {g} |-> IF k = g THEN slot ELSE f[k]]
      /\ texture' = Atlas!Uploaded(t, slot, g)
      /\ encoded' = Append(encoded, [image |-> Atlas!Image(g), slot |-> slot])
      /\ cell' = cell
  BY DEF Atlas!Rasterized, Atlas!Encode
<1> HIDE DEF slot
<1>3. /\ DOMAIN glyphSlots' = DOMAIN f \cup {g} /\ glyphSlots'[g] = slot
      /\ \A k \in DOMAIN f : glyphSlots'[k] = f[k]
  BY <1>2
<1>4. GlyphTyped'
  <2>1. [image |-> Atlas!Image(g), slot |-> slot] \in Slots
    BY <1>1 DEF GlyphTyped, Slots, Atlas!Image
  <2> QED
    BY <1>1, <1>2, <2>1 DEF GlyphTyped
<1>5. Behind(glyphSlots, nextX, nextY, rowHeight)'
  <2>1. \A p \in slot : p[2] < nextY' + rowHeight' /\ p[1] < nextX'
    BY <1>1, <1>2 DEF Places
  <2>2. \A k \in DOMAIN f : \A p \in f[k] :
          p[2] < nextY' + rowHeight' /\ (p[2] < nextY' \/ p[1] < nextX')
    BY <1>1, <1>2 DEF Behind, Places
  <2> QED
    BY <1>1, <1>2, <1>3, <2>1, <2>2 DEF Behind
<1>6. ShownIn(glyphSlots, texture)'
  <2>1. DOMAIN texture' = DOMAIN t
    BY <1>2 DEF Atlas!Uploaded
  <2>2. \A k : Atlas!Image(k)' = Atlas!Image(k)
    BY <1>2 DEF Atlas!Image
  <2>3. slot \subseteq DOMAIN t => \A p \in slot : texture'[p] = Atlas!Image(g)
    BY <1>2 DEF Atlas!Uploaded
  <2>4. \A p \in DOMAIN t : p \notin slot => texture'[p] = t[p]
    BY <1>2 DEF Atlas!Uploaded
  <2>5. \A k \in DOMAIN f : f[k] \cap slot = {}
    BY <1>1 DEF Behind, Places
  <2>6. \A k \in DOMAIN f : f[k] \subseteq DOMAIN t => \A p \in f[k] : texture'[p] = Atlas!Image(k)
    BY <2>4, <2>5 DEF ShownIn
  <2> QED
    BY <1>3, <2>1, <2>2, <2>3, <2>6 DEF ShownIn
<1> QED
  BY <1>2, <1>3, <1>4, <1>5, <1>6

(* Encoding another cell with a slot that is kept. *)
LEMMA Encoding ==
  ASSUME GlyphTyped, NEW e \in Slots, NEW f,
         \A i \in DOMAIN encoded : \E g \in DOMAIN f :
           encoded[i].slot = f[g] /\ encoded[i].image = Atlas!Image(g),
         \E g \in DOMAIN f : e.slot = f[g] /\ e.image = Atlas!Image(g),
         NEW s, s = Append(encoded, e)
  PROVE  \A i \in DOMAIN s : \E g \in DOMAIN f :
           s[i].slot = f[g] /\ s[i].image = Atlas!Image(g)
<1>1. /\ DOMAIN s = 1 .. Len(encoded) + 1 /\ DOMAIN encoded = 1 .. Len(encoded)
      /\ Len(encoded) \in Nat
      /\ \A i \in 1 .. Len(encoded) : s[i] = encoded[i]
      /\ s[Len(encoded) + 1] = e
  BY DEF GlyphTyped
<1>2. \A i \in DOMAIN s : i \in DOMAIN encoded \/ i = Len(encoded) + 1
  BY <1>1
<1> QED
  BY <1>1, <1>2

LEMMA GlyphInvStart == PageInit => GlyphInv
<1> SUFFICES ASSUME PageInit
             PROVE  GlyphInv
  OBVIOUS
<1>1. /\ cell \in CellSizes /\ nextX = 0 /\ nextY = 0 /\ rowHeight = 0
      /\ glyphSlots = [g \in {} |-> {}] /\ encoded = <<>> /\ grown = FALSE
  BY DEF PageInit, Atlas!Init, Atlas!NoSlots
<1>2. GlyphTyped
  <2>1. encoded \in Seq(Slots)
    BY <1>1
  <2> QED
    BY <1>1, <2>1 DEF GlyphTyped
<1>3. Behind(glyphSlots, nextX, nextY, rowHeight) /\ ShownIn(glyphSlots, texture)
  BY <1>1 DEF Behind, ShownIn
<1>4. EncodedKept
  BY <1>1 DEF EncodedKept
<1> QED
  BY <1>2, <1>3, <1>4 DEF GlyphInv

LEMMA GlyphInvStep ==
  ASSUME GlyphInv, [Atlas!Next]_(Atlas!vars)
  PROVE  GlyphInv'
<1> USE DEF GlyphInv
<1>0. \A k : cell' = cell => Atlas!Image(k)' = Atlas!Image(k)
  BY DEF Atlas!Image
<1>1. CASE UNCHANGED Atlas!vars
  BY <1>1, <1>0 DEF Atlas!vars, Atlas!packing, GlyphTyped, Behind, ShownIn, EncodedKept
<1>2. CASE Atlas!NewFrame
  <2>1. /\ encoded' = <<>> /\ grown' = FALSE
        /\ UNCHANGED <<cell, nextX, nextY, rowHeight, glyphSlots, texture>>
    BY <1>2 DEF Atlas!NewFrame, Atlas!packing
  <2>2. GlyphTyped'
    <3>1. encoded' \in Seq(Slots)
      BY <2>1
    <3> QED
      BY <2>1, <3>1 DEF GlyphTyped
  <2>3. Behind(glyphSlots, nextX, nextY, rowHeight)'
    BY <2>1 DEF Behind
  <2>4. ShownIn(glyphSlots, texture)'
    BY <2>1, <1>0 DEF ShownIn
  <2>5. EncodedKept'
    BY <2>1 DEF EncodedKept
  <2> QED
    BY <2>2, <2>3, <2>4, <2>5
<1>3. CASE Atlas!Reset
  <2>1. /\ encoded = <<>> /\ cell' \in CellSizes /\ glyphSlots' = [g \in {} |-> {}]
        /\ nextX' = 0 /\ nextY' = 0 /\ rowHeight' = 0 /\ UNCHANGED <<encoded, grown>>
    BY <1>3 DEF Atlas!Reset, Atlas!NoSlots
  <2> QED
    BY <2>1 DEF GlyphTyped, Behind, ShownIn, EncodedKept
<1>4. ASSUME NEW g \in Glyphs, Atlas!Found(g)
      PROVE  GlyphInv'
  <2> DEFINE e == [image |-> Atlas!Image(g), slot |-> glyphSlots[g]]
  <2>1. /\ g \in DOMAIN glyphSlots /\ encoded' = Append(encoded, e)
        /\ UNCHANGED <<cell, nextX, nextY, rowHeight, glyphSlots, texture, grown>>
    BY <1>4 DEF Atlas!Found, Atlas!Encode, Atlas!packing
  <2>2. e \in Slots /\ e.slot = glyphSlots[g] /\ e.image = Atlas!Image(g)
    BY <2>1 DEF Slots, GlyphTyped, Behind, Atlas!Image
  <2> HIDE DEF e
  <2>3. GlyphTyped'
    BY <2>1, <2>2 DEF GlyphTyped
  <2>5. Behind(glyphSlots, nextX, nextY, rowHeight)' /\ ShownIn(glyphSlots, texture)'
    BY <2>1, <1>0 DEF Behind, ShownIn
  <2>4. ASSUME ~grown
        PROVE  \A i \in DOMAIN encoded' : \E k \in DOMAIN glyphSlots :
                 encoded'[i].slot = glyphSlots[k] /\ encoded'[i].image = Atlas!Image(k)
    BY <2>1, <2>2, <2>4, Encoding DEF EncodedKept
  <2> QED
    BY <2>1, <2>3, <2>4, <2>5, <1>0 DEF EncodedKept
<1>5. ASSUME NEW g \in Glyphs, Atlas!Packed(g)
      PROVE  GlyphInv'
  <2> DEFINE x == IF Atlas!FullShelf(g) THEN 0 ELSE nextX
             y == Atlas!Y(g)
             h == IF Atlas!FullShelf(g) THEN 0 ELSE rowHeight
             e == [image |-> Atlas!Image(g), slot |-> glyphSlots'[g]]
  <2>1. /\ Atlas!Rasterized(g, x, y, h, glyphSlots, texture)
        /\ g \notin DOMAIN glyphSlots /\ grown' = grown
    BY <1>5 DEF Atlas!Packed, Atlas!Y
  <2>2. x \in Nat /\ y \in Nat /\ h \in Nat
    BY DEF GlyphTyped, Atlas!Y
  <2>3. Behind(glyphSlots, x, y, h)
    BY DEF Behind, GlyphTyped, Atlas!Y, Places
  <2> HIDE DEF x, y, h
  <2>4. /\ GlyphTyped' /\ Behind(glyphSlots, nextX, nextY, rowHeight)'
        /\ ShownIn(glyphSlots, texture)'
        /\ DOMAIN glyphSlots' = DOMAIN glyphSlots \cup {g}
        /\ \A k \in DOMAIN glyphSlots : glyphSlots'[k] = glyphSlots[k]
        /\ encoded' = Append(encoded, e) /\ cell' = cell
    BY <2>1, <2>2, <2>3, Rasterizing DEF GlyphTyped
  <2>5. e \in Slots /\ e.slot = glyphSlots'[g] /\ e.image = Atlas!Image(g)
    BY <2>4 DEF Slots, GlyphTyped, Behind, Atlas!Image
  <2> HIDE DEF e
  <2>6. ASSUME ~grown
        PROVE  \A i \in DOMAIN encoded' : \E k \in DOMAIN glyphSlots' :
                 encoded'[i].slot = glyphSlots'[k] /\ encoded'[i].image = Atlas!Image(k)
    <3>1. \A i \in DOMAIN encoded : \E k \in DOMAIN glyphSlots' :
            encoded[i].slot = glyphSlots'[k] /\ encoded[i].image = Atlas!Image(k)
      BY <2>4, <2>6 DEF EncodedKept
    <3>2. \E k \in DOMAIN glyphSlots' : e.slot = glyphSlots'[k] /\ e.image = Atlas!Image(k)
      BY <2>4, <2>5
    <3> QED
      BY <2>4, <2>5, <3>1, <3>2, Encoding
  <2> QED
    BY <2>1, <2>4, <2>6, <1>0 DEF EncodedKept
<1>6. ASSUME NEW g \in Glyphs, Atlas!Grown(g)
      PROVE  GlyphInv'
  <2>1. PICK t : Atlas!Rasterized(g, 0, 0, 0, Atlas!NoSlots, t)
    BY <1>6 DEF Atlas!Grown
  <2>2. grown' = TRUE
    BY <1>6 DEF Atlas!Grown
  <2>3. /\ DOMAIN Atlas!NoSlots = {} /\ g \notin DOMAIN Atlas!NoSlots
        /\ Behind(Atlas!NoSlots, 0, 0, 0) /\ ShownIn(Atlas!NoSlots, t)
    BY DEF Atlas!NoSlots, Behind, ShownIn
  <2>4. /\ GlyphTyped' /\ Behind(glyphSlots, nextX, nextY, rowHeight)'
        /\ ShownIn(glyphSlots, texture)'
    BY <2>1, <2>2, <2>3, Rasterizing
  <2> QED
    BY <2>2, <2>4 DEF EncodedKept
<1> QED
  BY <1>1, <1>2, <1>3, <1>4, <1>5, <1>6 DEF Atlas!Next, Atlas!getOrRaster

(* Each cell of a frame is drawn with its own glyph, whatever the sizes of cells,
   glyphs and textures are, however many glyphs there are, and although the slots
   of earlier frames are kept: no glyph that is packed later writes over its
   slot. *)
THEOREM GlyphsKept == PageSpec => [](part = "glyphs" => Atlas!GlyphsShown)
<1>1. GlyphInv /\ [PageNext]_pageVars => GlyphInv'
  BY GlyphInvStep, StepsOfParts
<1>2. GlyphInv => Atlas!GlyphsShown
  BY DEF GlyphInv, ShownIn, EncodedKept, Atlas!GlyphsShown
<1> QED
  BY GlyphInvStart, <1>1, <1>2, PTL DEF PageSpec

-----------------------------------------------------------------------------
(* Rows *)

ShownRow == [line : Int, selected : BOOLEAN, cursor : BOOLEAN]

RowsTyped ==
  /\ buffer \in Seq(Int) /\ Len(buffer) >= LastRow + 1
  /\ dirty \subseteq Rows!Rows /\ cursor \in [row : Rows!Rows, visible : BOOLEAN]
  /\ scrolled \in Nat /\ scrolled <= 2 * Rows!History
  /\ rowCanvas \in [Rows!Rows -> ShownRow]
  /\ last = [cursor |-> last.cursor, scrolled |-> last.scrolled,
             selection |-> last.selection, rows |-> last.rows]
  /\ outputs \in Nat /\ autoScroll \in -1 .. 1

(* What the last frame was to show, in the lines of the buffer as it is. *)
HadLine(r) == 2 * r >= last.scrolled \/ r < last.scrolled \div 2
LineThen(r) == buffer[Rows!History + r - last.scrolled \div 2 + 1]

(* A row that the engine has not flagged since the last frame shows its line:
   while the screen has not moved in the buffer, and unless the frame was scrolled
   and the flags, which count the rows of the screen, are of other rows. *)
LinesKept ==
  ~full /\ ~invalid /\ (dirty = {} \/ last.scrolled = 0) =>
    \A r \in Rows!Rows \ dirty : HadLine(r) => rowCanvas[r].line = LineThen(r)

(* A cursor is to be seen in the row where the last frame had it and in no other.
   It may be one that has been hidden there since. *)
CursorKept ==
  ~invalid => \A r \in Rows!Rows : HadLine(r) =>
    /\ rowCanvas[r].cursor => last.scrolled = 0 /\ r = last.cursor.row
    /\ last.cursor.visible /\ last.scrolled = 0 /\ r = last.cursor.row => rowCanvas[r].cursor

(* The rows that the last frame had selected are highlighted. *)
SelectionKept ==
  /\ ~invalid => \A r \in Rows!Rows : r \in last.rows /\ HadLine(r) => rowCanvas[r].selected
  /\ last.rows # {} => last.selection.rows = last.rows

RowsInv == RowsTyped /\ LinesKept /\ CursorKept /\ SelectionKept

LEMMA RowsInvStart == PageInit => RowsInv
<1> SUFFICES ASSUME PageInit
             PROVE  RowsInv
  OBVIOUS
<1>0. LastRow \in Nat
  BY PageAssumption
<1>1. /\ buffer = [i \in 1 .. LastRow + 1 |-> 0]
      /\ dirty = {} /\ cursor = [row |-> 0, visible |-> TRUE] /\ scrolled = 0
      /\ last = [cursor |-> [row |-> 0, visible |-> FALSE], scrolled |-> 0,
                 selection |-> Rows!None, rows |-> {}]
      /\ invalid = TRUE /\ rowCanvas = [r \in Rows!Rows |-> Rows!Blank]
      /\ outputs = 0 /\ autoScroll = 0
  BY DEF PageInit, Rows!Init
<1>2. buffer \in Seq(Int) /\ Len(buffer) = LastRow + 1
  BY <1>0, <1>1
<1>3. rowCanvas \in [Rows!Rows -> ShownRow]
  BY <1>1 DEF Rows!Blank, ShownRow
<1>4. cursor \in [row : Rows!Rows, visible : BOOLEAN]
  BY <1>0, <1>1 DEF Rows!Rows
<1>5. RowsTyped
  BY <1>0, <1>1, <1>2, <1>3, <1>4 DEF RowsTyped, Rows!History
<1> QED
  BY <1>1, <1>5 DEF RowsInv, LinesKept, CursorKept, SelectionKept

(* A step that leaves the engine and the canvas alone, and scrolls within the
   history. *)
LEMMA MovesOnly ==
  ASSUME RowsInv, UNCHANGED <<buffer, dirty, full, cursor, last, invalid, rowCanvas, outputs>>,
         scrolled' \in Nat, scrolled' <= 2 * Rows!History, autoScroll' \in -1 .. 1
  PROVE  RowsInv'
BY DEF RowsInv, RowsTyped, LinesKept, CursorKept, SelectionKept, HadLine, LineThen,
  Rows!History

LEMMA Writing ==
  ASSUME RowsInv, Rows!Written, NEW r \in Rows!Rows, Rows!WriteRow(r)
  PROVE  RowsInv'
<1>0. LastRow \in Nat /\ r \in Int
  BY PageAssumption DEF Rows!Rows
<1>1. /\ buffer' = [buffer EXCEPT ![Rows!History + r + 1] = outputs + 1]
      /\ dirty' = dirty \cup {r} /\ full' = full
      /\ cursor' \in [row : {r}, visible : BOOLEAN]
      /\ scrolled' = 0 /\ outputs' = outputs + 1
      /\ UNCHANGED <<last, invalid, rowCanvas, autoScroll>>
  BY DEF Rows!WriteRow, Rows!Written, Rows!painter, Rows!mouse
<1>2. buffer' \in Seq(Int) /\ Len(buffer') = Len(buffer) /\ Len(buffer) \in Nat
  <2>1. buffer \in Seq(Int) /\ outputs + 1 \in Int /\ DOMAIN buffer = 1 .. Len(buffer)
    BY DEF RowsInv, RowsTyped
  <2> DEFINE k == Rows!History + r + 1
  <2>2. buffer' = [i \in 1 .. Len(buffer) |-> IF i = k THEN outputs + 1 ELSE buffer[i]]
    BY <1>1, <2>1
  <2> HIDE DEF k
  <2>3. Len(buffer) \in Nat /\ \A i \in 1 .. Len(buffer) : buffer[i] \in Int
    BY <2>1
  <2> QED
    BY <2>1, <2>2, <2>3
<1>3. Rows!History' = Rows!History /\ Rows!History \in Nat
  BY <1>0, <1>2, SMTT(30) DEF Rows!History, RowsInv, RowsTyped
<1>4. RowsTyped'
  BY <1>0, <1>1, <1>2, <1>3, SMTT(30) DEF RowsInv, RowsTyped
<1>5. LinesKept'
  <2> SUFFICES ASSUME ~full, ~invalid, last.scrolled = 0, NEW s \in Rows!Rows \ dirty, s # r,
                      HadLine(s)
               PROVE  rowCanvas[s].line = LineThen(s)'
    BY <1>1 DEF LinesKept, HadLine
  <2>1. rowCanvas[s].line = LineThen(s)
    BY DEF RowsInv, LinesKept
  <2>2. s \in Int /\ last.scrolled \div 2 = 0
    BY DEF Rows!Rows
  <2>3. LineThen(s) = buffer[Rows!History + s + 1] /\ LineThen(s)' = buffer'[Rows!History + s + 1]
    BY <1>1, <1>3, <2>2 DEF LineThen
  <2>4. buffer'[Rows!History + s + 1] = buffer[Rows!History + s + 1]
    <3>1. Rows!History + s + 1 # Rows!History + r + 1
      BY <1>0, <1>3, <2>2
    <3>2. s \in 0 .. LastRow
      BY DEF Rows!Rows
    <3>3. Rows!History + s + 1 \in 1 .. Len(buffer)
      BY <1>0, <1>2, <1>3, <3>2 DEF Rows!History
    <3> QED
      BY <1>1, <3>1, <3>3 DEF RowsInv, RowsTyped
  <2> QED
    BY <2>1, <2>3, <2>4
<1>6. CursorKept' /\ SelectionKept'
  BY <1>1 DEF RowsInv, CursorKept, SelectionKept, HadLine
<1> QED
  BY <1>4, <1>5, <1>6 DEF RowsInv

LEMMA MovingScreen ==
  ASSUME RowsInv, NEW lines \in Seq(Int), Len(lines) >= LastRow + 1, Rows!MovesScreen(lines)
  PROVE  RowsInv'
<1>0. LastRow \in Nat
  BY PageAssumption
<1>1. /\ buffer' = lines /\ full' = TRUE /\ scrolled' = 0 /\ outputs' = outputs + 1
      /\ UNCHANGED <<dirty, cursor, last, invalid, rowCanvas, autoScroll>>
  BY DEF Rows!MovesScreen, Rows!Written, Rows!painter, Rows!mouse
<1>2. Len(lines) \in Nat /\ Rows!History' = Len(lines) - (LastRow + 1)
  BY <1>1 DEF Rows!History
<1>3. scrolled' \in Nat /\ scrolled' <= 2 * Rows!History'
  BY <1>0, <1>1, <1>2
<1>4. RowsTyped'
  BY <1>1, <1>3 DEF RowsInv, RowsTyped
<1> QED
  BY <1>1, <1>4 DEF RowsInv, LinesKept, CursorKept, SelectionKept, HadLine

LEMMA RowChanged ==
  ASSUME NEW s \in ShownRow, NEW b
  PROVE  /\ [s EXCEPT !.selected = b \in last.rows] \in ShownRow
         /\ \A t \in ShownRow : [s EXCEPT !.cursor = @ \/ t.cursor] \in ShownRow
<1>1. \A x \in BOOLEAN : [s EXCEPT !.selected = x] \in ShownRow
  BY DEF ShownRow
<1>2. \A x \in BOOLEAN : [s EXCEPT !.cursor = x] \in ShownRow
  BY DEF ShownRow
<1> QED
  <2> SUFFICES ASSUME NEW t \in ShownRow
               PROVE  /\ [s EXCEPT !.selected = b \in last.rows] \in ShownRow
                      /\ [s EXCEPT !.cursor = s.cursor \/ t.cursor] \in ShownRow
    OBVIOUS
  <2>1. (b \in last.rows) \in BOOLEAN /\ (s.cursor \/ t.cursor) \in BOOLEAN
    OBVIOUS
  <2> QED
    BY <1>1, <1>2, <2>1

(* What a frame leaves. *)
LEMMA Rendering ==
  ASSUME RowsInv, Rows!Render
  PROVE  RowsInv'
<1> USE DEF RowsInv
<1>0. LastRow \in Nat /\ \A r \in Rows!Rows : r \in Nat /\ r <= LastRow
  BY PageAssumption DEF Rows!Rows
<1>1. /\ rowCanvas' = [r \in Rows!Rows |->
                         IF backend = "canvas2d" THEN Rows!Repainted(r) ELSE Rows!Encoded(r)]
      /\ last' = [cursor |-> cursor, scrolled |-> scrolled, selection |-> Rows!Signature,
                  rows |-> IF Rows!HasSelection THEN Rows!SelectedRows ELSE {}]
      /\ dirty' = {} /\ full' = FALSE /\ invalid' = FALSE
      /\ UNCHANGED <<buffer, cursor, scrolled, outputs, autoScroll>>
  BY DEF Rows!Render
<1>2. \A r \in Rows!Rows : HadLine(r)' <=> Rows!HasLine(r)
  BY <1>1 DEF HadLine, Rows!HasLine, Rows!Above
<1>3. \A r \in Rows!Rows : LineThen(r)' = Rows!LineAt(r)
  BY <1>1 DEF LineThen, Rows!LineAt, Rows!viewportRowToAbsolute, Rows!History, Rows!Above
<1>4. Rows!History \in Nat /\ Rows!Above \in Nat /\ Rows!Above <= Rows!History
  BY <1>0, SMTT(30) DEF RowsTyped, Rows!History, Rows!Above
<1>5. ASSUME NEW r \in Rows!Rows
      PROVE  Rows!Seen(r) \in ShownRow
  <2> DEFINE n == Rows!viewportRowToAbsolute(r) + 1
  <2>1. n = Rows!History + r - Rows!Above + 1
    BY DEF Rows!viewportRowToAbsolute
  <2>2. Rows!History = Len(buffer) - (LastRow + 1) /\ buffer \in Seq(Int)
    BY DEF Rows!History, RowsTyped
  <2>3. n \in 1 .. Len(buffer)
    BY <1>0, <1>4, <1>5, <2>1, <2>2, SMTT(30)
  <2>4. Rows!LineAt(r) \in Int
    BY <2>2, <2>3 DEF Rows!LineAt
  <2> QED
    BY <2>4 DEF Rows!Seen, ShownRow
<1>6. ASSUME NEW r \in Rows!Rows
      PROVE  /\ Rows!Encoded(r) \in ShownRow /\ Rows!Repainted(r) \in ShownRow
  <2>1. rowCanvas[r] \in ShownRow
    BY <1>6 DEF RowsTyped
  <2>2. /\ [Rows!Seen(r) EXCEPT !.selected = r \in last.rows] \in ShownRow
        /\ [rowCanvas[r] EXCEPT !.cursor = @ \/ Rows!Seen(r).cursor] \in ShownRow
    BY <1>5, <1>6, <2>1, RowChanged
  <2> QED
    BY <1>5, <1>6, <2>2 DEF Rows!Encoded, Rows!Repainted, Rows!Blank, ShownRow
<1>7. RowsTyped'
  <2>1. rowCanvas' \in [Rows!Rows -> ShownRow]
    BY <1>1, <1>6
  <2> QED
    BY <1>1, <2>1 DEF RowsTyped, Rows!History
(* Of a row that is not drawn again. *)
<1>8. ASSUME NEW r \in Rows!Rows, r \notin Rows!Drawn
      PROVE  /\ ~invalid /\ ~full /\ scrolled = 0 /\ last.scrolled = 0
             /\ r \notin dirty /\ HadLine(r)
             /\ Rows!HasSelection => r \notin Rows!SelectedRows
  <2>1. ~Rows!Everything /\ ~(scrolled > 0)
    BY <1>8 DEF Rows!Drawn
  <2>2. scrolled = 0 /\ last.scrolled = 0 /\ ~invalid /\ ~full
    BY <2>1 DEF Rows!Everything, RowsTyped
  <2>3. r \in r - 1 .. r + 1
    BY <1>0
  <2>4. r \notin dirty /\ (Rows!HasSelection => r \notin Rows!SelectedRows)
    BY <1>8, <2>1, <2>3 DEF Rows!Drawn
  <2> QED
    BY <1>0, <2>2, <2>4 DEF HadLine
<1>9. ASSUME NEW r \in Rows!Rows, Rows!HasLine(r)
      PROVE  /\ rowCanvas'[r].line = Rows!LineAt(r)
             /\ rowCanvas'[r].cursor => scrolled = 0 /\ r = cursor.row
             /\ cursor.visible /\ scrolled = 0 /\ r = cursor.row => rowCanvas'[r].cursor
             /\ Rows!HasSelection /\ r \in Rows!SelectedRows => rowCanvas'[r].selected
  <2>1. /\ Rows!Seen(r).line = Rows!LineAt(r)
        /\ Rows!Seen(r).cursor = (scrolled = 0 /\ cursor.visible /\ r = cursor.row)
        /\ Rows!Seen(r).selected = (Rows!HasSelection /\ r \in Rows!SelectedRows)
    BY DEF Rows!Seen
  <2>2. rowCanvas'[r] = IF backend = "canvas2d" THEN Rows!Repainted(r) ELSE Rows!Encoded(r)
    BY <1>1, <1>9
  <2>3. CASE rowCanvas'[r] = Rows!Seen(r)
    BY <2>1, <2>3
  <2>4. CASE rowCanvas'[r] = [Rows!Seen(r) EXCEPT !.selected = r \in last.rows]
             /\ r \notin Rows!Drawn
    <3>1. rowCanvas'[r].line = Rows!Seen(r).line /\ rowCanvas'[r].cursor = Rows!Seen(r).cursor
      BY <1>5, <1>9, <2>4 DEF ShownRow
    <3> QED
      BY <1>8, <1>9, <2>1, <2>4, <3>1
  <2>5. CASE /\ rowCanvas'[r] = [rowCanvas[r] EXCEPT !.cursor = @ \/ Rows!Seen(r).cursor]
             /\ r \notin Rows!Drawn /\ r \notin Rows!CursorRows
    <3>1. /\ rowCanvas'[r].line = rowCanvas[r].line
          /\ rowCanvas'[r].cursor = (rowCanvas[r].cursor \/ Rows!Seen(r).cursor)
      BY <1>9, <2>5 DEF RowsTyped, ShownRow
    <3>2. /\ ~invalid /\ ~full /\ scrolled = 0 /\ last.scrolled = 0
          /\ r \notin dirty /\ HadLine(r)
          /\ Rows!HasSelection => r \notin Rows!SelectedRows
      BY <1>8, <1>9, <2>5
    <3>3. rowCanvas[r].line = Rows!LineAt(r)
      BY <1>9, <3>2 DEF LinesKept, LineThen, Rows!LineAt, Rows!viewportRowToAbsolute, Rows!Above
    <3>4. rowCanvas[r].cursor => r = cursor.row
      BY <1>9, <2>5, <3>2 DEF CursorKept, Rows!CursorRows
    <3> QED
      BY <2>1, <3>1, <3>2, <3>3, <3>4
  <2> QED
    BY <1>9, <2>2, <2>3, <2>4, <2>5 DEF Rows!Repainted, Rows!Encoded
<1>10. LinesKept'
  BY <1>1, <1>2, <1>3, <1>9 DEF LinesKept
<1>11. CursorKept'
  BY <1>1, <1>2, <1>9 DEF CursorKept
<1>12. SelectionKept'
  <2>1. last'.rows # {} => last'.selection.rows = last'.rows
    BY <1>1 DEF Rows!Signature
  <2>2. \A r \in last'.rows : Rows!HasSelection /\ r \in Rows!SelectedRows
    BY <1>1
  <2> QED
    BY <1>2, <1>9, <2>1, <2>2 DEF SelectionKept
<1> QED
  BY <1>7, <1>10, <1>11, <1>12

LEMMA RowsInvStep ==
  ASSUME RowsInv, [Rows!Next]_(Rows!vars)
  PROVE  RowsInv'
<1>0. LastRow \in Nat
  BY PageAssumption
<1>1. CASE UNCHANGED Rows!vars
  BY <1>1, MovesOnly
    DEF Rows!vars, Rows!engine, Rows!painter, Rows!mouse, RowsInv, RowsTyped
<1>2. ASSUME NEW r \in Rows!Rows, Rows!WriteRow(r)
      PROVE  RowsInv'
  BY <1>2, Writing DEF Rows!WriteRow
<1>3. CASE Rows!MoveCursor
  <2>1. /\ cursor' \in [row : Rows!Rows, visible : BOOLEAN] /\ scrolled' = 0
        /\ outputs' = outputs + 1
        /\ UNCHANGED <<buffer, dirty, full, last, invalid, rowCanvas, autoScroll>>
    BY <1>3 DEF Rows!MoveCursor, Rows!Written, Rows!painter, Rows!mouse
  <2> QED
    BY <1>0, <2>1 DEF RowsInv, RowsTyped, LinesKept, CursorKept, SelectionKept, HadLine, LineThen,
      Rows!History
<1>4. CASE Rows!AddLine \/ Rows!ClearHistory
  <2>1. /\ buffer \in Seq(Int) /\ Len(buffer) \in Nat /\ Len(buffer) >= LastRow + 1
        /\ outputs + 1 \in Int /\ Rows!History = Len(buffer) - (LastRow + 1)
    BY DEF RowsInv, RowsTyped, Rows!History
  <2>2. CASE Rows!AddLine
    <3> DEFINE kept == IF Rows!History = MaxHistory THEN Tail(buffer) ELSE buffer
               lines == Append(kept, outputs + 1)
    <3>1. Tail(buffer) \in Seq(Int) /\ Len(Tail(buffer)) = Len(buffer) - 1
      BY <1>0, <2>1
    <3>2. kept \in Seq(Int) /\ Len(kept) >= Len(buffer) - 1 /\ Len(kept) \in Nat
      BY <2>1, <3>1
    <3>3. Rows!MovesScreen(lines)
      BY <2>2 DEF Rows!AddLine
    <3> HIDE DEF kept
    <3>4. lines \in Seq(Int) /\ Len(lines) >= LastRow + 1
      BY <1>0, <2>1, <3>2
    <3> QED
      BY <3>3, <3>4, MovingScreen
  <2>3. CASE Rows!ClearHistory
    <3> DEFINE lines == SubSeq(buffer, Rows!History + 1, Len(buffer))
    <3>1. Rows!MovesScreen(lines) /\ Rows!History > 0
      BY <2>3 DEF Rows!ClearHistory
    <3>2. lines \in Seq(Int) /\ Len(lines) = LastRow + 1
      BY <1>0, <2>1, <3>1, SMTT(30)
    <3> HIDE DEF lines
    <3> QED
      BY <1>0, <3>1, <3>2, MovingScreen
  <2> QED
    BY <1>4, <2>2, <2>3
<1>5. ASSUME Rows!Moves, scrolled' = scrolled, autoScroll' \in -1 .. 1
      PROVE  RowsInv'
  <2>1. scrolled \in Nat /\ scrolled <= 2 * Rows!History
    BY DEF RowsInv, RowsTyped
  <2> QED
    BY <1>5, <2>1, MovesOnly DEF Rows!Moves, Rows!engine, Rows!painter
<1>6. CASE Rows!Scroll
  <2>1. scrolled' \in Nat /\ scrolled' <= 2 * Rows!History
    BY <1>6 DEF Rows!Scroll, RowsInv, RowsTyped, Rows!History
  <2> QED
    BY <1>6, <2>1, MovesOnly
      DEF Rows!Scroll, Rows!Moves, Rows!engine, Rows!painter, Rows!mouse, RowsInv, RowsTyped
<1>7. CASE Rows!AutoScroll
  <2>1. scrolled' \in Nat /\ scrolled' <= 2 * Rows!History
    <3>1. scrolled \in Nat /\ scrolled <= 2 * Rows!History /\ Rows!History \in Nat
      BY <1>0 DEF RowsInv, RowsTyped, Rows!History
    <3>2. autoScroll \in -1 .. 1
      BY DEF RowsInv, RowsTyped
    <3>3. scrolled' \in {scrolled, Rows!AtLeast(0, Rows!AtMost(2 * Rows!History, scrolled - 6 * autoScroll))}
      BY <1>7 DEF Rows!AutoScroll
    <3> QED
      BY <3>1, <3>2, <3>3 DEF Rows!AtLeast, Rows!AtMost
  <2> QED
    <3>1. autoScroll' \in -1 .. 1
      <4>1. autoScroll' \in {0, autoScroll} /\ autoScroll \in -1 .. 1
        BY <1>7 DEF Rows!AutoScroll, RowsInv, RowsTyped
      <4> QED
        BY <4>1
    <3> QED
      BY <1>7, <2>1, <3>1, MovesOnly DEF Rows!AutoScroll, Rows!engine, Rows!painter
<1>8. CASE Rows!ResizeCanvas
  <2>1. /\ rowCanvas' = [r \in Rows!Rows |-> Rows!Blank] /\ invalid' = TRUE
        /\ UNCHANGED <<buffer, dirty, full, cursor, scrolled, last, outputs, autoScroll>>
    BY <1>8 DEF Rows!ResizeCanvas, Rows!engine, Rows!mouse
  <2>2. rowCanvas' \in [Rows!Rows -> ShownRow]
    BY <2>1 DEF Rows!Blank, ShownRow
  <2> QED
    BY <2>1, <2>2 DEF RowsInv, RowsTyped, LinesKept, CursorKept, SelectionKept, Rows!History
<1>9. CASE Rows!Render
  BY <1>9, Rendering
<1>10. ASSUME \/ \E r \in Rows!Rows : Rows!MouseDown(r) \/ Rows!MouseMove(r) \/ Rows!DoubleClick(r)
              \/ Rows!MouseUp \/ Rows!MouseEnters \/ Rows!MouseLeaves(-1) \/ Rows!MouseLeaves(1)
              \/ \E r \in Rows!Rows : \E s \in r .. LastRow :
                   Rows!Select(r, s) \/ Rows!selectLines(r, s)
              \/ Rows!Deselect
       PROVE  RowsInv'
  <2>1. autoScroll \in -1 .. 1
    BY DEF RowsInv, RowsTyped
  <2>2. Rows!Moves /\ scrolled' = scrolled /\ autoScroll' \in {autoScroll, -1, 0, 1}
    BY <1>10 DEF Rows!MouseDown, Rows!MouseMove, Rows!DoubleClick, Rows!MouseUp,
      Rows!MouseEnters, Rows!MouseLeaves, Rows!Select, Rows!selectLines, Rows!Selects,
      Rows!Deselect
  <2> QED
    BY <1>5, <2>1, <2>2
<1> QED
  BY <1>1, <1>2, <1>3, <1>4, <1>6, <1>7, <1>8, <1>9, <1>10 DEF Rows!Next

(* What is not drawn again need not be: when render() has nothing to do, each row
   shows its line, its selection and the cursor, for every size of the screen and
   of its history, and whatever the user and the program have done since the last
   frame. *)
LEMMA RowsShown == RowsInv => Rows!RowsCurrent
<1> SUFFICES ASSUME RowsInv, ~Rows!Wanted, NEW r \in Rows!Rows, Rows!HasLine(r)
             PROVE  /\ rowCanvas[r].line = Rows!LineAt(r)
                    /\ Rows!Seen(r).selected /\ last.rows # {} => rowCanvas[r].selected
                    /\ cursor.visible => rowCanvas[r].cursor = Rows!Seen(r).cursor
  BY DEF Rows!RowsCurrent
<1>1. /\ ~invalid /\ cursor = last.cursor /\ scrolled = last.scrolled /\ ~full /\ dirty = {}
      /\ Rows!Signature = last.selection
  BY DEF Rows!Wanted
<1>2. HadLine(r) /\ LineThen(r) = Rows!LineAt(r)
  BY <1>1 DEF HadLine, LineThen, Rows!HasLine, Rows!LineAt, Rows!viewportRowToAbsolute, Rows!Above
<1>3. rowCanvas[r].line = Rows!LineAt(r)
  BY <1>1, <1>2 DEF RowsInv, LinesKept
<1>4. ASSUME Rows!Seen(r).selected, last.rows # {}
      PROVE  rowCanvas[r].selected
  <2>1. r \in Rows!SelectedRows
    BY <1>4 DEF Rows!Seen
  <2>2. last.selection.rows = Rows!SelectedRows
    BY <1>1, <2>1 DEF Rows!Signature
  <2> QED
    BY <1>1, <1>2, <1>4, <2>1, <2>2 DEF RowsInv, SelectionKept
<1>5. ASSUME cursor.visible
      PROVE  rowCanvas[r].cursor = Rows!Seen(r).cursor
  <2>1. Rows!Seen(r).cursor = (scrolled = 0 /\ cursor.visible /\ r = cursor.row)
    BY DEF Rows!Seen
  <2>2. rowCanvas[r].cursor \in BOOLEAN
    BY DEF RowsInv, RowsTyped, ShownRow
  <2> QED
    BY <1>1, <1>2, <1>5, <2>1, <2>2 DEF RowsInv, CursorKept
<1> QED
  BY <1>3, <1>4, <1>5

-----------------------------------------------------------------------------
(* Links *)

Names == {"target", "address", "path"}

LinkTyped ==
  /\ linkText \in Seq({"plain", "address", "path", "marked", "both"}) /\ Len(linkText) >= 2
  /\ scrolledBy \in Nat /\ scrolledBy <= InLinks!History
  /\ pointer \in 0 .. 2 /\ pendingMove \in 0 .. 2
  /\ DOMAIN linkCache \subseteq DOMAIN linkText /\ scanned \subseteq DOMAIN linkText
  /\ scans \in Seq([row : DOMAIN linkText, who : {"move", "click"}, links : Seq(Names)])
  /\ custom \in BOOLEAN /\ since \in BOOLEAN

There(row) == InLinks!LinkIn(linkText[row])
Awaited(row) == \E i \in DOMAIN scans : scans[i].row = row
MoveAwaited == \E i \in DOMAIN scans : scans[i].who = "move"

(* A row that has not changed unnoticed has the link that is cached for it; if
   there is none, although it has been scanned and no answer is to come, it has
   no link. *)
CacheTrue ==
  \A row \in DOMAIN linkText \ changed :
    /\ row \in DOMAIN linkCache => linkCache[row] = There(row)
    /\ row \in scanned \ DOMAIN linkCache => Awaited(row) \/ There(row) = "none"

(* As long as nothing has overtaken the pointer's last move, an answer that it
   waits for is about the row the pointer is in, and without one its link is the
   one there. *)
PointerTrue ==
  ~since =>
    /\ \A i \in DOMAIN scans : scans[i].who = "move" =>
         pointer # 2 /\ scans[i].row = InLinks!RowSeen(pointer)
    /\ pointer = 2 => hoveredLink = "none"
    /\ pointer # 2 /\ ~MoveAwaited /\ InLinks!RowSeen(pointer) \notin changed =>
         hoveredLink = There(InLinks!RowSeen(pointer))

LinkInv ==
  LinkTyped /\ CacheTrue /\ PointerTrue /\ activated.link = activated.there

LEMMA Joined ==
  ASSUME NEW S, NEW s \in Seq(S), NEW t \in Seq(S)
  PROVE  /\ s \o t \in Seq(S)
         /\ s = <<>> => s \o t = t
         /\ s # <<>> => s \o t # <<>> /\ Head(s \o t) = Head(s)
<1>1. s \o t \in Seq(S) /\ Len(s \o t) = Len(s) + Len(t) /\ Len(s) \in Nat /\ Len(t) \in Nat
  OBVIOUS
<1>2. s = <<>> => s \o t = t
  OBVIOUS
<1>3. ASSUME s # <<>>
      PROVE  s \o t # <<>> /\ Head(s \o t) = Head(s)
  <2>1. Len(s) > 0
    BY <1>3
  <2>2. (s \o t)[1] = s[1]
    BY <2>1 DEF Names
  <2>3. s \o t # <<>>
    BY <1>1, <2>1
  <2> QED
    BY <1>1, <1>3, <2>2, <2>3
<1> QED
  BY <1>1, <1>2, <1>3

LEMMA Single ==
  ASSUME NEW S, NEW x \in S
  PROVE  <<x>> \in Seq(S) /\ <<x>> # <<>> /\ Head(<<x>>) = x /\ <<>> \in Seq(S)
OBVIOUS

(* What the providers find first is the link. *)
LEMMA FirstLink ==
  ASSUME NEW c \in {"plain", "address", "path", "marked", "both"}, custom \in BOOLEAN
  PROVE  LET own == InLinks!provideMarked(c) \o InLinks!provideAddress(c)
             all == own \o InLinks!provideCustom(c)
         IN /\ own \in Seq(Names) /\ all \in Seq(Names)
            /\ ~custom => IF own = <<>> THEN InLinks!LinkIn(c) = "none"
                          ELSE Head(own) = InLinks!LinkIn(c)
<1> DEFINE m == InLinks!provideMarked(c)
           a == InLinks!provideAddress(c)
           p == InLinks!provideCustom(c)
<1>1. /\ m = IF c \in {"marked", "both"} THEN <<"target">> ELSE <<>>
      /\ a = IF c \in {"address", "both"} THEN <<"address">> ELSE <<>>
      /\ p = IF c = "path" THEN <<"path">> ELSE <<>>
  BY DEF InLinks!provideMarked, InLinks!provideAddress, InLinks!provideCustom
<1>2. /\ m \in Seq(Names) /\ a \in Seq(Names)
      /\ m # <<>> => Head(m) = "target"
      /\ a # <<>> => Head(a) = "address"
      /\ p \in Seq(Names)
      /\ m # <<>> <=> c \in {"marked", "both"}
      /\ a # <<>> <=> c \in {"address", "both"}
  <2>1. \A x \in Names :
          <<x>> \in Seq(Names) /\ <<x>> # <<>> /\ Head(<<x>>) = x /\ <<>> \in Seq(Names)
    BY Single
  <2>2. <<"target">> \in Seq(Names) /\ <<"target">> # <<>> /\ Head(<<"target">>) = "target"
    BY <2>1 DEF Names
  <2>3. <<"address">> \in Seq(Names) /\ <<"address">> # <<>> /\ Head(<<"address">>) = "address"
    BY <2>1 DEF Names
  <2>4. <<"path">> \in Seq(Names) /\ <<>> \in Seq(Names)
    BY <2>1 DEF Names
  <2> QED
    BY <1>1, <2>2, <2>3, <2>4
<1> HIDE DEF m, a, p
<1>3. /\ m \o a \in Seq(Names)
      /\ m = <<>> => m \o a = a
      /\ m # <<>> => m \o a # <<>> /\ Head(m \o a) = Head(m)
  BY <1>2, Joined
<1>4. (m \o a) \o p \in Seq(Names)
  BY <1>2, <1>3, Joined
<1>5. ~custom => InLinks!LinkIn(c) = IF m # <<>> THEN "target" ELSE IF a # <<>> THEN "address" ELSE "none"
  BY <1>2 DEF InLinks!LinkIn
<1>6. ~custom => IF m \o a = <<>> THEN InLinks!LinkIn(c) = "none"
                 ELSE Head(m \o a) = InLinks!LinkIn(c)
  BY <1>2, <1>3, <1>5
<1> QED
  BY <1>3, <1>4, <1>6 DEF m, a, p

LEMMA Appended ==
  ASSUME NEW S, NEW s \in Seq(S), NEW e
  PROVE  /\ DOMAIN s = 1 .. Len(s) /\ Len(s) \in Nat
         /\ DOMAIN Append(s, e) = DOMAIN s \cup {Len(s) + 1}
         /\ \A i \in DOMAIN s : Append(s, e)[i] = s[i]
         /\ Append(s, e)[Len(s) + 1] = e
OBVIOUS

(* Looking up the link of a row that lies in the terminal. *)
LEMMA LookingUp ==
  ASSUME LinkTyped, CacheTrue, NEW row \in DOMAIN linkText, NEW who \in {"move", "click"},
         InLinks!GetLinkAt(row, who), UNCHANGED <<linkText, custom, changed>>
  PROVE  /\ DOMAIN linkCache' \subseteq DOMAIN linkText /\ scanned' \subseteq DOMAIN linkText
         /\ scans' \in Seq([row : DOMAIN linkText, who : {"move", "click"}, links : Seq(Names)])
         /\ CacheTrue'
         /\ \/ scans' = scans /\ ~InLinks!Wait(row)
            \/ /\ InLinks!Wait(row)
               /\ \E links : scans' = Append(scans, [row |-> row, who |-> who, links |-> links])
         /\ ~InLinks!Wait(row) /\ ~Awaited(row) /\ row \notin changed =>
              InLinks!LinkAt(linkCache', row) = There(row)
<1> DEFINE Scans == [row : DOMAIN linkText, who : {"move", "click"}, links : Seq(Names)]
<1>0. /\ linkText[row] \in {"plain", "address", "path", "marked", "both"} /\ custom \in BOOLEAN
      /\ \A r : There(r)' = There(r)
  BY DEF LinkTyped, There, InLinks!LinkIn
<1>1. CASE row \in DOMAIN linkCache \cup scanned
  <2>1. UNCHANGED <<linkCache, scanned, scans>>
    BY <1>1 DEF InLinks!GetLinkAt
  <2>2. CacheTrue'
    BY <1>0, <2>1 DEF CacheTrue, Awaited
  <2>3. ~InLinks!Wait(row)
    BY <1>1 DEF InLinks!Wait
  <2> QED
    BY <1>1, <2>1, <2>2, <2>3 DEF LinkTyped, CacheTrue, InLinks!LinkAt
<1>2. CASE row \notin DOMAIN linkCache \cup scanned /\ custom
  <2> DEFINE links == InLinks!Found(row) \o InLinks!provideCustom(linkText[row])
             scan == [row |-> row, who |-> who, links |-> links]
  <2>1. /\ scanned' = scanned \cup {row} /\ linkCache' = linkCache
        /\ scans' = Append(scans, scan) /\ InLinks!Wait(row)
    BY <1>2 DEF InLinks!GetLinkAt, InLinks!Wait
  <2>2. links \in Seq(Names)
    BY <1>0, FirstLink DEF InLinks!Found
  <2> HIDE DEF links
  <2>3. scan \in Scans
    BY <2>2
  <2>4. scans \in Seq(Scans)
    BY DEF LinkTyped
  <2>5. scans' \in Seq(Scans)
    BY <2>1, <2>3, <2>4
  <2>6. \A r : Awaited(r)' <=> Awaited(r) \/ r = row
    <3>1. /\ DOMAIN scans' = DOMAIN scans \cup {Len(scans) + 1}
          /\ \A i \in DOMAIN scans : scans'[i] = scans[i]
          /\ scans'[Len(scans) + 1] = scan
      BY <2>1, <2>4, Appended
    <3>2. scan.row = row
      OBVIOUS
    <3> HIDE DEF scan
    <3> QED
      BY <3>1, <3>2 DEF Awaited
  <2>7. CacheTrue'
    BY <1>0, <2>1, <2>6 DEF CacheTrue
  <2> QED
    BY <2>1, <2>5, <2>7 DEF LinkTyped
<1>3. CASE row \notin DOMAIN linkCache \cup scanned /\ ~custom
  <2> DEFINE links == InLinks!Found(row)
  <2>1. /\ scanned' = scanned \cup {row} /\ scans' = scans /\ ~InLinks!Wait(row)
        /\ linkCache' = InLinks!cacheLink(linkCache, row, links)
    BY <1>3 DEF InLinks!GetLinkAt, InLinks!Wait
  <2>2. IF links = <<>> THEN There(row) = "none" ELSE Head(links) = There(row)
    BY <1>0, <1>3, FirstLink DEF InLinks!Found, There
  <2> HIDE DEF links
  <2>3. /\ DOMAIN linkCache' = IF links = <<>> THEN DOMAIN linkCache ELSE DOMAIN linkCache \cup {row}
        /\ \A r \in DOMAIN linkCache : linkCache'[r] = linkCache[r]
        /\ links # <<>> => linkCache'[row] = Head(links)
    BY <1>3, <2>1 DEF InLinks!cacheLink
  <2>4. CacheTrue'
    BY <1>0, <1>3, <2>1, <2>2, <2>3 DEF CacheTrue, Awaited
  <2>5. InLinks!LinkAt(linkCache', row) = There(row)
    BY <1>3, <2>2, <2>3 DEF InLinks!LinkAt
  <2> QED
    BY <2>1, <2>3, <2>4, <2>5 DEF LinkTyped
<1> QED
  BY <1>1, <1>2, <1>3

LEMMA PointedAt ==
  ASSUME LinkTyped, NEW r \in 0 .. 1
  PROVE  InLinks!RowAt(r) = InLinks!RowSeen(r) /\ InLinks!RowSeen(r) \in DOMAIN linkText
<1>1. /\ DOMAIN linkText = 1 .. Len(linkText) /\ Len(linkText) \in Nat
      /\ InLinks!History = Len(linkText) - 2 /\ Len(linkText) >= 2
  BY DEF LinkTyped, InLinks!History, InLinks!Screen
<1> QED
  BY <1>1 DEF LinkTyped, InLinks!RowAt, InLinks!RowSeen

(* A move that is processed, with the pointer at row now of the viewport. *)
LEMMA Moving ==
  ASSUME LinkInv, NEW r \in 0 .. 1, InLinks!processMouseMove(r, pointer'), pointer' \in 0 .. 2,
         pendingMove' \in 0 .. 2,
         UNCHANGED <<linkText, scrolledBy, custom, changed, activated>>
  PROVE  LinkInv'
<1> DEFINE row == InLinks!RowAt(r)
<1> USE DEF LinkInv
<1>1. row = InLinks!RowSeen(r) /\ row \in DOMAIN linkText
  BY PointedAt
<1>2. /\ InLinks!GetLinkAt(row, "move")
      /\ hoveredLink' = IF InLinks!Wait(row) THEN hoveredLink ELSE InLinks!LinkAt(linkCache', row)
      /\ since' = (\/ r # pointer'
                   \/ \E i \in DOMAIN scans : scans[i].who = "move" \/ scans[i].row = row)
  BY DEF InLinks!processMouseMove
<1> HIDE DEF row
<1>3. /\ DOMAIN linkCache' \subseteq DOMAIN linkText /\ scanned' \subseteq DOMAIN linkText
      /\ scans' \in Seq([row : DOMAIN linkText, who : {"move", "click"}, links : Seq(Names)])
      /\ CacheTrue'
      /\ \/ scans' = scans /\ ~InLinks!Wait(row)
         \/ /\ InLinks!Wait(row)
            /\ \E links : scans' = Append(scans, [row |-> row, who |-> "move", links |-> links])
      /\ ~InLinks!Wait(row) /\ ~Awaited(row) /\ row \notin changed =>
           InLinks!LinkAt(linkCache', row) = There(row)
  BY <1>1, <1>2, LookingUp
<1>4. LinkTyped'
  BY <1>2, <1>3 DEF LinkTyped, InLinks!History
<1>5. PointerTrue'
  <2> SUFFICES ASSUME ~since'
               PROVE  PointerTrue'
    BY DEF PointerTrue
  <2>1. /\ pointer' = r /\ ~MoveAwaited /\ ~Awaited(row)
        /\ \A i \in DOMAIN scans : scans[i].who # "move"
    BY <1>2 DEF MoveAwaited, Awaited
  <2>2. InLinks!RowSeen(pointer)' = row /\ pointer' # 2 /\ \A n : There(n)' = There(n)
    BY <1>1, <2>1 DEF InLinks!RowSeen, InLinks!History, There, InLinks!LinkIn
  <2>3. CASE scans' = scans /\ ~InLinks!Wait(row)
    <3>1. ~MoveAwaited' /\ \A i \in DOMAIN scans' : scans'[i].who # "move"
      BY <2>1, <2>3 DEF MoveAwaited
    <3>2. row \notin changed => hoveredLink' = There(row)
      BY <1>2, <1>3, <2>1, <2>3
    <3> QED
      BY <2>2, <3>1, <3>2 DEF PointerTrue
  <2>4. CASE InLinks!Wait(row)
    <3>1. PICK links :
            scans' = Append(scans, [row |-> row, who |-> "move", links |-> links])
      BY <1>3, <2>4
    <3> DEFINE scan == [row |-> row, who |-> "move", links |-> links]
    <3>2. scan.row = row /\ scan.who = "move"
      OBVIOUS
    <3>3. /\ DOMAIN scans' = DOMAIN scans \cup {Len(scans) + 1}
          /\ \A i \in DOMAIN scans : scans'[i] = scans[i]
          /\ scans'[Len(scans) + 1] = scan
      BY <3>1, Appended, SMTT(30) DEF LinkTyped
    <3> HIDE DEF scan
    <3>4. MoveAwaited'
      BY <3>2, <3>3 DEF MoveAwaited
    <3>5. \A i \in DOMAIN scans' : scans'[i].who = "move" => scans'[i].row = row
      BY <2>1, <3>2, <3>3
    <3> QED
      BY <2>2, <3>4, <3>5 DEF PointerTrue
  <2> QED
    BY <1>3, <2>3, <2>4
<1> QED
  BY <1>3, <1>4, <1>5

LEMMA Clicking ==
  ASSUME LinkInv, InLinks!handleClick
  PROVE  LinkInv'
<1> USE DEF LinkInv
<1> DEFINE row == InLinks!RowAt(pointer)
<1>1. /\ pointer \in 0 .. 1
      /\ UNCHANGED <<linkText, scrolledBy, custom, pointer, pendingMove, hoveredLink, changed, since>>
      /\ InLinks!GetLinkAt(row, "click")
      /\ IF InLinks!Wait(row) \/ row \in changed \/ Awaited(row) THEN UNCHANGED activated
         ELSE InLinks!Activated(InLinks!LinkAt(linkCache', row), InLinks!RowSeen(pointer))
  BY DEF InLinks!handleClick, InLinks!Outside, InLinks!Screen, LinkTyped, Awaited
<1>2. row = InLinks!RowSeen(pointer) /\ row \in DOMAIN linkText
  BY <1>1, PointedAt
<1> HIDE DEF row
<1>3. /\ DOMAIN linkCache' \subseteq DOMAIN linkText /\ scanned' \subseteq DOMAIN linkText
      /\ scans' \in Seq([row : DOMAIN linkText, who : {"move", "click"}, links : Seq(Names)])
      /\ CacheTrue'
      /\ \/ scans' = scans /\ ~InLinks!Wait(row)
         \/ /\ InLinks!Wait(row)
            /\ \E links : scans' = Append(scans, [row |-> row, who |-> "click", links |-> links])
      /\ ~InLinks!Wait(row) /\ ~Awaited(row) /\ row \notin changed =>
           InLinks!LinkAt(linkCache', row) = There(row)
  BY <1>1, <1>2, LookingUp
<1>4. LinkTyped'
  BY <1>1, <1>3 DEF LinkTyped, InLinks!History
<1>5. activated'.link = activated'.there
  BY <1>1, <1>2, <1>3 DEF InLinks!Activated, There
<1>6. \A i \in DOMAIN scans' : scans'[i].who = "move" => i \in DOMAIN scans /\ scans'[i] = scans[i]
  <2>1. CASE scans' = scans
    BY <2>1
  <2>2. ASSUME NEW links, scans' = Append(scans, [row |-> row, who |-> "click", links |-> links])
        PROVE  \A i \in DOMAIN scans' : scans'[i].who = "move" => i \in DOMAIN scans /\ scans'[i] = scans[i]
    <3> DEFINE scan == [row |-> row, who |-> "click", links |-> links]
    <3>1. scan.who # "move"
      OBVIOUS
    <3>2. /\ DOMAIN scans' = DOMAIN scans \cup {Len(scans) + 1}
          /\ \A i \in DOMAIN scans : scans'[i] = scans[i]
          /\ scans'[Len(scans) + 1] = scan
      BY <2>2, Appended DEF LinkTyped
    <3> HIDE DEF scan
    <3> QED
      BY <3>1, <3>2
  <2> QED
    BY <1>3, <2>1, <2>2
<1>7. \A i \in DOMAIN scans : i \in DOMAIN scans' /\ scans'[i] = scans[i]
  <2>1. ASSUME NEW links, scans' = Append(scans, [row |-> row, who |-> "click", links |-> links])
        PROVE  \A i \in DOMAIN scans : i \in DOMAIN scans' /\ scans'[i] = scans[i]
    BY <2>1, Appended DEF LinkTyped
  <2> QED
    BY <1>3, <2>1
<1>8. MoveAwaited' <=> MoveAwaited
  BY <1>6, <1>7 DEF MoveAwaited
<1>9. \A r : There(r)' = There(r) /\ InLinks!RowSeen(r)' = InLinks!RowSeen(r)
  BY <1>1 DEF There, InLinks!LinkIn, InLinks!RowSeen, InLinks!History
<1>10. PointerTrue'
  BY <1>1, <1>6, <1>8, <1>9 DEF PointerTrue
<1> QED
  BY <1>3, <1>4, <1>5, <1>10

(* An answer may be about a row that has changed since. *)
LEMMA Answering ==
  ASSUME LinkInv, InLinks!answer
  PROVE  LinkInv'
<1> USE DEF LinkInv
<1> DEFINE Scans == [row : DOMAIN linkText, who : {"move", "click"}, links : Seq(Names)]
           Without(i) == [j \in 1 .. Len(scans) - 1 |-> IF j < i THEN scans[j] ELSE scans[j + 1]]
           Seen(n) == InLinks!LinkAt(linkCache', n)
<1>1. PICK i \in DOMAIN scans :
        /\ linkCache' = InLinks!cacheLink(linkCache, scans[i].row, scans[i].links)
        /\ scans' = Without(i)
        /\ changed' = changed \cup
             IF There(scans[i].row) # Seen(scans[i].row) THEN {scans[i].row} ELSE {}
        /\ IF scans[i].who = "move"
           THEN hoveredLink' = Seen(scans[i].row) /\ UNCHANGED activated
           ELSE /\ IF scans[i].row \in changed' THEN UNCHANGED activated
                   ELSE activated' = [link |-> Seen(scans[i].row), there |-> There(scans[i].row)]
                /\ UNCHANGED hoveredLink
        /\ UNCHANGED <<linkText, scrolledBy, custom, scanned, pointer, pendingMove, since>>
  BY DEF InLinks!answer, InLinks!Activated, There
<1> DEFINE s == scans[i]
<1>2. /\ scans \in Seq(Scans) /\ DOMAIN scans = 1 .. Len(scans) /\ Len(scans) \in Nat
      /\ s \in Scans /\ s.row \in DOMAIN linkText /\ i \in 1 .. Len(scans)
  <2>1. scans \in Seq(Scans)
    BY DEF LinkTyped
  <2>2. \A t \in Scans : t.row \in DOMAIN linkText
    OBVIOUS
  <2> HIDE DEF Scans
  <2>3. DOMAIN scans = 1 .. Len(scans) /\ Len(scans) \in Nat /\ \A k \in DOMAIN scans : scans[k] \in Scans
    BY <2>1
  <2> QED
    BY <1>1, <2>1, <2>2, <2>3
<1> HIDE DEF Scans
<1>3. /\ DOMAIN scans' = 1 .. Len(scans) - 1
      /\ \A j \in DOMAIN scans' : j \in Int /\ scans'[j] = IF j < i THEN scans[j] ELSE scans[j + 1]
  BY <1>1
<1>4. scans' \in Seq(Scans)
  <2>1. ASSUME NEW j \in 1 .. Len(scans) - 1
        PROVE  scans'[j] \in Scans
    <3>1. \A k \in DOMAIN scans : scans[k] \in Scans
      BY <1>2
    <3>2. j \in DOMAIN scans /\ j + 1 \in DOMAIN scans
      BY <1>2
    <3> QED
      BY <1>3, <3>1, <3>2
  <2>2. Len(scans) - 1 \in Nat
    BY <1>2
  <2>3. scans' = [j \in 1 .. Len(scans) - 1 |-> scans'[j]]
    BY <1>1, <1>3
  <2> QED
    BY <2>1, <2>2, <2>3
(* The other calls still wait. *)
<1>5. \A j \in DOMAIN scans' : \E k \in DOMAIN scans : scans'[j] = scans[k]
  BY <1>2, <1>3
<1>6. ASSUME NEW k \in DOMAIN scans, k # i
      PROVE  \E j \in DOMAIN scans' : scans'[j] = scans[k]
  <2>1. CASE k < i
    BY <1>2, <1>3, <1>6, <2>1
  <2>2. CASE k > i
    <3>1. k - 1 \in DOMAIN scans' /\ ~(k - 1 < i) /\ k - 1 + 1 = k
      BY <1>2, <1>3, <1>6, <2>2
    <3> QED
      BY <1>3, <3>1
  <2> QED
    BY <1>2, <1>6, <2>1, <2>2
<1>7. /\ DOMAIN linkCache \subseteq DOMAIN linkCache'
      /\ DOMAIN linkCache' \subseteq DOMAIN linkCache \cup {s.row}
      /\ \A n \in DOMAIN linkCache : linkCache'[n] = linkCache[n]
  BY <1>1 DEF InLinks!cacheLink
<1>8. LinkTyped'
  <2>1. DOMAIN linkCache' \subseteq DOMAIN linkText
    BY <1>2, <1>7 DEF LinkTyped
  <2> QED
    BY <1>1, <1>4, <2>1 DEF LinkTyped, InLinks!History, Scans
<1>9. \A n : There(n)' = There(n) /\ InLinks!RowSeen(n)' = InLinks!RowSeen(n)
  BY <1>1 DEF There, InLinks!LinkIn, InLinks!RowSeen, InLinks!History
<1>10. s.row \notin changed' => Seen(s.row) = There(s.row)
  BY <1>1
<1> HIDE DEF s, Without
<1>11. CacheTrue'
  <2> SUFFICES ASSUME NEW n \in DOMAIN linkText \ changed'
               PROVE  /\ n \in DOMAIN linkCache' => linkCache'[n] = There(n)
                      /\ n \in scanned \ DOMAIN linkCache' => Awaited(n)' \/ There(n) = "none"
    BY <1>1, <1>9 DEF CacheTrue
  <2>1. n \notin changed
    BY <1>1
  <2>2. CASE n = s.row
    BY <1>10, <2>2 DEF InLinks!LinkAt
  <2>3. CASE n # s.row
    <3>1. n \in DOMAIN linkCache' => linkCache'[n] = There(n)
      BY <1>7, <2>1, <2>3 DEF CacheTrue
    <3>2. Awaited(n) => Awaited(n)'
      <4> SUFFICES ASSUME NEW k \in DOMAIN scans, scans[k].row = n
                   PROVE  \E j \in DOMAIN scans' : scans'[j].row = n
        BY DEF Awaited
      <4>1. k # i
        BY <2>3 DEF s
      <4> QED
        BY <1>6, <4>1
    <3> QED
      BY <1>7, <2>1, <3>1, <3>2 DEF CacheTrue
  <2> QED
    BY <2>2, <2>3
<1>12. activated'.link = activated'.there
  BY <1>1, <1>10 DEF s
<1>13. PointerTrue'
  <2> SUFFICES ASSUME ~since
               PROVE  /\ \A j \in DOMAIN scans' : scans'[j].who = "move" =>
                           pointer # 2 /\ scans'[j].row = InLinks!RowSeen(pointer)
                      /\ pointer = 2 => hoveredLink' = "none"
                      /\ /\ pointer # 2 /\ ~MoveAwaited' /\ InLinks!RowSeen(pointer) \notin changed'
                         => hoveredLink' = There(InLinks!RowSeen(pointer))
    BY <1>1, <1>9 DEF PointerTrue
  <2>1. /\ \A k \in DOMAIN scans : scans[k].who = "move" =>
             pointer # 2 /\ scans[k].row = InLinks!RowSeen(pointer)
        /\ pointer = 2 => hoveredLink = "none"
        /\ pointer # 2 /\ ~MoveAwaited /\ InLinks!RowSeen(pointer) \notin changed =>
             hoveredLink = There(InLinks!RowSeen(pointer))
    BY DEF PointerTrue
  <2>2. \A j \in DOMAIN scans' : scans'[j].who = "move" =>
          pointer # 2 /\ scans'[j].row = InLinks!RowSeen(pointer)
    BY <1>5, <2>1
  <2>3. CASE s.who = "move"
    <3>1. pointer # 2 /\ s.row = InLinks!RowSeen(pointer) /\ hoveredLink' = Seen(s.row)
      BY <1>1, <2>1, <2>3 DEF s
    <3> QED
      BY <1>10, <2>2, <3>1
  <2>4. CASE s.who # "move"
    <3>1. hoveredLink' = hoveredLink /\ changed \subseteq changed'
      BY <1>1, <2>4 DEF s
    <3>2. MoveAwaited => MoveAwaited'
      <4> SUFFICES ASSUME NEW k \in DOMAIN scans, scans[k].who = "move"
                   PROVE  \E j \in DOMAIN scans' : scans'[j].who = "move"
        BY DEF MoveAwaited
      <4>1. k # i
        BY <2>4 DEF s
      <4> QED
        BY <1>6, <4>1
    <3> QED
      BY <2>1, <2>2, <3>1, <3>2
  <2> QED
    BY <2>3, <2>4
<1> QED
  BY <1>8, <1>11, <1>12, <1>13

LEMMA LinkInvStart == PageInit => LinkInv
<1> SUFFICES ASSUME PageInit
             PROVE  LinkInv
  OBVIOUS
<1> DEFINE Texts == {"plain", "address", "path", "marked", "both"}
<1>1. /\ linkText \in {<<"both", "plain">>, <<"address", "marked">>, <<"path", "both">>}
      /\ scrolledBy = 0 /\ custom = FALSE /\ linkCache = << >> /\ scanned = {} /\ scans = << >>
      /\ pointer = 2 /\ pendingMove = 2 /\ hoveredLink = "none" /\ since = FALSE
      /\ activated = [link |-> "none", there |-> "none"]
  BY DEF PageInit, InLinks!Init, InLinks!Outside, InLinks!Screen
<1>2. linkText \in Seq(Texts) /\ Len(linkText) = 2
  <2>1. \A x \in Texts, y \in Texts : <<x, y>> \in Seq(Texts) /\ Len(<<x, y>>) = 2
    OBVIOUS
  <2> QED
    BY <1>1, <2>1
<1>3. scans \in Seq([row : DOMAIN linkText, who : {"move", "click"}, links : Seq(Names)])
  BY <1>1
<1>4. LinkTyped
  <2>1. DOMAIN linkCache = {} /\ InLinks!History = 0
    BY <1>1, <1>2 DEF InLinks!History, InLinks!Screen
  <2> QED
    <3>1. /\ scrolledBy \in Nat /\ scrolledBy <= InLinks!History
          /\ pointer \in 0 .. 2 /\ pendingMove \in 0 .. 2
      BY <1>1, <2>1
    <3>2. DOMAIN linkCache \subseteq DOMAIN linkText /\ scanned \subseteq DOMAIN linkText
      BY <1>1, <2>1
    <3>3. custom \in BOOLEAN /\ since \in BOOLEAN
      BY <1>1
    <3> QED
      BY <1>2, <1>3, <3>1, <3>2, <3>3 DEF LinkTyped
<1>5. CacheTrue
  BY <1>1 DEF CacheTrue
<1>6. PointerTrue
  BY <1>1 DEF PointerTrue
<1> QED
  BY <1>1, <1>4, <1>5, <1>6 DEF LinkInv

LEMMA LinkInvStep ==
  ASSUME LinkInv, [InLinks!Next]_(InLinks!vars)
  PROVE  LinkInv'
<1> USE DEF LinkInv
<1> DEFINE Texts == {"plain", "address", "path", "marked", "both"}
<1>1. CASE UNCHANGED InLinks!vars
  BY <1>1 DEF InLinks!vars, LinkTyped, CacheTrue, PointerTrue, There, Awaited, MoveAwaited,
    InLinks!History, InLinks!LinkIn, InLinks!RowSeen
(* Output, and a new provider, forget the cache. *)
<1>2. ASSUME linkCache' = << >>, scanned' = {}, changed' = {}, since' = TRUE,
             linkText' \in Seq(Texts), Len(linkText') >= 2, DOMAIN linkText \subseteq DOMAIN linkText',
             scrolledBy' \in Nat, scrolledBy' <= InLinks!History', custom' \in BOOLEAN,
             UNCHANGED <<scans, pointer, pendingMove, activated>>
      PROVE  LinkInv'
  <2>1. scans' \in Seq([row : DOMAIN linkText', who : {"move", "click"}, links : Seq(Names)])
    <3> DEFINE Old == [row : DOMAIN linkText, who : {"move", "click"}, links : Seq(Names)]
               New == [row : DOMAIN linkText', who : {"move", "click"}, links : Seq(Names)]
    <3>1. Old \subseteq New
      BY <1>2
    <3>2. scans \in Seq(Old)
      BY DEF LinkTyped
    <3> HIDE DEF Old, New
    <3>3. scans \in Seq(New)
      BY <3>1, <3>2
    <3> QED
      BY <1>2, <3>3 DEF New
  <2> QED
    BY <1>2, <2>1 DEF LinkTyped, CacheTrue, PointerTrue
<1>3. CASE InLinks!write
  <2>1. /\ linkText \in Seq(Texts) /\ Len(linkText) \in Nat /\ Len(linkText) >= 2
        /\ DOMAIN linkText = 1 .. Len(linkText)
    BY DEF LinkTyped
  <2>2. PICK c \in Texts :
          \/ \E r \in DOMAIN linkText : linkText' = [linkText EXCEPT ![r] = c]
          \/ linkText' = Append(linkText, c)
    BY <1>3, <2>1 DEF InLinks!write, InLinks!Contents, InLinks!History, InLinks!Screen
  <2>3. /\ linkText' \in Seq(Texts) /\ Len(linkText') >= 2
        /\ DOMAIN linkText \subseteq DOMAIN linkText'
    <3>1. ASSUME NEW r \in DOMAIN linkText, linkText' = [linkText EXCEPT ![r] = c]
          PROVE  /\ linkText' \in Seq(Texts) /\ Len(linkText') >= 2
                 /\ DOMAIN linkText \subseteq DOMAIN linkText'
      BY <2>1, <3>1
    <3>2. ASSUME linkText' = Append(linkText, c)
          PROVE  /\ linkText' \in Seq(Texts) /\ Len(linkText') >= 2
                 /\ DOMAIN linkText \subseteq DOMAIN linkText'
      BY <2>1, <3>2
    <3> QED
      BY <2>2, <3>1, <3>2
  <2>4. scrolledBy' = 0 /\ 0 <= InLinks!History'
    BY <1>3, <2>3 DEF InLinks!write, InLinks!History, InLinks!Screen
  <2> QED
    BY <1>2, <1>3, <2>3, <2>4 DEF InLinks!write, InLinks!invalidateCache, LinkTyped
<1>4. CASE InLinks!changeSilently
  <2>1. PICK r \in DOMAIN linkText :
          linkText' = [linkText EXCEPT ![r] = "plain"] /\ changed' = changed \cup {r}
    BY <1>4 DEF InLinks!changeSilently
  <2>2. since' = TRUE /\ UNCHANGED <<scrolledBy, custom, linkCache, scanned, scans, pointer,
                                     pendingMove, activated>>
    BY <1>4 DEF InLinks!changeSilently
  <2>3. /\ linkText' \in Seq(Texts) /\ Len(linkText') = Len(linkText)
        /\ DOMAIN linkText' = DOMAIN linkText
        /\ \A n \in DOMAIN linkText : n # r => linkText'[n] = linkText[n]
    BY <2>1 DEF LinkTyped
  <2>4. LinkTyped'
    BY <2>2, <2>3 DEF LinkTyped, InLinks!History
  <2>5. CacheTrue'
    BY <2>1, <2>2, <2>3 DEF CacheTrue, Awaited, There, InLinks!LinkIn
  <2> QED
    BY <2>2, <2>4, <2>5 DEF PointerTrue
<1>5. CASE InLinks!scrollToLine
  <2>1. /\ scrolledBy' \in 0 .. InLinks!History /\ since' = TRUE
        /\ UNCHANGED <<linkText, custom, linkCache, scanned, scans, pointer, pendingMove,
                       activated, changed>>
    BY <1>5 DEF InLinks!scrollToLine
  <2>2. Len(linkText) \in Nat
    BY DEF LinkTyped
  <2> QED
    BY <2>1, <2>2 DEF LinkTyped, CacheTrue, PointerTrue, There, Awaited, InLinks!LinkIn,
      InLinks!History, InLinks!Screen
<1>6. CASE InLinks!registerLinkProvider
  BY <1>2, <1>6 DEF InLinks!registerLinkProvider, InLinks!invalidateCache, LinkTyped,
    InLinks!History
<1>7. CASE InLinks!handleMouseMove
  <2>1. /\ pointer' \in 0 .. 1
        /\ UNCHANGED <<linkText, scrolledBy, custom, activated, changed>>
    BY <1>7 DEF InLinks!handleMouseMove, InLinks!ViewportRows, InLinks!Screen
  <2>2. CASE throttled
    <3>1. /\ pendingMove' = pointer' /\ since' = TRUE
          /\ UNCHANGED <<linkCache, scanned, scans>>
      BY <1>7, <2>2 DEF InLinks!handleMouseMove
    <3> QED
      BY <2>1, <3>1 DEF LinkTyped, CacheTrue, PointerTrue, There, Awaited, InLinks!LinkIn,
        InLinks!History
  <2>3. CASE ~throttled
    BY <1>7, <2>1, <2>3, Moving, SMTT(30) DEF InLinks!handleMouseMove, LinkTyped
  <2> QED
    BY <2>2, <2>3
<1>8. CASE InLinks!throttleEnds
  <2>1. /\ pendingMove' = 2 /\ pointer' = pointer
        /\ UNCHANGED <<linkText, scrolledBy, custom, activated, changed>>
    BY <1>8 DEF InLinks!throttleEnds, InLinks!Outside, InLinks!Screen
  <2>2. CASE pendingMove # 2
    <3>1. pendingMove \in 0 .. 1 /\ pointer' \in 0 .. 2
      BY <2>1, <2>2 DEF LinkTyped
    <3>2. InLinks!processMouseMove(pendingMove, pointer')
      BY <1>8, <2>1, <2>2 DEF InLinks!throttleEnds, InLinks!Outside, InLinks!Screen
    <3> QED
      BY <2>1, <3>1, <3>2, Moving
  <2>3. CASE pendingMove = 2
    <3>1. UNCHANGED <<linkCache, scanned, scans, hoveredLink, since>>
      BY <1>8, <2>3 DEF InLinks!throttleEnds, InLinks!Outside, InLinks!Screen
    <3> QED
      BY <2>1, <3>1 DEF LinkTyped, CacheTrue, PointerTrue, There, Awaited, MoveAwaited,
        InLinks!History, InLinks!LinkIn, InLinks!RowSeen
  <2> QED
    BY <2>2, <2>3
<1>9. CASE InLinks!handleMouseLeave
  <2>1. /\ pointer' = 2 /\ hoveredLink' = "none" /\ since' \in BOOLEAN
        /\ ~since' => \A i \in DOMAIN scans : scans[i].who # "move"
        /\ UNCHANGED <<linkText, scrolledBy, custom, linkCache, scanned, scans, pendingMove,
                       activated, changed>>
    BY <1>9 DEF InLinks!handleMouseLeave, InLinks!Outside, InLinks!Screen
  <2> QED
    BY <2>1 DEF LinkTyped, CacheTrue, PointerTrue, There, Awaited, InLinks!LinkIn, InLinks!History
<1>10. CASE InLinks!handleClick
  BY <1>10, Clicking
<1>11. CASE InLinks!answer
  BY <1>11, Answering
<1> QED
  BY <1>1, <1>3, <1>4, <1>5, <1>6, <1>7, <1>8, <1>9, <1>10, <1>11 DEF InLinks!Next

LEMMA LinksShown == LinkInv => InLinks!LinksCurrent
<1> SUFFICES ASSUME LinkInv
             PROVE  InLinks!LinksCurrent
  OBVIOUS
<1>1. \A row \in DOMAIN linkCache \ changed : linkCache[row] = InLinks!LinkIn(linkText[row])
  BY DEF LinkInv, LinkTyped, CacheTrue, There
<1>2. ASSUME scans = << >>, ~since
      PROVE  hoveredLink = IF pointer = InLinks!Outside THEN "none" ELSE
                           IF InLinks!RowSeen(pointer) \in changed THEN hoveredLink
                           ELSE InLinks!LinkIn(linkText[InLinks!RowSeen(pointer)])
  BY <1>2 DEF LinkInv, PointerTrue, There, MoveAwaited, InLinks!Outside, InLinks!Screen
<1> QED
  BY <1>1, <1>2 DEF LinkInv, InLinks!LinksCurrent

-----------------------------------------------------------------------------
(* Images *)

FrameTyped ==
  /\ imageScreen \in Framed!Screens /\ epoch \in Nat /\ engines \in Nat
  /\ imageHistory \in Nat /\ imageScrolled \in Nat
  /\ DOMAIN place = Framed!Screens /\ imageContent = [s \in Framed!Screens |-> imageContent[s]]
  /\ \A s \in Framed!Screens :
       /\ DOMAIN place[s] \subseteq DOMAIN imageContent[s]
       /\ \A i \in DOMAIN imageContent[s] :
            /\ imageContent[s][i] \in [generation : Nat, decodes : BOOLEAN]
            /\ imageContent[s][i].generation <= epoch
  /\ lastKey # <<>> =>
       lastKey = <<lastKey[1], lastKey[2]>> /\ lastKey[1] \in Nat /\ lastKey[1] <= epoch

(* The frame that getFrame makes for a view that is scrolled by x. *)
TopAt(x) ==
  IF imageScreen = "primary" /\ imageHistory > x \div 2 THEN imageHistory - x \div 2 ELSE 0
RowThen(i, x) == place[imageScreen][i] - TopAt(x)
RowsThen(x) ==
  [i \in {j \in DOMAIN place[imageScreen] :
            \E r \in Framed!Rows : Framed!Covers(RowThen(j, x), r)} |-> RowThen(i, x)]
KeyAt(x) ==
  <<imageScreen, RowsThen(x), imageContent[imageScreen], place[imageScreen], x>>

(* While there is no epoch since, the frame is of what there is now. *)
FrameTrue ==
  lastKey # <<>> /\ lastKey[1] = epoch => imageFrame.key = KeyAt(lastKey[2])

(* A frame has the placements of its key, with the generations of their images. *)
Listing(rows, of) == [i \in DOMAIN rows |-> [row |-> rows[i], generation |-> of[i].generation]]
FrameSound ==
  imageFrame.key # <<>> =>
    /\ imageFrame.placements = Listing(imageFrame.key[2], imageFrame.key[3])
    /\ imageFrame.screen = imageFrame.key[1] /\ imageFrame.resets = engines
PlacementsSound ==
  /\ DOMAIN placements = DOMAIN placementGeneration
  /\ \A i \in DOMAIN placements :
       placements[i] = [row |-> placementGeneration[i], generation |-> placements[i].generation]

(* The pixels kept for an image, by either side, are its own as long as it has
   the generation that they were kept for. *)
PixelsOf(k, s, i, g) ==
  /\ k = <<s, i, g>> /\ g <= epoch
  /\ imageContent[s][i].generation = g => pixelCache[k] = <<engines, imageContent[s][i]>>
PixelsTrue ==
  \A k \in DOMAIN pixelCache :
    \E s \in Framed!Screens, g \in Nat : \E i \in DOMAIN imageContent[s] : PixelsOf(k, s, i, g)

BitmapOf(i, rs, s, g) ==
  /\ decoded[i].revision = <<rs, <<s, i, g>>>> /\ rs <= engines
  /\ rs = engines =>
       /\ i \in DOMAIN imageContent[s] /\ g <= epoch
       /\ imageContent[s][i].generation = g =>
            imageContent[s][i].decodes /\ decoded[i].of = <<engines, imageContent[s][i]>>
BitmapsTrue ==
  \A i \in DOMAIN decoded :
    \E rs \in Nat, s \in Framed!Screens, g \in Nat : BitmapOf(i, rs, s, g)

(* The canvas shows the last frame; after a reset it is to be drawn anew. *)
Shows(f, r) ==
  {<<i, <<f.resets, f.key[3][i]>>>> :
     i \in {j \in DOMAIN f.placements :
              Framed!Covers(f.placements[j].row, r) /\ f.key[3][j].decodes}}
CanvasTrue ==
  IF imageFrame.key = <<>>
  THEN imageFrame.placements = [i \in {} |-> {}]
         /\ (Framed!Rows \subseteq imageDirty \/ \A r \in Framed!Rows : imageCanvas[r] = {})
  ELSE \A r \in Framed!Rows : imageCanvas[r] = Shows(imageFrame, r)

FrameInv ==
  /\ FrameTyped /\ FrameTrue /\ FrameSound /\ PlacementsSound
  /\ PixelsTrue /\ BitmapsTrue /\ CanvasTrue

LEMMA FrameInvStart == PageInit => FrameInv
<1> SUFFICES ASSUME PageInit
             PROVE  FrameInv
  OBVIOUS
<1>1. /\ imageScreen = "primary" /\ epoch = 0 /\ engines = 0
      /\ place = [s \in Framed!Screens |-> Framed!Empty]
      /\ imageContent = [s \in Framed!Screens |-> Framed!Empty]
      /\ imageHistory = 0 /\ imageScrolled = 0
      /\ lastKey = <<>> /\ placementGeneration = Framed!Empty /\ placements = Framed!Empty
      /\ imageFrame = Framed!NoFrame /\ pixelCache = Framed!Empty
      /\ decoded = Framed!Empty /\ imageCanvas = [r \in Framed!Rows |-> {}]
  BY DEF PageInit, Framed!Init
<1>2. DOMAIN Framed!Empty = {} /\ imageFrame.key = <<>> /\ imageFrame.placements = [i \in {} |-> {}]
  BY <1>1 DEF Framed!Empty, Framed!NoFrame
<1>3. FrameTyped
  BY <1>1, <1>2 DEF FrameTyped, Framed!Screens
<1>4. FrameTrue
  BY <1>1 DEF FrameTrue
<1>5. FrameSound /\ PlacementsSound /\ PixelsTrue /\ BitmapsTrue /\ CanvasTrue
  BY <1>1, <1>2 DEF FrameSound, PlacementsSound, PixelsTrue, BitmapsTrue, CanvasTrue
<1> QED
  BY <1>3, <1>4, <1>5 DEF FrameInv

(* Images are only added, or change with the epoch. *)
Newer ==
  /\ epoch' \in Nat /\ epoch' >= epoch /\ engines' = engines
  /\ \A s \in Framed!Screens :
       /\ DOMAIN imageContent[s] \subseteq DOMAIN imageContent'[s]
       /\ \A i \in DOMAIN imageContent[s] :
            \/ imageContent'[s][i] = imageContent[s][i]
            \/ imageContent'[s][i].generation > epoch

(* What is kept of images stays true when some of them change. *)
LEMMA PixelsStay ==
  ASSUME FrameTyped, Newer, NEW k \in DOMAIN pixelCache,
         NEW s \in Framed!Screens, NEW g \in Nat, NEW i \in DOMAIN imageContent[s], PixelsOf(k, s, i, g)
  PROVE  /\ k = <<s, i, g>> /\ i \in DOMAIN imageContent'[s] /\ g <= epoch'
         /\ imageContent'[s][i].generation = g => pixelCache[k] = <<engines, imageContent'[s][i]>>
<1>1. i \in DOMAIN imageContent'[s] /\ g <= epoch'
  BY DEF PixelsOf, FrameTyped, Newer
<1>2. imageContent'[s][i].generation = g => imageContent'[s][i] = imageContent[s][i]
  BY DEF PixelsOf, FrameTyped, Newer
<1> QED
  BY <1>1, <1>2 DEF PixelsOf

LEMMA BitmapStays ==
  ASSUME FrameTyped, Newer, NEW i \in DOMAIN decoded,
         NEW rs \in Nat, NEW s \in Framed!Screens, NEW g \in Nat, BitmapOf(i, rs, s, g)
  PROVE  /\ decoded[i].revision = <<rs, <<s, i, g>>>> /\ rs <= engines
         /\ rs = engines =>
              /\ i \in DOMAIN imageContent'[s] /\ g <= epoch'
              /\ imageContent'[s][i].generation = g =>
                   imageContent'[s][i].decodes /\ decoded[i].of = <<engines, imageContent'[s][i]>>
<1>1. rs = engines => i \in DOMAIN imageContent'[s] /\ g <= epoch'
  BY DEF BitmapOf, FrameTyped, Newer
<1>2. rs = engines /\ imageContent'[s][i].generation = g =>
        imageContent'[s][i] = imageContent[s][i]
  BY DEF BitmapOf, FrameTyped, Newer
<1> QED
  BY <1>1, <1>2 DEF BitmapOf

(* A write: whatever it does to the images, the frame is not of this epoch. *)
LEMMA Written ==
  ASSUME FrameInv, Framed!write, FrameTyped', Newer
  PROVE  FrameInv'
<1> USE DEF FrameInv
<1>1. /\ epoch' = epoch + 1 /\ engines' = engines
      /\ UNCHANGED <<lastKey, placementGeneration, placements, imageFrame, pixelCache,
                     painted, decoded, imageCanvas>>
      /\ imageDirty \subseteq imageDirty'
  BY DEF Framed!write, Framed!Marks, Framed!cached, Framed!drawn
<1>2. FrameTrue'
  BY <1>1 DEF FrameTrue, FrameTyped
<1>3. FrameSound' /\ PlacementsSound' /\ CanvasTrue'
  BY <1>1 DEF FrameSound, PlacementsSound, CanvasTrue, Shows
<1>4. PixelsTrue'
  <2>1. ASSUME NEW k \in DOMAIN pixelCache
        PROVE  \E s \in Framed!Screens, g \in Nat :
                 \E i \in DOMAIN imageContent'[s] : PixelsOf(k, s, i, g)'
    <3>1. PICK s \in Framed!Screens, g \in Nat : 
                 \E i \in DOMAIN imageContent[s] : PixelsOf(k, s, i, g)
      BY DEF PixelsTrue
    <3>2. PICK i \in DOMAIN imageContent[s] : PixelsOf(k, s, i, g)
      BY <3>1
    <3>3. i \in DOMAIN imageContent'[s] /\ PixelsOf(k, s, i, g)'
      BY <1>1, <3>2, PixelsStay DEF PixelsOf
    <3> QED
      BY <3>3
  <2> QED
    BY <1>1, <2>1 DEF PixelsTrue
<1>5. BitmapsTrue'
  <2>1. ASSUME NEW i \in DOMAIN decoded
        PROVE  \E rs \in Nat, s \in Framed!Screens, g \in Nat : BitmapOf(i, rs, s, g)'
    <3>1. PICK rs \in Nat, s \in Framed!Screens, g \in Nat : BitmapOf(i, rs, s, g)
      BY DEF BitmapsTrue
    <3>2. BitmapOf(i, rs, s, g)'
      BY <1>1, <3>1, BitmapStays DEF BitmapOf
    <3> QED
      BY <3>2
  <2> QED
    BY <1>1, <2>1 DEF BitmapsTrue
<1> QED
  BY <1>2, <1>3, <1>4, <1>5

LEMMA Editing ==
  ASSUME FrameInv,
         \/ \E i \in Pictures : Framed!Transmit(i) \/ Framed!Delete(i)
                                  \/ \E r \in Framed!Rows : Framed!Place(i, r)
         \/ Framed!AddLine \/ Framed!SwitchScreen
  PROVE  FrameInv'
<1> USE DEF FrameInv
<1>w. Framed!write
  BY DEF Framed!Transmit, Framed!Delete, Framed!Place, Framed!AddLine, Framed!SwitchScreen
<1>1. Framed!write /\ epoch' = epoch + 1 /\ epoch' \in Nat /\ engines' = engines
        /\ lastKey' = lastKey /\ imageScrolled' = 0
  BY <1>w DEF FrameTyped, Framed!write, Framed!cached
<1>t. /\ imageScreen \in Framed!Screens /\ DOMAIN place = Framed!Screens
      /\ DOMAIN imageContent = Framed!Screens
  BY DEF FrameTyped
<1>2. ASSUME NEW i \in Pictures, Framed!Transmit(i)
      PROVE  FrameTyped' /\ Newer
  <2>1. PICK d \in BOOLEAN : imageContent' =
          [imageContent EXCEPT ![imageScreen] =
             Framed!With(@, i, [generation |-> epoch + 1, decodes |-> d])]
    BY <1>2 DEF Framed!Transmit
  <2>2. UNCHANGED <<imageScreen, place, imageHistory>>
    BY <1>2 DEF Framed!Transmit
  <2> DEFINE new == [generation |-> epoch + 1, decodes |-> d]
  <2>3. new \in [generation : Nat, decodes : BOOLEAN] /\ new.generation = epoch + 1
    BY DEF FrameTyped
  <2> HIDE DEF new
  <2>4. ASSUME NEW s \in Framed!Screens
        PROVE  /\ DOMAIN imageContent[s] \subseteq DOMAIN imageContent'[s]
               /\ \A j \in DOMAIN imageContent'[s] :
                    \/ j \in DOMAIN imageContent[s] /\ imageContent'[s][j] = imageContent[s][j]
                    \/ imageContent'[s][j] = new
    <3>1. CASE s = imageScreen
      <4>1. imageContent'[s] = Framed!With(imageContent[s], i, new)
        BY <1>t, <2>1, <3>1 DEF new
      <4> QED
        BY <4>1 DEF Framed!With
    <3>2. CASE s # imageScreen
      BY <1>t, <2>1, <3>2
    <3> QED
      BY <3>1, <3>2
  <2>5. imageContent' = [s \in Framed!Screens |-> imageContent'[s]]
    BY <1>t, <2>1 DEF FrameTyped
  <2>6. Newer
    BY <1>1, <2>3, <2>4 DEF Newer, FrameTyped
  <2> QED
    BY <1>1, <2>2, <2>3, <2>4, <2>5, <2>6 DEF FrameTyped
<1>3. ASSUME imageContent' = imageContent, imageScreen' \in Framed!Screens, imageHistory' \in Nat,
             DOMAIN place' = Framed!Screens,
             \A s \in Framed!Screens : DOMAIN place'[s] \subseteq DOMAIN imageContent[s]
      PROVE  FrameTyped' /\ Newer
  <2>1. Newer
    BY <1>1, <1>3 DEF Newer, FrameTyped
  <2>2. lastKey # <<>> => lastKey = <<lastKey[1], lastKey[2]>> /\ lastKey[1] \in Nat
                            /\ lastKey[1] <= epoch'
    BY <1>1 DEF FrameTyped
  <2>3. \A s \in Framed!Screens : \A i \in DOMAIN imageContent[s] :
          /\ imageContent[s][i] \in [generation : Nat, decodes : BOOLEAN]
          /\ imageContent[s][i].generation <= epoch'
    BY <1>1 DEF FrameTyped
  <2> QED
    BY <1>1, <1>3, <2>1, <2>2, <2>3 DEF FrameTyped
<1>4. ASSUME NEW i \in Pictures, Framed!Delete(i)
      PROVE  FrameTyped' /\ Newer
  <2>1. /\ place' = [place EXCEPT ![imageScreen] = Framed!Without(@, {i})]
        /\ UNCHANGED <<imageScreen, imageContent, imageHistory>>
    BY <1>4 DEF Framed!Delete
  <2>2. \A s \in Framed!Screens : DOMAIN place'[s] \subseteq DOMAIN imageContent[s]
    BY <1>t, <2>1 DEF FrameTyped, Framed!Without
  <2>3. DOMAIN place' = Framed!Screens
    BY <1>t, <2>1
  <2> QED
    BY <1>3, <1>t, <2>1, <2>2, <2>3 DEF FrameTyped
<1>5. ASSUME NEW i \in Pictures, NEW r \in Framed!Rows, Framed!Place(i, r)
      PROVE  FrameTyped' /\ Newer
  <2>1. /\ UNCHANGED <<imageScreen, imageContent, imageHistory>>
        /\ i \in DOMAIN imageContent[imageScreen]
    BY <1>5 DEF Framed!Place
  <2>2. PICK l : place' = [place EXCEPT ![imageScreen] = Framed!With(@, i, l)]
    BY <1>5 DEF Framed!Place
  <2>3. \A s \in Framed!Screens : DOMAIN place'[s] \subseteq DOMAIN imageContent[s]
    BY <1>t, <2>1, <2>2 DEF FrameTyped, Framed!With
  <2>4. DOMAIN place' = Framed!Screens
    BY <1>t, <2>2
  <2> QED
    BY <1>3, <1>t, <2>1, <2>3, <2>4 DEF FrameTyped
<1>6. ASSUME Framed!AddLine \/ Framed!SwitchScreen
      PROVE  FrameTyped' /\ Newer
  BY <1>1, <1>3, <1>6 DEF FrameTyped, Framed!AddLine, Framed!SwitchScreen
<1> QED
  BY <1>1, <1>2, <1>4, <1>5, <1>6, Written

LEMMA ResetOrScroll ==
  ASSUME FrameInv, Framed!Reset \/ Framed!Scroll
  PROVE  FrameInv'
<1> USE DEF FrameInv
<1>1. ASSUME Framed!Scroll
      PROVE  FrameInv'
  <2>1. /\ UNCHANGED <<imageScreen, place, imageContent, imageHistory, imageDirty, engines, epoch,
                       lastKey, placementGeneration, placements, imageFrame, pixelCache,
                       painted, decoded, imageCanvas>>
        /\ imageScrolled' \in Nat
    BY <1>1 DEF Framed!Scroll, FrameTyped, Framed!engine, Framed!cached, Framed!drawn
  <2>2. FrameTyped'
    BY <2>1 DEF FrameTyped
  <2>3. FrameTrue' /\ FrameSound' /\ PlacementsSound'
    BY <2>1 DEF FrameTrue, KeyAt, RowsThen, RowThen, TopAt, FrameSound, PlacementsSound
  <2>4. PixelsTrue' /\ BitmapsTrue' /\ CanvasTrue'
    BY <2>1 DEF PixelsTrue, PixelsOf, BitmapsTrue, BitmapOf, CanvasTrue, Shows
  <2> QED
    BY <2>2, <2>3, <2>4
<1>2. ASSUME Framed!Reset
      PROVE  FrameInv'
  <2>1. /\ engines' = engines + 1 /\ imageScreen' = "primary" /\ imageHistory' = 0
        /\ imageDirty' = Framed!Rows /\ epoch' = 0
        /\ place' = [s \in Framed!Screens |-> Framed!Empty]
        /\ imageContent' = [s \in Framed!Screens |-> Framed!Empty]
        /\ lastKey' = <<>> /\ placementGeneration' = Framed!Empty
        /\ placements' = Framed!Empty /\ imageFrame' = Framed!NoFrame
        /\ pixelCache' = Framed!Empty
        /\ UNCHANGED <<imageScrolled, decoded, imageCanvas>>
    BY <1>2 DEF Framed!Reset, Framed!drawn
  <2>2. DOMAIN Framed!Empty = {} /\ Framed!NoFrame.key = <<>>
          /\ Framed!NoFrame.placements = [i \in {} |-> {}]
    BY DEF Framed!Empty, Framed!NoFrame
  <2>3. FrameTyped'
    BY <2>1, <2>2 DEF FrameTyped, Framed!Screens
  <2>4. FrameTrue' /\ FrameSound' /\ PlacementsSound' /\ PixelsTrue' /\ CanvasTrue'
    BY <2>1, <2>2 DEF FrameTrue, FrameSound, PlacementsSound, PixelsTrue, CanvasTrue
  <2>5. BitmapsTrue'
    BY <2>1 DEF BitmapsTrue, BitmapOf, FrameTyped
  <2> QED
    BY <2>3, <2>4, <2>5
<1> QED
  BY <1>1, <1>2

LEMMA RowsOfNow ==
  /\ RowsThen(imageScrolled) = Framed!Generation
  /\ DOMAIN Framed!Generation = Framed!InView
  /\ \A i \in Framed!InView : Framed!Generation[i] = Framed!RowOf(i)
<1>1. TopAt(imageScrolled) = Framed!Top(imageScreen)
  BY DEF TopAt, Framed!Top, Framed!Above
<1>2. \A i : RowThen(i, imageScrolled) = Framed!RowOf(i)
  BY <1>1 DEF RowThen, Framed!RowOf
<1> QED
  BY <1>2 DEF RowsThen, Framed!Generation, Framed!InView

(* Whichever way getFrame takes, the frame that it hands out is of what there is. *)
LEMMA Framing ==
  ASSUME FrameInv, Framed!getFrame, epoch' \in Nat, epoch' >= epoch,
         imageContent' = imageContent \/ epoch' > epoch
  PROVE  /\ lastKey' = Framed!Key
         /\ imageFrame'.key = Framed!FrameKey
         /\ imageFrame'.placements = Listing(Framed!Generation, imageContent'[imageScreen])
         /\ imageFrame'.screen = imageScreen /\ imageFrame'.resets = engines
         /\ PlacementsSound'
<1> USE DEF FrameInv
<1> DEFINE c == imageContent'[imageScreen]
<1>0. Framed!FrameKey = <<imageScreen, Framed!Generation, c, place[imageScreen], imageScrolled>>
        /\ Framed!FrameKey # <<>>
  BY DEF Framed!FrameKey
<1>1. CASE lastKey = Framed!Key /\ UNCHANGED <<lastKey, placementGeneration, placements, imageFrame>>
  <2>1. lastKey # <<>> /\ lastKey[1] = epoch' /\ lastKey[2] = imageScrolled
    BY <1>1 DEF Framed!Key
  <2>2. epoch' = epoch /\ imageContent' = imageContent
    BY <2>1 DEF FrameTyped
  <2>3. imageFrame.key = KeyAt(imageScrolled)
    BY <2>1, <2>2 DEF FrameTrue
  <2>4. imageFrame.key = Framed!FrameKey
    BY <2>2, <2>3, <1>0, RowsOfNow DEF KeyAt
  <2> QED
    BY <1>0, <1>1, <2>2, <2>4 DEF FrameSound, PlacementsSound
<1>2. CASE lastKey # Framed!Key /\ lastKey' = Framed!Key
             /\ Framed!ReadPlacements /\ Framed!MakeFrame
  <2>1. /\ DOMAIN Framed!Listed = Framed!InView
        /\ \A i \in Framed!InView : \E g : Framed!Listed[i] = [row |-> Framed!Generation[i], generation |-> g]
    <3>1. CASE Framed!Generation = placementGeneration
      BY <3>1, RowsOfNow DEF Framed!Listed, PlacementsSound
    <3>2. CASE Framed!Generation # placementGeneration
      BY <3>2, RowsOfNow DEF Framed!Listed, Framed!Read
    <3> QED
      BY <3>1, <3>2
  <2>2. placementGeneration' = Framed!Generation
          /\ placements' = [i \in DOMAIN Framed!Listed |->
                              [Framed!Listed[i] EXCEPT !.generation = c[i].generation]]
    BY <1>2 DEF Framed!ReadPlacements
  <2>3. \A i \in Framed!InView :
          [Framed!Listed[i] EXCEPT !.generation = c[i].generation]
            = [row |-> Framed!Generation[i], generation |-> c[i].generation]
    BY <2>1
  <2>4. placements' = Listing(Framed!Generation, c)
    BY <2>1, <2>2, <2>3, RowsOfNow DEF Listing
  <2>5. PlacementsSound'
    BY <2>2, <2>4 DEF PlacementsSound, Listing
  <2>6. CASE imageFrame.key = Framed!FrameKey
    <3>1. imageFrame' = imageFrame
      BY <1>2, <2>6 DEF Framed!MakeFrame
    <3> QED
      BY <1>0, <1>2, <2>5, <2>6, <3>1 DEF FrameSound
  <2>7. CASE imageFrame.key # Framed!FrameKey
    <3>1. imageFrame' = [key |-> Framed!FrameKey, resets |-> engines, screen |-> imageScreen,
                         placements |-> placements']
      BY <1>2, <2>7 DEF Framed!MakeFrame
    <3> QED
      BY <1>2, <2>4, <2>5, <3>1
  <2> QED
    BY <2>6, <2>7
<1> QED
  BY <1>1, <1>2 DEF Framed!getFrame

(* The frame that a render works with. *)
FrameOfNow ==
  /\ imageFrame'.key = Framed!FrameKey
  /\ imageFrame'.placements = Listing(Framed!Generation, imageContent'[imageScreen])
  /\ imageFrame'.screen = imageScreen /\ imageFrame'.resets = engines
  /\ \A i \in Framed!InView :
       /\ i \in DOMAIN imageContent'[imageScreen]
       /\ imageContent'[imageScreen][i].generation \in Nat
       /\ imageContent'[imageScreen][i].generation <= epoch'

LEMMA Placed ==
  ASSUME FrameOfNow
  PROVE  /\ DOMAIN imageFrame'.placements = Framed!InView
         /\ \A i \in Framed!InView :
              /\ imageFrame'.placements[i].row = Framed!RowOf(i)
              /\ Framed!PixelKey(i) =
                   <<imageScreen, i, imageContent'[imageScreen][i].generation>>
<1>1. DOMAIN imageFrame'.placements = Framed!InView
  BY RowsOfNow DEF FrameOfNow, Listing
<1>2. \A i \in Framed!InView :
        imageFrame'.placements[i] =
          [row |-> Framed!RowOf(i), generation |-> imageContent'[imageScreen][i].generation]
  BY RowsOfNow DEF FrameOfNow, Listing
<1>3. ASSUME NEW i \in Framed!InView
      PROVE  /\ imageFrame'.placements[i].row = Framed!RowOf(i)
             /\ imageFrame'.placements[i].generation = imageContent'[imageScreen][i].generation
  <2> DEFINE g == imageContent'[imageScreen][i].generation
             p == imageFrame'.placements[i]
  <2>1. p = [row |-> Framed!RowOf(i), generation |-> g]
    BY <1>2
  <2> HIDE DEF g, p
  <2>2. p.row = Framed!RowOf(i) /\ p.generation = g
    BY <2>1
  <2> QED
    BY <2>2 DEF g, p
<1>4. imageFrame'.screen = imageScreen
  BY DEF FrameOfNow
<1> QED
  BY <1>1, <1>3, <1>4 DEF Framed!PixelKey

(* Pixels that are kept are those that the engine would hand out. *)
LEMMA PixelsOfNow ==
  ASSUME FrameInv, Newer, FrameOfNow, NEW i \in Framed!InView
  PROVE  Framed!pixels(i) = [revision |-> Framed!Revision(i), of |-> Framed!Looks(i)]
<1> DEFINE g == imageContent'[imageScreen][i].generation
           k == Framed!PixelKey(i)
<1>1. k = <<imageScreen, i, g>>
  BY Placed
<1>2. DOMAIN Framed!Kept \subseteq DOMAIN pixelCache
        /\ \A x \in DOMAIN Framed!Kept : Framed!Kept[x] = pixelCache[x]
  BY DEF Framed!Kept, Framed!Without
<1>3. ASSUME k \in DOMAIN pixelCache
      PROVE  pixelCache[k] = <<engines, imageContent'[imageScreen][i]>>
  <2>1. PICK s \in Framed!Screens, h \in Nat : \E j \in DOMAIN imageContent[s] : PixelsOf(k, s, j, h)
    BY <1>3 DEF FrameInv, PixelsTrue
  <2>2. PICK j \in DOMAIN imageContent[s] : PixelsOf(k, s, j, h)
    BY <2>1
  <2>3. k = <<s, j, h>>
         /\ (imageContent'[s][j].generation = h => pixelCache[k] = <<engines, imageContent'[s][j]>>)
    BY <1>3, <2>2, PixelsStay DEF FrameInv
  <2>4. s = imageScreen /\ j = i /\ h = g
    BY <1>1, <2>3
  <2> QED
    BY <2>3, <2>4
<1> QED
  BY <1>2, <1>3 DEF Framed!pixels, Framed!Looks

LEMMA BitmapOfNow ==
  ASSUME FrameInv, Newer, FrameOfNow, NEW i \in Framed!InView
  PROVE  /\ imageContent'[imageScreen][i].decodes <=> Framed!Bitmap(i) # {}
         /\ \A b \in Framed!Bitmap(i) :
              /\ b.revision = <<engines, <<imageScreen, i, imageContent'[imageScreen][i].generation>>>>
              /\ b.of = <<engines, imageContent'[imageScreen][i]>>
<1> DEFINE c == imageContent'[imageScreen][i]
<1>1. Framed!Revision(i) = <<engines, <<imageScreen, i, c.generation>>>>
        /\ Framed!Looks(i) = <<engines, c>>
  BY Placed DEF Framed!Revision, Framed!Looks
<1>2. Framed!pixels(i).revision = Framed!Revision(i) /\ Framed!pixels(i).of = <<engines, c>>
  BY <1>1, PixelsOfNow
<1>3. CASE Framed!SamePixels(i)
  <2>1. /\ i \in DOMAIN decoded /\ decoded[i].revision = <<engines, <<imageScreen, i, c.generation>>>>
        /\ Framed!Bitmap(i) = {decoded[i]}
    BY <1>1, <1>2, <1>3 DEF Framed!SamePixels, Framed!Bitmap
  <2>2. PICK rs \in Nat, s \in Framed!Screens, g \in Nat : BitmapOf(i, rs, s, g)
    BY <2>1 DEF FrameInv, BitmapsTrue
  <2>3. rs = engines /\ s = imageScreen /\ g = c.generation
    BY <2>1, <2>2 DEF BitmapOf
  <2>4. c.decodes /\ decoded[i].of = <<engines, c>>
    BY <2>1, <2>2, <2>3, BitmapStays DEF FrameInv
  <2> QED
    BY <2>1, <2>4
<1>4. CASE ~Framed!SamePixels(i)
  <2>1. Framed!Bitmap(i) = IF c.decodes THEN {Framed!pixels(i)} ELSE {}
    BY <1>2, <1>4 DEF Framed!Bitmap, Framed!decodeKittyImageToCanvas
  <2> QED
    BY <1>1, <1>2, <2>1
<1> QED
  BY <1>3, <1>4

(* What a render comes to draw. *)
LEMMA Drawing ==
  ASSUME FrameInv, Newer, FrameOfNow, NEW rows, Framed!Draw(rows)
  PROVE  /\ \A r \in Framed!Rows :
              imageCanvas'[r] = IF r \in rows THEN Shows(imageFrame, r)' ELSE imageCanvas[r]
         /\ \A i \in DOMAIN decoded' :
              \/ i \in DOMAIN decoded /\ decoded'[i] = decoded[i]
              \/ i \in Framed!InView /\ decoded'[i] \in Framed!Bitmap(i)
         /\ \A k \in DOMAIN pixelCache' :
              \/ k \in DOMAIN pixelCache /\ pixelCache'[k] = pixelCache[k]
              \/ \E i \in Framed!InView :
                   k = Framed!PixelKey(i) /\ pixelCache'[k] = Framed!Looks(k[2])
<1> DEFINE c == imageContent'[imageScreen]
           due == Framed!Asked(rows)
           bitmaps == {i \in due : Framed!Bitmap(i) # {}}
           At(r) == {i \in due : Framed!Covers(imageFrame'.placements[i].row, r)}
<1>1. due \subseteq Framed!InView
  BY Placed DEF Framed!Asked
<1>2. \A r \in Framed!Rows :
        imageCanvas'[r] = IF r \in rows
                          THEN UNION {{<<i, b.of>> : b \in Framed!Bitmap(i)} : i \in At(r)}
                          ELSE imageCanvas[r]
  BY DEF Framed!Draw
<1>3. ASSUME NEW r \in Framed!Rows, r \in rows
      PROVE  imageCanvas'[r] = Shows(imageFrame, r)'
  <2>1. imageCanvas'[r] = UNION {{<<i, b.of>> : b \in Framed!Bitmap(i)} : i \in At(r)}
    BY <1>2, <1>3
  <2>2. At(r) = {i \in Framed!InView : Framed!Covers(imageFrame'.placements[i].row, r)}
    BY <1>3, Placed DEF Framed!Asked
  <2>3. Shows(imageFrame, r)' = {<<i, <<engines, c[i]>>>> : i \in {j \in At(r) : c[j].decodes}}
    <3>1. imageFrame'.key[3] = c /\ imageFrame'.resets = engines
            /\ DOMAIN imageFrame'.placements = Framed!InView
      BY Placed DEF FrameOfNow, Framed!FrameKey
    <3> QED
      BY <2>2, <3>1 DEF Shows
  <2>4. \A i \in At(r) : {<<i, b.of>> : b \in Framed!Bitmap(i)} =
                           IF c[i].decodes THEN {<<i, <<engines, c[i]>>>>} ELSE {}
    BY <1>1, BitmapOfNow
  <2> HIDE DEF At, c
  <2>5. UNION {{<<i, b.of>> : b \in Framed!Bitmap(i)} : i \in At(r)}
          = UNION {IF c[i].decodes THEN {<<i, <<engines, c[i]>>>>} ELSE {} : i \in At(r)}
    BY <2>4
  <2> QED
    BY <2>1, <2>3, <2>5
<1>4. ASSUME NEW i \in DOMAIN decoded'
      PROVE  \/ i \in DOMAIN decoded /\ decoded'[i] = decoded[i]
             \/ i \in Framed!InView /\ decoded'[i] \in Framed!Bitmap(i)
  <2>1. decoded' = [j \in (DOMAIN decoded \cap DOMAIN imageFrame'.placements) \cup bitmaps |->
          IF j \in bitmaps THEN CHOOSE b \in Framed!Bitmap(j) : TRUE ELSE decoded[j]]
    BY DEF Framed!Draw
  <2>2. i \in bitmaps => (CHOOSE b \in Framed!Bitmap(i) : TRUE) \in Framed!Bitmap(i)
    OBVIOUS
  <2> QED
    BY <1>1, <1>4, <2>1, <2>2
<1>5. ASSUME NEW k \in DOMAIN pixelCache'
      PROVE  \/ k \in DOMAIN pixelCache /\ pixelCache'[k] = pixelCache[k]
             \/ \E i \in Framed!InView :
                  k = Framed!PixelKey(i) /\ pixelCache'[k] = Framed!Looks(k[2])
  <2>1. pixelCache' = [x \in DOMAIN Framed!Kept \cup {Framed!PixelKey(i) : i \in due} |->
          IF x \in DOMAIN Framed!Kept THEN Framed!Kept[x] ELSE Framed!Looks(x[2])]
    BY DEF Framed!Draw
  <2>2. DOMAIN Framed!Kept \subseteq DOMAIN pixelCache
          /\ \A x \in DOMAIN Framed!Kept : Framed!Kept[x] = pixelCache[x]
    BY DEF Framed!Kept, Framed!Without
  <2> QED
    BY <1>1, <1>5, <2>1, <2>2
<1> QED
  BY <1>2, <1>3, <1>4, <1>5

LEMMA FrameRendered ==
  ASSUME FrameInv, FrameTyped', Newer, Framed!Render,
         imageContent' = imageContent \/ epoch' > epoch
  PROVE  FrameInv'
<1> USE DEF FrameInv
<1>1. /\ UNCHANGED <<imageScreen, place, imageHistory, engines, imageScrolled>>
      /\ Framed!getFrame /\ epoch' \in Nat /\ epoch' >= epoch
  BY DEF Framed!Render, Newer
<1>2. /\ lastKey' = Framed!Key /\ PlacementsSound'
      /\ imageFrame'.key = Framed!FrameKey
      /\ imageFrame'.placements = Listing(Framed!Generation, imageContent'[imageScreen])
      /\ imageFrame'.screen = imageScreen /\ imageFrame'.resets = engines
  BY <1>1, Framing
<1>3. FrameOfNow
  BY <1>1, <1>2 DEF FrameOfNow, FrameTyped, Framed!InView
<1>4. Framed!FrameKey # <<>> /\ Framed!FrameKey[1] = imageScreen
        /\ Framed!FrameKey[2] = Framed!Generation /\ Framed!FrameKey[3] = imageContent'[imageScreen]
        /\ DOMAIN imageFrame'.placements = Framed!InView
  BY <1>3, Placed DEF Framed!FrameKey
<1>5. FrameTrue'
  <2>1. lastKey'[2] = imageScrolled
    BY <1>2 DEF Framed!Key
  <2>2. RowsThen(imageScrolled)' = RowsThen(imageScrolled)
    BY <1>1 DEF RowsThen, RowThen, TopAt
  <2>3. KeyAt(imageScrolled)' = Framed!FrameKey
    BY <1>1, <2>2, RowsOfNow DEF KeyAt, Framed!FrameKey
  <2> QED
    BY <1>1, <1>2, <2>1, <2>3 DEF FrameTrue
<1>6. FrameSound'
  BY <1>1, <1>2, <1>4 DEF FrameSound
<1>7. \/ \E rows : Framed!Draw(rows) /\ rows = Framed!Drawn
      \/ ~Framed!Wanted /\ pixelCache' = Framed!Kept
           /\ UNCHANGED <<painted, decoded, imageCanvas, imageDirty>>
  BY DEF Framed!Render, Framed!drawn
<1>8. PixelsTrue'
  <2>1. ASSUME NEW k \in DOMAIN pixelCache', k \in DOMAIN pixelCache, pixelCache'[k] = pixelCache[k]
        PROVE  \E s \in Framed!Screens, g \in Nat :
                 \E i \in DOMAIN imageContent'[s] : PixelsOf(k, s, i, g)'
    <3>1. PICK s \in Framed!Screens, g \in Nat :
                 \E i \in DOMAIN imageContent[s] : PixelsOf(k, s, i, g)
      BY <2>1 DEF PixelsTrue
    <3>2. PICK i \in DOMAIN imageContent[s] : PixelsOf(k, s, i, g)
      BY <3>1
    <3>3. i \in DOMAIN imageContent'[s] /\ PixelsOf(k, s, i, g)'
      BY <1>1, <2>1, <3>2, PixelsStay DEF PixelsOf
    <3> QED
      BY <3>3
  <2>2. ASSUME NEW k \in DOMAIN pixelCache', NEW i \in Framed!InView,
               k = Framed!PixelKey(i), pixelCache'[k] = Framed!Looks(k[2])
        PROVE  \E s \in Framed!Screens, g \in Nat :
                 \E j \in DOMAIN imageContent'[s] : PixelsOf(k, s, j, g)'
    <3>1. PICK s \in Framed!Screens, g \in Nat :
            s = imageScreen /\ g = imageContent'[imageScreen][i].generation
      BY <1>3 DEF FrameOfNow, FrameTyped
    <3>2. k = <<s, i, g>>
      BY <1>3, <2>2, <3>1, Placed
    <3>3. pixelCache'[k] = <<engines, imageContent'[s][i]>>
      BY <2>2, <3>1, <3>2 DEF Framed!Looks
    <3>4. g <= epoch' /\ i \in DOMAIN imageContent'[s]
      BY <1>3, <3>1 DEF FrameOfNow
    <3>5. PixelsOf(k, s, i, g)'
      BY <1>1, <3>2, <3>3, <3>4 DEF PixelsOf
    <3> QED
      BY <3>4, <3>5
  <2>3. CASE \E rows : Framed!Draw(rows)
    BY <1>3, <2>1, <2>2, <2>3, Drawing DEF PixelsTrue
  <2>4. CASE pixelCache' = Framed!Kept
    <3>1. DOMAIN pixelCache' \subseteq DOMAIN pixelCache
            /\ \A k \in DOMAIN pixelCache' : pixelCache'[k] = pixelCache[k]
      BY <2>4 DEF Framed!Kept, Framed!Without
    <3> QED
      BY <2>1, <3>1 DEF PixelsTrue
  <2> QED
    BY <1>7, <2>3, <2>4
<1>9. BitmapsTrue'
  <2>1. ASSUME NEW i \in DOMAIN decoded', i \in DOMAIN decoded, decoded'[i] = decoded[i]
        PROVE  \E rs \in Nat, s \in Framed!Screens, g \in Nat : BitmapOf(i, rs, s, g)'
    <3>1. PICK rs \in Nat, s \in Framed!Screens, g \in Nat : BitmapOf(i, rs, s, g)
      BY <2>1 DEF BitmapsTrue
    <3>2. BitmapOf(i, rs, s, g)'
      BY <1>1, <2>1, <3>1, BitmapStays DEF BitmapOf
    <3> QED
      BY <3>2
  <2>2. ASSUME NEW i \in DOMAIN decoded', i \in Framed!InView, decoded'[i] \in Framed!Bitmap(i)
        PROVE  \E rs \in Nat, s \in Framed!Screens, g \in Nat : BitmapOf(i, rs, s, g)'
    <3>1. PICK s \in Framed!Screens, g \in Nat :
            s = imageScreen /\ g = imageContent'[imageScreen][i].generation
      BY <1>3, <2>2 DEF FrameOfNow, FrameTyped
    <3>2. /\ decoded'[i].revision = <<engines, <<s, i, g>>>>
          /\ decoded'[i].of = <<engines, imageContent'[s][i]>>
          /\ imageContent'[s][i].decodes
      BY <1>3, <2>2, <3>1, BitmapOfNow
    <3>3. engines \in Nat /\ g <= epoch' /\ i \in DOMAIN imageContent'[s]
      BY <1>3, <2>2, <3>1 DEF FrameOfNow, FrameTyped
    <3>4. PICK n \in Nat : n = engines
      BY <3>3
    <3>5. BitmapOf(i, n, s, g)'
      BY <1>1, <3>2, <3>3, <3>4 DEF BitmapOf
    <3> QED
      BY <3>5
  <2>3. CASE \E rows : Framed!Draw(rows)
    BY <1>3, <2>1, <2>2, <2>3, Drawing DEF BitmapsTrue
  <2>4. CASE decoded' = decoded
    BY <2>1, <2>4 DEF BitmapsTrue
  <2> QED
    BY <1>7, <2>3, <2>4
<1>10. ASSUME NEW r \in Framed!Rows
       PROVE  imageCanvas'[r] = Shows(imageFrame, r)'
  <2>1. CASE imageFrame' = imageFrame
    <3>1. imageCanvas[r] = Shows(imageFrame, r)'
      BY <1>2, <1>4, <2>1 DEF CanvasTrue, Shows
    <3> QED
      BY <1>3, <1>7, <3>1, Drawing
  <2>2. CASE imageFrame' # imageFrame
    <3>1. Framed!Draw(Framed!Drawn)
      BY <1>7, <2>2 DEF Framed!Wanted, Framed!NewSignature
    <3>2. CASE r \in Framed!Drawn
      BY <1>3, <3>1, <3>2, Drawing
    <3>3. CASE r \notin Framed!Drawn
      <4>1. r \notin imageDirty \cup Framed!Under(imageFrame) \cup Framed!Under(imageFrame)'
        <5>1. r \in r - 1 .. r + 1
          BY DEF Framed!Rows
        <5>2. Framed!Damaged = Framed!Under(imageFrame) \cup Framed!Under(imageFrame')
          BY <2>2 DEF Framed!Damaged
        <5>3. r \notin imageDirty \cup Framed!Damaged
          BY <3>3, <5>1 DEF Framed!Drawn
        <5>4. Framed!Under(imageFrame)' = Framed!Under(imageFrame')
          BY DEF Framed!Under
        <5> QED
          BY <5>2, <5>3, <5>4
      <4>2. imageCanvas'[r] = imageCanvas[r]
        BY <1>3, <3>1, <3>3, Drawing
      <4>3. Shows(imageFrame, r)' = {}
        BY <4>1 DEF Shows, Framed!Under
      <4>4. imageCanvas[r] = {}
        <5>1. CASE imageFrame.key = <<>>
          BY <4>1, <5>1 DEF CanvasTrue
        <5>2. CASE imageFrame.key # <<>>
          BY <4>1, <5>2 DEF CanvasTrue, Shows, Framed!Under
        <5> QED
          BY <5>1, <5>2
      <4> QED
        BY <4>2, <4>3, <4>4
    <3> QED
      BY <3>2, <3>3
  <2> QED
    BY <2>1, <2>2
<1>11. CanvasTrue'
  BY <1>2, <1>4, <1>10 DEF CanvasTrue
<1> QED
  BY <1>2, <1>5, <1>6, <1>8, <1>9, <1>11

LEMMA FrameInvStep ==
  ASSUME FrameInv, [Framed!Next]_(Framed!vars)
  PROVE  FrameInv'
<1> USE DEF FrameInv
<1>1. CASE UNCHANGED Framed!vars
  <2>1. UNCHANGED <<imageScreen, place, imageContent, imageHistory, imageDirty, engines,
                    imageScrolled, epoch, lastKey, placementGeneration, placements,
                    imageFrame, pixelCache, painted, decoded, imageCanvas>>
    BY <1>1 DEF Framed!vars, Framed!engine, Framed!cached, Framed!drawn
  <2>2. FrameTyped' /\ FrameTrue' /\ FrameSound' /\ PlacementsSound'
    BY <2>1 DEF FrameTyped, FrameTrue, KeyAt, RowsThen, RowThen, TopAt, FrameSound,
      PlacementsSound
  <2>3. PixelsTrue' /\ BitmapsTrue' /\ CanvasTrue'
    BY <2>1 DEF PixelsTrue, PixelsOf, BitmapsTrue, BitmapOf, CanvasTrue, Shows
  <2> QED
    BY <2>2, <2>3
<1>2. ASSUME Framed!RenderStill
      PROVE  FrameInv'
  <2>1. /\ UNCHANGED <<imageScreen, place, imageContent, imageHistory, engines,
                       imageScrolled, epoch>>
        /\ Framed!Render
    BY <1>2 DEF Framed!RenderStill, Framed!Render
  <2>2. lastKey' = lastKey \/ lastKey' = <<epoch, imageScrolled>>
    BY <2>1 DEF Framed!Render, Framed!getFrame, Framed!Key
  <2>3. FrameTyped' /\ Newer
    BY <2>1, <2>2 DEF FrameTyped, Newer
  <2> QED
    BY <2>1, <2>3, FrameRendered
<1>3. ASSUME NEW i \in Pictures, Framed!RenderAnimated(i)
      PROVE  FrameInv'
  <2>1. /\ UNCHANGED <<imageScreen, place, imageHistory, engines, imageScrolled>>
        /\ epoch' = epoch + 1 /\ i \in DOMAIN imageContent[imageScreen] /\ Framed!Render
        /\ imageContent' = [imageContent EXCEPT ![imageScreen][i].generation = epoch + 1]
    BY <1>3 DEF Framed!RenderAnimated, Framed!Render
  <2>2. lastKey' = lastKey \/ lastKey' = <<epoch', imageScrolled>>
    BY <2>1 DEF Framed!Render, Framed!getFrame, Framed!Key
  <2>3. DOMAIN imageContent = Framed!Screens /\ imageScreen \in Framed!Screens
          /\ epoch \in Nat /\ epoch' \in Nat /\ epoch' > epoch
    BY <2>1 DEF FrameTyped
  <2> DEFINE old == imageContent[imageScreen][i]
             new == [old EXCEPT !.generation = epoch + 1]
  <2>4. new \in [generation : Nat, decodes : BOOLEAN] /\ new.generation = epoch'
    <3>1. old \in [generation : Nat, decodes : BOOLEAN]
      BY <2>1, <2>3 DEF FrameTyped
    <3> HIDE DEF old
    <3> QED
      BY <2>1, <2>3, <3>1
  <2>5. imageContent' = [imageContent EXCEPT ![imageScreen] =
                           [imageContent[imageScreen] EXCEPT ![i] = new]]
    BY <2>1
  <2> HIDE DEF new
  <2>6. \A s \in Framed!Screens :
          /\ DOMAIN imageContent'[s] = DOMAIN imageContent[s]
          /\ \A j \in DOMAIN imageContent[s] :
               imageContent'[s][j] = imageContent[s][j] \/ imageContent'[s][j] = new
    BY <2>1, <2>3, <2>5
  <2>7. imageContent' = [s \in Framed!Screens |-> imageContent'[s]]
    BY <2>3, <2>5
  <2>8. Newer
    BY <2>1, <2>3, <2>4, <2>6 DEF Newer
  <2>9. \A s \in Framed!Screens : \A j \in DOMAIN imageContent'[s] :
          /\ imageContent'[s][j] \in [generation : Nat, decodes : BOOLEAN]
          /\ imageContent'[s][j].generation <= epoch'
    BY <2>3, <2>4, <2>6 DEF FrameTyped
  <2>10. lastKey' # <<>> =>
           lastKey' = <<lastKey'[1], lastKey'[2]>> /\ lastKey'[1] \in Nat /\ lastKey'[1] <= epoch'
    BY <2>2, <2>3 DEF FrameTyped
  <2>11. FrameTyped'
    BY <2>1, <2>3, <2>6, <2>7, <2>9, <2>10 DEF FrameTyped
  <2> QED
    BY <2>1, <2>3, <2>8, <2>11, FrameRendered
<1> QED
  BY <1>1, <1>2, <1>3, Editing, ResetOrScroll DEF Framed!Next

LEMMA FramesShown == FrameInv => Framed!ImagesCurrent
<1> SUFFICES ASSUME FrameInv, lastKey = <<epoch, imageScrolled>>, NEW r \in Framed!Rows
             PROVE  imageCanvas[r] =
                      {<<i, <<engines, imageContent[imageScreen][i]>>>> :
                         i \in {j \in Framed!InView : Framed!Covers(Framed!RowOf(j), r)
                                                        /\ imageContent[imageScreen][j].decodes}}
  BY DEF Framed!ImagesCurrent
<1>1. imageFrame.key = KeyAt(imageScrolled)
  BY DEF FrameInv, FrameTrue
<1>2. /\ imageFrame.key # <<>> /\ imageFrame.key[2] = Framed!Generation
      /\ imageFrame.key[3] = imageContent[imageScreen]
  BY <1>1, RowsOfNow DEF KeyAt
<1>3. imageFrame.placements = Listing(Framed!Generation, imageContent[imageScreen])
        /\ imageFrame.resets = engines
  BY <1>2 DEF FrameInv, FrameSound
<1>4. DOMAIN imageFrame.placements = Framed!InView
  BY <1>3, RowsOfNow DEF Listing
<1>5. \A i \in Framed!InView : imageFrame.placements[i].row = Framed!RowOf(i)
  BY <1>3, RowsOfNow DEF Listing
<1>6. imageCanvas[r] = Shows(imageFrame, r)
  BY <1>2 DEF FrameInv, CanvasTrue
<1> QED
  BY <1>2, <1>3, <1>4, <1>5, <1>6 DEF Shows

(* A row that is not drawn again need not be, a link that is known or awaited is
   that of its line, and the images on the canvas are those of the frame that
   getFrame would hand out: for every size of the screen and of an image, however
   many lines, outputs, images and engines there are. *)
THEOREM CurrentAlways == PageSpec => []RowsCurrent
<1> DEFINE All == RowsInv /\ LinkInv /\ FrameInv
<1>1. PageInit => All
  BY RowsInvStart, LinkInvStart, FrameInvStart
<1>2. All /\ [PageNext]_pageVars => All'
  BY RowsInvStep, LinkInvStep, FrameInvStep, StepsOfParts
<1>3. All => RowsCurrent
  BY RowsShown, LinksShown, FramesShown DEF RowsCurrent
<1> QED
  BY <1>1, <1>2, <1>3, PTL DEF PageSpec

-----------------------------------------------------------------------------
(* Settings *)

Copies ==
  [atlas : {0, 1, 2}, cells : {0, 1, 2}, capacity : {0, 1, 2},
   canvas : {0, 1, 2} \X {0, 1, 2} \X {0, 1, 2}]
Setting == [font : {0, 1, 2}, style : Appears!Styles, ratio : {0, 1, 2}, grid : {0, 1, 2}]

SettingsTyped ==
  /\ opened \in {"new", "picking", "open", "disposed"}
  /\ options \in [font : {1, 2}, style : Appears!Styles, blink : BOOLEAN]
  /\ ratio \in {1, 2} /\ program \in Appears!Styles /\ grid \in Appears!Grids
  /\ drawer \in {"canvas2d", "webgl", "webgpu"} /\ settings \in Setting
  /\ blink \in [enabled : BOOLEAN, visible : BOOLEAN]
  /\ invalidNext \in BOOLEAN /\ asked \in BOOLEAN
  /\ opened \in {"new", "picking"} => ~asked

(* What the renderer was told last is what is set, but for what was missed.  The
   next frame takes a style of the program that no frame has seen. *)
RendererTold ==
  /\ ~blink.enabled => blink.visible
  /\ opened \in {"picking", "open"} =>
       /\ settings.grid = grid
       /\ "font" \notin missed => settings.font = options.font
       /\ "blink" \notin missed => blink.enabled = options.blink
  /\ opened = "open" =>
       /\ "ratio" \notin missed => settings.ratio = watched
       /\ "style" \notin missed =>
            styleSet = IF program # lastCursorStyle THEN program ELSE settings.style

(* A GPU renderer's copies are of what it was told. *)
Copied(b, r, c) ==
  b # "canvas2d" =>
    /\ c.atlas = r.font /\ c.cells = r.grid /\ c.canvas = Appears!Canvas(r)
    /\ c.capacity >= r.grid
CopiesTrue ==
  /\ copies \in Copies
  /\ opened = "open" => Copied(drawer, settings, copies)

(* The last frame shows it, unless another is asked for. *)
Pictured(r, s) ==
  /\ s.atlas = r.font /\ s.cells = r.grid /\ s.style = r.style
  /\ s.canvas = Appears!Canvas(r) /\ s.layout = Appears!Canvas(r)
LastFrame ==
  opened = "open" =>
    /\ ~invalidNext => Pictured(settings, shown)
    /\ ~asked => ~invalidNext /\ shown.visible = blink.visible /\ program = lastCursorStyle

(* What a renderer has made is what its kind makes. *)
Of(b) == Appears!Initialized(b) \cup Appears!Parts(b) \cup Appears!ImageParts(b)
MadeByKind ==
  /\ opened = "open" => made \subseteq Of(drawer)
  /\ opened = "disposed" => made = {}

SettingsInv == SettingsTyped /\ RendererTold /\ CopiesTrue /\ LastFrame /\ MadeByKind

LEMMA SettingsInvStart == PageInit => SettingsInv
<1> SUFFICES ASSUME PageInit
             PROVE  SettingsInv
  OBVIOUS
<1>1. Appears!Init
  BY DEF PageInit
<1>2. SettingsTyped
  BY <1>1 DEF Appears!Init, SettingsTyped, Setting, Appears!Styles, Appears!Grids
<1>3. RendererTold /\ CopiesTrue /\ LastFrame /\ MadeByKind
  BY <1>1 DEF Appears!Init, RendererTold, CopiesTrue, Copies, LastFrame, MadeByKind,
    Appears!NoCopies
<1> QED
  BY <1>2, <1>3 DEF SettingsInv

LEMMA Resizing ==
  ASSUME NEW b \in {"canvas2d", "webgl", "webgpu"}, NEW r \in Setting, NEW c \in Copies
  PROVE  Copied(b, r, Appears!Resized(b, r, c)) /\ Appears!Resized(b, r, c) \in Copies
<1>0. Appears!Canvas(r) \in {0, 1, 2} \X {0, 1, 2} \X {0, 1, 2}
  BY DEF Setting, Appears!Canvas
<1>1. CASE b = "canvas2d"
  <2>1. Appears!Resized(b, r, c) = Appears!resize2D(r, c)
    BY <1>1 DEF Appears!Resized
  <2> QED
    BY <1>0, <1>1, <2>1 DEF Appears!resize2D, Copied, Copies
<1>2. CASE b = "webgl"
  BY <1>0, <1>2 DEF Appears!Resized, Appears!resizeGL, Copied, Copies, Setting
<1>3. CASE b = "webgpu"
  BY <1>0, <1>3 DEF Appears!Resized, Appears!resizeGPU, Copied, Copies, Setting
<1> QED
  BY <1>1, <1>2, <1>3

LEMMA Picturing ==
  ASSUME NEW b \in {"canvas2d", "webgl", "webgpu"}, NEW r \in Setting, NEW c \in Copies,
         Copied(b, r, c)
  PROVE  /\ Pictured(r, Appears!Picture(b, r, c))
         /\ Appears!Picture(b, r, c).visible = blink.visible
<1>1. CASE b = "canvas2d"
  BY <1>1 DEF Appears!Picture, Appears!render2D, Pictured
<1>2. CASE b = "webgl"
  BY <1>2 DEF Appears!Picture, Appears!renderGL, Appears!Seen, Appears!encodeCellsGL,
    Appears!uploadGridGL, Pictured, Copied
<1>3. CASE b = "webgpu"
  <2>1. ~(c.capacity < c.cells)
    BY <1>3 DEF Copied, Setting, Copies
  <2> QED
    BY <1>3, <2>1 DEF Appears!Picture, Appears!renderGPU, Appears!Seen, Appears!encodeCellsGPU,
      Appears!uploadGridGPU, Pictured, Copied
<1> QED
  BY <1>1, <1>2, <1>3

LEMMA GlyphsAnew ==
  ASSUME NEW b \in {"canvas2d", "webgl", "webgpu"}, NEW r \in Setting, NEW c \in Copies
  PROVE  Appears!FontSet(b, r, c) \in Copies
BY DEF Appears!FontSet, Appears!setFontGL, Appears!setFontGPU, Copies, Setting

(* A renderer destroys all of its kind. *)
LEMMA AllDestroyed ==
  ASSUME drawer \in {"canvas2d", "webgl", "webgpu"}, made \subseteq Of(drawer)
  PROVE  drawer # "canvas2d" => Appears!Destroyed = {}
<1>1. CASE drawer = "webgl"
  BY <1>1 DEF Of, Appears!Destroyed, Appears!destroyGL, Appears!Initialized, Appears!Parts,
    Appears!ImageParts, Appears!initializeGL, Appears!TexturesGL, Appears!RingGL
<1>2. CASE drawer = "webgpu"
  BY <1>2 DEF Of, Appears!Destroyed, Appears!destroyGPU, Appears!Initialized, Appears!Parts,
    Appears!ImageParts, Appears!initializeGPU, Appears!buffersGPU, Appears!pipelinesGPU,
    Appears!TexturesGPU, Appears!RingGPU
<1> QED
  BY <1>1, <1>2

LEMMA NothingLeftOf ==
  ASSUME drawer \in {"canvas2d", "webgl", "webgpu"}, made \subseteq Of(drawer)
  PROVE  Appears!Destroyed = {}
<1>1. CASE drawer = "canvas2d"
  BY <1>1 DEF Of, Appears!Destroyed, Appears!Initialized, Appears!Parts, Appears!ImageParts
<1> QED
  BY <1>1, AllDestroyed

(* A frame that is drawn at once shows what its renderer knows. *)
LEMMA Redrawing ==
  ASSUME NEW r \in Setting, NEW c \in Copies, NEW m, drawer \in {"canvas2d", "webgl", "webgpu"},
         m \subseteq Of(drawer), Appears!ResizeAndDraw(r, c, m)
  PROVE  /\ settings' = r /\ invalidNext' \in BOOLEAN /\ ~invalidNext'
         /\ copies' \in Copies /\ Copied(drawer, r, copies')
         /\ Pictured(r, shown') /\ shown'.visible = blink.visible
         /\ made' \subseteq Of(drawer)
<1>1. PICK d : d = Appears!Resized(drawer, r, c)
  OBVIOUS
<1>2. /\ settings' = r /\ invalidNext' \in BOOLEAN /\ ~invalidNext' /\ copies' = d
      /\ shown' = Appears!Picture(drawer, r, d)
      /\ made' = m \cup Appears!ImageParts(drawer)
  BY <1>1 DEF Appears!ResizeAndDraw, Appears!Draws
<1>3. d \in Copies /\ Copied(drawer, r, d)
  BY <1>1, Resizing
<1>4. /\ Pictured(r, Appears!Picture(drawer, r, d))
      /\ Appears!Picture(drawer, r, d).visible = blink.visible
  BY <1>3, Picturing
<1> QED
  BY <1>2, <1>3, <1>4 DEF Of

LEMMA SettingsInvStep == SettingsInv /\ [Appears!Next]_(Appears!vars) => SettingsInv'
<1> SUFFICES ASSUME SettingsInv, [Appears!Next]_(Appears!vars)
             PROVE  SettingsInv'
  OBVIOUS
<1> USE DEF SettingsInv
<1>t. drawer \in {"canvas2d", "webgl", "webgpu"} /\ settings \in Setting /\ copies \in Copies
  BY DEF SettingsTyped, CopiesTrue
<1>1. CASE Appears!open
  <2>1. Appears!Asked \in Setting
    BY DEF SettingsTyped, Setting, Appears!Asked, Appears!Grids
  <2>2. SettingsTyped'
    BY <1>1, <2>1 DEF Appears!open, SettingsTyped, Appears!BlinkAsked
  <2>3. RendererTold'
    BY <1>1 DEF Appears!open, RendererTold, Appears!Asked, Appears!BlinkAsked
  <2>4. CopiesTrue' /\ LastFrame' /\ MadeByKind'
    BY <1>1 DEF Appears!open, CopiesTrue, LastFrame, MadeByKind
  <2> QED
    BY <2>2, <2>3, <2>4
<1>2. CASE Appears!FinishOpen
  <2>0. PICK r \in Setting : r = [settings EXCEPT !.ratio = ratio]
    BY DEF SettingsTyped, Setting
  <2>1. PICK m : m = Appears!Initialized(drawer) \cup Appears!Parts(drawer)
    OBVIOUS
  <2>2. m \subseteq Of(drawer) /\ Appears!ResizeAndDraw(r, copies, m)
    BY <1>2, <2>0, <2>1 DEF Of, Appears!FinishOpen
  <2>3. /\ settings' = r /\ invalidNext' \in BOOLEAN /\ ~invalidNext'
        /\ copies' \in Copies /\ Copied(drawer, r, copies')
        /\ Pictured(r, shown') /\ shown'.visible = blink.visible
        /\ made' \subseteq Of(drawer)
    BY <1>t, <2>2, Redrawing
  <2>4. SettingsTyped'
    BY <1>2, <2>3 DEF Appears!FinishOpen, SettingsTyped
  <2>5. RendererTold'
    BY <1>2, <2>0, <2>3 DEF Appears!FinishOpen, RendererTold, SettingsTyped, Setting
  <2>6. CopiesTrue' /\ MadeByKind'
    BY <1>2, <2>3 DEF Appears!FinishOpen, CopiesTrue, MadeByKind, Copied, Of
  <2>7. LastFrame'
    BY <1>2, <2>3 DEF Appears!FinishOpen, LastFrame, Pictured
  <2> QED
    BY <2>4, <2>5, <2>6, <2>7
<1>3. CASE Appears!SetFont
  <2>1. CASE opened = "open"
    <3>0. options' \in [font : {1, 2}, style : Appears!Styles, blink : BOOLEAN]
          /\ options'.blink = options.blink
      BY <1>3 DEF Appears!SetFont, SettingsTyped
    <3>1. PICK r \in Setting : r = [settings EXCEPT !.font = options'.font]
      BY <3>0 DEF SettingsTyped, Setting
    <3>2. PICK c \in Copies : c = Appears!FontSet(drawer, r, copies)
      BY <1>t, GlyphsAnew
    <3>3. made \subseteq Of(drawer) /\ Appears!ResizeAndDraw(r, c, made)
      BY <1>3, <2>1, <3>1, <3>2 DEF MadeByKind, Appears!SetFont, Appears!handleFontChange
    <3>4. /\ settings' = r /\ invalidNext' \in BOOLEAN /\ ~invalidNext'
          /\ copies' \in Copies /\ Copied(drawer, r, copies')
          /\ Pictured(r, shown') /\ shown'.visible = blink.visible
          /\ made' \subseteq Of(drawer)
      BY <1>t, <3>3, Redrawing
    <3>5. asked' = TRUE /\ missed' = missed \ {"font"}
      BY <1>3, <2>1 DEF Appears!SetFont, Appears!Noticed
    <3>6. SettingsTyped'
      BY <1>3, <2>1, <3>0, <3>4, <3>5 DEF Appears!SetFont, SettingsTyped
    <3>7. RendererTold'
      <4>1. r.grid = settings.grid /\ r.ratio = settings.ratio /\ r.style = settings.style
            /\ r.font = options'.font
        BY <3>1 DEF Setting
      <4> QED
        BY <1>3, <2>1, <3>0, <3>4, <3>5, <4>1 DEF Appears!SetFont, RendererTold
    <3>8. CopiesTrue' /\ MadeByKind'
      BY <1>3, <2>1, <3>4 DEF Appears!SetFont, CopiesTrue, MadeByKind, Copied, Of
    <3>9. LastFrame'
      BY <1>3, <2>1, <3>4, <3>5 DEF Appears!SetFont, LastFrame, Pictured
    <3> QED
      BY <3>6, <3>7, <3>8, <3>9
  <2>2. CASE opened # "open"
    <3>0. options' \in [font : {1, 2}, style : Appears!Styles, blink : BOOLEAN]
          /\ options'.blink = options.blink
      BY <1>3 DEF Appears!SetFont, SettingsTyped
    <3>1. SettingsTyped'
      BY <1>3, <2>2, <3>0 DEF Appears!SetFont, SettingsTyped
    <3>2. RendererTold'
      BY <1>3, <2>2, <3>0 DEF Appears!SetFont, RendererTold, Appears!Noticed
    <3>3. CopiesTrue' /\ LastFrame' /\ MadeByKind'
      BY <1>3, <2>2 DEF Appears!SetFont, CopiesTrue, LastFrame, MadeByKind
    <3> QED
      BY <3>1, <3>2, <3>3
  <2> QED
    BY <2>1, <2>2
<1>4. CASE Appears!SetCursor
  <2>0. /\ options' \in [font : {1, 2}, style : Appears!Styles, blink : BOOLEAN]
        /\ options'.font = options.font
    BY <1>4 DEF Appears!SetCursor, SettingsTyped
  <2>1. CASE opened = "open"
    <3>0. settings' \in Setting
          /\ settings'.font = settings.font /\ settings'.grid = settings.grid
          /\ settings'.ratio = settings.ratio /\ settings'.style = options'.style
      BY <1>4, <2>0, <2>1 DEF Appears!SetCursor, Appears!setCursorStyle, SettingsTyped, Setting
    <3>1. blink' \in [enabled : BOOLEAN, visible : BOOLEAN]
          /\ blink'.enabled = options'.blink /\ (~blink'.enabled => blink'.visible)
      <4>1. PICK e \in BOOLEAN : e = options'.blink
        BY <2>0
      <4>2. blink' = IF blink.enabled = e THEN blink ELSE [enabled |-> e, visible |-> TRUE]
        BY <1>4, <2>1, <4>1 DEF Appears!SetCursor, Appears!setEnabled
      <4>3. CASE blink.enabled = e
        BY <4>1, <4>2, <4>3 DEF SettingsTyped, RendererTold
      <4>4. CASE blink.enabled # e
        <5>1. blink' = [enabled |-> e, visible |-> TRUE]
          BY <4>2, <4>4
        <5> QED
          BY <4>1, <5>1
      <4> QED
        BY <4>3, <4>4
    <3>2. invalidNext' = TRUE /\ asked' = TRUE /\ styleSet' = options'.style
      BY <1>4, <2>1 DEF Appears!SetCursor, Appears!setCursorStyle
    <3>3. "style" \notin missed' => program = lastCursorStyle
      BY <1>4, <2>1 DEF Appears!SetCursor
    <3>4. ("font" \notin missed' => "font" \notin missed)
          /\ ("ratio" \notin missed' => "ratio" \notin missed)
      BY <1>4, <2>1 DEF Appears!SetCursor, Appears!Noticed
    <3>5. SettingsTyped'
      BY <1>4, <2>0, <2>1, <3>0, <3>1, <3>2 DEF Appears!SetCursor, SettingsTyped
    <3>6. RendererTold'
      BY <1>4, <2>0, <2>1, <3>0, <3>1, <3>2, <3>3, <3>4 DEF Appears!SetCursor, RendererTold
    <3>7. CopiesTrue'
      BY <1>4, <2>1, <3>0 DEF Appears!SetCursor, CopiesTrue, Copied, Appears!Canvas
    <3>8. LastFrame' /\ MadeByKind'
      BY <1>4, <2>1, <3>2 DEF Appears!SetCursor, LastFrame, MadeByKind, Of
    <3> QED
      BY <3>5, <3>6, <3>7, <3>8
  <2>2. CASE opened # "open"
    <3>1. SettingsTyped'
      BY <1>4, <2>0, <2>2 DEF Appears!SetCursor, SettingsTyped
    <3>2. RendererTold'
      BY <1>4, <2>0, <2>2 DEF Appears!SetCursor, RendererTold, Appears!Noticed
    <3>3. CopiesTrue' /\ LastFrame' /\ MadeByKind'
      BY <1>4, <2>2 DEF Appears!SetCursor, CopiesTrue, LastFrame, MadeByKind
    <3> QED
      BY <3>1, <3>2, <3>3
  <2> QED
    BY <2>1, <2>2
<1>5. CASE Appears!Blink
  <2>1. /\ blink' \in [enabled : BOOLEAN, visible : BOOLEAN]
        /\ blink'.enabled = blink.enabled /\ blink.enabled /\ asked' = TRUE
    BY <1>5 DEF Appears!Blink, SettingsTyped
  <2>2. SettingsTyped'
    BY <1>5, <2>1 DEF Appears!Blink, SettingsTyped
  <2>3. RendererTold'
    BY <1>5, <2>1 DEF Appears!Blink, RendererTold
  <2>4. CopiesTrue' /\ LastFrame' /\ MadeByKind'
    BY <1>5, <2>1 DEF Appears!Blink, CopiesTrue, LastFrame, MadeByKind, Pictured
  <2> QED
    BY <2>2, <2>3, <2>4
<1>6. CASE Appears!ProgramSetsStyle
  <2>1. SettingsTyped'
    BY <1>6 DEF Appears!ProgramSetsStyle, Appears!Change, SettingsTyped
  <2>2. RendererTold'
    BY <1>6 DEF Appears!ProgramSetsStyle, RendererTold
  <2>3. CopiesTrue' /\ LastFrame' /\ MadeByKind'
    BY <1>6 DEF Appears!ProgramSetsStyle, CopiesTrue, LastFrame, MadeByKind, Pictured
  <2> QED
    BY <2>1, <2>2, <2>3
<1>7. CASE Appears!Resize
  <2>0. grid' \in Appears!Grids /\ opened = "open" /\ asked' = TRUE
    BY <1>7 DEF Appears!Resize
  <2>1. PICK r \in Setting : r = [settings EXCEPT !.grid = grid']
    BY <2>0 DEF SettingsTyped, Setting, Appears!Grids
  <2>2. made \subseteq Of(drawer) /\ Appears!ResizeAndDraw(r, copies, made)
    BY <1>7, <2>0, <2>1 DEF MadeByKind, Appears!Resize
  <2>3. /\ settings' = r /\ invalidNext' \in BOOLEAN /\ ~invalidNext'
        /\ copies' \in Copies /\ Copied(drawer, r, copies')
        /\ Pictured(r, shown') /\ shown'.visible = blink.visible
        /\ made' \subseteq Of(drawer)
    BY <1>t, <2>2, Redrawing
  <2>4. SettingsTyped'
    BY <1>7, <2>0, <2>3 DEF Appears!Resize, SettingsTyped
  <2>5. RendererTold'
    BY <1>7, <2>1, <2>3 DEF Appears!Resize, RendererTold, Setting
  <2>6. CopiesTrue' /\ MadeByKind'
    BY <1>7, <2>3 DEF Appears!Resize, CopiesTrue, MadeByKind, Copied, Of
  <2>7. LastFrame'
    BY <1>7, <2>0, <2>3 DEF Appears!Resize, LastFrame, Pictured
  <2> QED
    BY <2>4, <2>5, <2>6, <2>7
<1>8. CASE Appears!RatioChanges
  <2>1. SettingsTyped'
    BY <1>8 DEF Appears!RatioChanges, SettingsTyped
  <2>2. RendererTold' /\ CopiesTrue' /\ LastFrame' /\ MadeByKind'
    BY <1>8 DEF Appears!RatioChanges, RendererTold, CopiesTrue, LastFrame, MadeByKind
  <2> QED
    BY <2>1, <2>2
<1>9. CASE Appears!onDprChange
  <2>0. PICK r \in Setting : r = [settings EXCEPT !.ratio = ratio]
    BY DEF SettingsTyped, Setting
  <2>1. PICK c \in Copies : c = Appears!FontSet(drawer, r, copies)
    BY <1>t, GlyphsAnew
  <2>2. made \subseteq Of(drawer) /\ Appears!ResizeAndDraw(r, c, made)
    BY <1>9, <2>0, <2>1 DEF MadeByKind, Appears!onDprChange, Appears!handleFontChange
  <2>3. /\ settings' = r /\ invalidNext' \in BOOLEAN /\ ~invalidNext'
        /\ copies' \in Copies /\ Copied(drawer, r, copies')
        /\ Pictured(r, shown') /\ shown'.visible = blink.visible
        /\ made' \subseteq Of(drawer)
    BY <1>t, <2>2, Redrawing
  <2>4. SettingsTyped'
    BY <1>9, <2>3 DEF Appears!onDprChange, SettingsTyped
  <2>5. RendererTold'
    <3>1. r.grid = settings.grid /\ r.ratio = ratio /\ r.style = settings.style
          /\ r.font = settings.font
      BY <2>0 DEF Setting
    <3>2. missed' = missed \ {"ratio"}
      BY <1>9 DEF Appears!onDprChange
    <3> QED
      BY <1>9, <2>3, <3>1, <3>2 DEF Appears!onDprChange, RendererTold
  <2>6. CopiesTrue' /\ MadeByKind'
    BY <1>9, <2>3 DEF Appears!onDprChange, CopiesTrue, MadeByKind, Copied, Of
  <2>7. LastFrame'
    BY <1>9, <2>3 DEF Appears!onDprChange, LastFrame, Pictured
  <2> QED
    BY <2>4, <2>5, <2>6, <2>7
<1>10. CASE Appears!renderTick
  <2>0. opened = "open" /\ made \subseteq Of(drawer) /\ Copied(drawer, settings, copies)
    BY <1>10 DEF Appears!renderTick, MadeByKind, CopiesTrue
  <2>1. /\ Pictured(settings, shown') /\ shown'.visible = blink.visible
        /\ made' \subseteq Of(drawer)
    <3>1. CASE invalidNext \/ blink.visible # shown.visible
      <4>1. shown' = Appears!Picture(drawer, settings, copies)
            /\ made' = made \cup Appears!ImageParts(drawer)
        BY <1>10, <3>1 DEF Appears!renderTick, Appears!Draws
      <4> QED
        BY <1>t, <2>0, <4>1, Picturing DEF Of
    <3>2. CASE ~(invalidNext \/ blink.visible # shown.visible)
      BY <1>10, <2>0, <3>2 DEF Appears!renderTick, LastFrame
    <3> QED
      BY <3>1, <3>2
  <2>2. CASE program # lastCursorStyle
    <3>1. settings' = [settings EXCEPT !.style = program] /\ invalidNext' = TRUE /\ asked' = TRUE
      BY <1>10, <2>2 DEF Appears!renderTick, Appears!setCursorStyle
    <3>2. settings' \in Setting
          /\ settings'.font = settings.font /\ settings'.grid = settings.grid
          /\ settings'.ratio = settings.ratio /\ settings'.style = program
      BY <3>1 DEF SettingsTyped, Setting
    <3>3. SettingsTyped'
      BY <1>10, <2>0, <3>1, <3>2 DEF Appears!renderTick, SettingsTyped
    <3>4. RendererTold'
      BY <1>10, <2>2, <3>2 DEF Appears!renderTick, RendererTold
    <3>5. CopiesTrue'
      BY <1>10, <3>2 DEF Appears!renderTick, CopiesTrue, Copied, Appears!Canvas
    <3>6. LastFrame' /\ MadeByKind'
      BY <1>10, <2>1, <3>1 DEF Appears!renderTick, LastFrame, MadeByKind, Of
    <3> QED
      BY <3>3, <3>4, <3>5, <3>6
  <2>3. CASE program = lastCursorStyle
    <3>1. settings' = settings /\ invalidNext' = FALSE /\ asked' = FALSE
      BY <1>10, <2>3 DEF Appears!renderTick
    <3>2. SettingsTyped'
      BY <1>10, <2>0, <3>1 DEF Appears!renderTick, SettingsTyped
    <3>3. RendererTold' /\ CopiesTrue'
      BY <1>10, <2>3, <3>1 DEF Appears!renderTick, RendererTold, CopiesTrue, Copied
    <3>4. LastFrame' /\ MadeByKind'
      BY <1>10, <2>1, <2>3, <3>1 DEF Appears!renderTick, LastFrame, MadeByKind, Of, Pictured
    <3> QED
      BY <3>2, <3>3, <3>4
  <2> QED
    BY <2>2, <2>3
<1>11. CASE Appears!Lost
  <2>0. PICK r \in Setting : r = Appears!Asked
    BY DEF SettingsTyped, Setting, Appears!Asked, Appears!Grids
  <2>1. /\ opened = "open" /\ opened' = "open" /\ drawer' \in {"canvas2d", "webgl", "webgpu"}
        /\ settings' = r /\ blink' = Appears!BlinkAsked
        /\ invalidNext' = TRUE /\ asked' = TRUE
    BY <1>11, <2>0 DEF Appears!Lost
  <2>2. SettingsTyped'
    BY <1>11, <2>1 DEF Appears!Lost, SettingsTyped, Appears!BlinkAsked
  <2>3. RendererTold'
    <3>1. /\ r.font = options.font /\ r.style = options.style /\ r.ratio = ratio
          /\ r.grid = grid
      BY <2>0 DEF Appears!Asked
    <3>2. ("style" \notin missed' => styleSet = Appears!NextStyle)
          /\ ("ratio" \notin missed' => ratio = watched)
      BY <1>11 DEF Appears!Lost
    <3> QED
      BY <1>11, <2>1, <3>1, <3>2
      DEF Appears!Lost, RendererTold, Appears!BlinkAsked, Appears!NextStyle
  <2>4. CopiesTrue'
    <3>1. Appears!NoCopies \in Copies
      BY DEF Appears!NoCopies, Copies
    <3>2. PICK d : d = drawer'
      OBVIOUS
    <3>3. copies' = Appears!Resized(d, r, Appears!NoCopies)
      BY <1>11, <2>0, <3>2 DEF Appears!Lost
    <3> QED
      BY <2>1, <3>1, <3>2, <3>3, Resizing DEF CopiesTrue, Copied
  <2>5. LastFrame'
    BY <2>1 DEF LastFrame
  <2>6. MadeByKind'
    <3>1. Appears!Destroyed = {}
      BY <1>t, <2>1, NothingLeftOf DEF MadeByKind
    <3> QED
      BY <1>11, <2>1, <3>1 DEF Appears!Lost, MadeByKind, Of
  <2> QED
    BY <2>2, <2>3, <2>4, <2>5, <2>6
<1>12. CASE Appears!dispose
  <2>1. Appears!Destroyed = {}
    BY <1>12, <1>t, NothingLeftOf DEF MadeByKind, Appears!dispose
  <2>2. SettingsTyped'
    BY <1>12 DEF Appears!dispose, SettingsTyped
  <2>3. RendererTold' /\ CopiesTrue' /\ LastFrame' /\ MadeByKind'
    BY <1>12, <2>1 DEF Appears!dispose, RendererTold, CopiesTrue, LastFrame, MadeByKind
  <2> QED
    BY <2>2, <2>3
<1>13. CASE UNCHANGED (Appears!vars)
  BY <1>13 DEF Appears!vars, SettingsTyped, RendererTold, CopiesTrue, LastFrame, MadeByKind
<1> QED
  BY <1>1, <1>2, <1>3, <1>4, <1>5, <1>6, <1>7, <1>8, <1>9, <1>10, <1>11, <1>12, <1>13
  DEF Appears!Next

LEMMA SettingsShown == SettingsInv => Appears!DrawnAsSet /\ Appears!GivesBack
<1> SUFFICES ASSUME SettingsInv
             PROVE  Appears!DrawnAsSet /\ Appears!GivesBack
  OBVIOUS
<1>1. Appears!GivesBack
  BY DEF SettingsInv, MadeByKind, Of, Appears!GivesBack
<1>2. Appears!DrawnAsSet
  BY DEF SettingsInv, SettingsTyped, RendererTold, LastFrame, Pictured, Appears!Canvas,
    Appears!DrawnAsSet
<1> QED
  BY <1>1, <1>2

(* Whichever renderer draws, and whatever replaced it on the way, a frame shows the
   font, the grid, the pixel ratio and the cursor as they are set, but for what is
   known to be missed; and a renderer gives back all that its kind makes: the part
   of CellsDrawn and of NothingLeft that is about Appearance, for any number of
   changes. *)
THEOREM SettingsDrawn ==
  PageSpec => [](part = "settings" => Appears!DrawnAsSet /\ Appears!GivesBack)
<1>1. SettingsInv /\ [PageNext]_pageVars => SettingsInv'
  BY SettingsInvStep, StepsOfParts
<1> QED
  BY SettingsInvStart, <1>1, SettingsShown, PTL DEF PageSpec

-----------------------------------------------------------------------------
(* Textures of images: the area that pictures cover is a recursive sum over a
   finite set. Two sums over the same set agree, or else a smallest set on which
   they differ would have an element whose removal leaves a smaller one. *)

(* Among sets of subsets of a finite set there is a smallest one. *)
LEMMA SmallestSet ==
  ASSUME NEW S, IsFiniteSet(S), NEW C \in SUBSET (SUBSET S), C # {}
  PROVE  \E s \in C : \A t \in SUBSET s : t # s => t \notin C
<1>1. IsWellFoundedOn(StrictSubsetOrdering(S), SUBSET S)
  BY FS_StrictSubsetOrderingWellFounded, FS_FiniteSubsetsOfFinite
<1>2. PICK s \in C : \A t \in C : <<t, s>> \notin StrictSubsetOrdering(S)
  BY <1>1, WFMin, Zenon
<1> QED
  BY <1>2 DEF StrictSubsetOrdering

(* The sum of the areas, as the recursive function it is. *)
Any(s) == CHOOSE x \in s : TRUE
Unrolled(f, S, g) ==
  g = [s \in SUBSET S |-> IF s = {} THEN 0 ELSE f[Any(s)].area + g[s \ {Any(s)}]]

LEMMA AreaUnrolled ==
  ASSUME NEW f, NEW S
  PROVE  Textures!Areaof(f, S) = (CHOOSE g : Unrolled(f, S, g))[S]
  BY Zenon DEF Textures!Areaof, Textures!MapThenSumSet, Textures!MapThenFoldSet, Any, Unrolled

LEMMA OneUnrolled ==
  ASSUME NEW f, NEW S, NEW R, IsFiniteSet(S), S \subseteq R,
         NEW g, Unrolled(f, S, g), NEW h, Unrolled(f, R, h)
  PROVE  g[S] = h[S]
<1> DEFINE C == {s \in SUBSET S : g[s] # h[s]}
<1> SUFFICES ASSUME C # {} PROVE FALSE
  OBVIOUS
<1>1. PICK s \in C : \A t \in SUBSET s : t # s => t \notin C
  <2>1. C \in SUBSET (SUBSET S)
    OBVIOUS
  <2> HIDE DEF C
  <2> QED
    BY <2>1, SmallestSet
<1>2. s \in SUBSET S /\ s \in SUBSET R
  BY <1>1
<1>3. g[s] = IF s = {} THEN 0 ELSE f[Any(s)].area + g[s \ {Any(s)}]
  BY <1>2 DEF Unrolled
<1>4. h[s] = IF s = {} THEN 0 ELSE f[Any(s)].area + h[s \ {Any(s)}]
  BY <1>2 DEF Unrolled
<1>5. s # {} => Any(s) \in s
  BY DEF Any
<1>6. s # {} => g[s \ {Any(s)}] = h[s \ {Any(s)}]
  BY <1>1, <1>2, <1>5
<1> QED
  BY <1>1, <1>3, <1>4, <1>6

LEMMA SomeUnrolled ==
  ASSUME NEW f, NEW S, IsFiniteSet(S)
  PROVE  \E g : Unrolled(f, S, g)
<1> DEFINE C == {s \in SUBSET S : ~ \E g : Unrolled(f, s, g)}
<1> SUFFICES ASSUME C # {} PROVE FALSE
  OBVIOUS
<1>1. PICK T \in C : \A t \in SUBSET T : t # T => t \notin C
  <2>1. C \in SUBSET (SUBSET S)
    OBVIOUS
  <2> HIDE DEF C
  <2> QED
    BY <2>1, SmallestSet
<1> DEFINE of(s) == CHOOSE g : Unrolled(f, s, g)
           w == [s \in SUBSET T |-> IF s = {} THEN 0
                               ELSE f[Any(s)].area + of(s \ {Any(s)})[s \ {Any(s)}]]
<1>2. \A s \in SUBSET T : s # T => Unrolled(f, s, of(s))
  BY <1>1
<1>3. ASSUME NEW s \in SUBSET T, s # T
      PROVE  w[s] = of(s)[s]
  <2>1. Unrolled(f, s, of(s))
    BY <1>2, <1>3
  <2>2. of(s)[s] = IF s = {} THEN 0 ELSE f[Any(s)].area + of(s)[s \ {Any(s)}]
    <3> HIDE DEF of
    <3> QED
      BY <2>1 DEF Unrolled
  <2>3. ASSUME s # {}
        PROVE  of(s)[s \ {Any(s)}] = of(s \ {Any(s)})[s \ {Any(s)}]
    <3>1. Any(s) \in s
      BY <2>3 DEF Any
    <3>2. s \ {Any(s)} \in SUBSET T /\ s \ {Any(s)} # T /\ s \ {Any(s)} \subseteq s
      BY <3>1
    <3>3. Unrolled(f, s \ {Any(s)}, of(s \ {Any(s)}))
      BY <3>2, <1>2
    <3>4. IsFiniteSet(s \ {Any(s)})
      BY <3>2, <1>1, FS_Subset
    <3> HIDE DEF of
    <3> QED
      BY <2>1, <3>2, <3>3, <3>4, OneUnrolled
  <2> QED
    BY <2>2, <2>3
<1>4. ASSUME NEW s \in SUBSET T, s # {}
      PROVE  w[s] = f[Any(s)].area + w[s \ {Any(s)}]
  <2>1. Any(s) \in s
    BY <1>4 DEF Any
  <2>2. s \ {Any(s)} \in SUBSET T /\ s \ {Any(s)} # T
    BY <2>1
  <2>3. w[s \ {Any(s)}] = of(s \ {Any(s)})[s \ {Any(s)}]
    BY <2>2, <1>3
  <2> QED
    BY <2>3, <1>4
<1>5. w[{}] = 0
  OBVIOUS
<1>6. Unrolled(f, T, w)
  <2>1. w = [s \in SUBSET T |-> w[s]]
    OBVIOUS
  <2> HIDE DEF w
  <2> QED
    BY <2>1, <1>4, <1>5 DEF Unrolled
<1> QED
  BY <1>1, <1>6

LEMMA AreaOfNone ==
  ASSUME NEW f
  PROVE  Textures!Areaof(f, {}) = 0
<1>1. Unrolled(f, {}, CHOOSE g : Unrolled(f, {}, g))
  BY SomeUnrolled, FS_EmptySet
<1> QED
  BY <1>1, AreaUnrolled DEF Unrolled

LEMMA AreaOfSome ==
  ASSUME NEW f, NEW S, IsFiniteSet(S), S # {}
  PROVE  Textures!Areaof(f, S) = f[Any(S)].area + Textures!Areaof(f, S \ {Any(S)})
<1> DEFINE g == CHOOSE g : Unrolled(f, S, g)
           h == CHOOSE h : Unrolled(f, S \ {Any(S)}, h)
<1>1. Any(S) \in S /\ IsFiniteSet(S \ {Any(S)})
  BY FS_Subset DEF Any
<1>2. Unrolled(f, S, g) /\ Unrolled(f, S \ {Any(S)}, h)
  BY <1>1, SomeUnrolled
<1>3. Textures!Areaof(f, S) = g[S] /\ Textures!Areaof(f, S \ {Any(S)}) = h[S \ {Any(S)}]
  BY AreaUnrolled
<1> HIDE DEF g, h
<1>4. g[S] = f[Any(S)].area + g[S \ {Any(S)}]
  BY <1>2 DEF Unrolled
<1>5. h[S \ {Any(S)}] = g[S \ {Any(S)}]
  BY <1>1, <1>2, OneUnrolled
<1> QED
  BY <1>3, <1>4, <1>5

Measured(f, S) == \A i \in S : f[i].area \in Nat

LEMMA AreaIsNatural ==
  ASSUME NEW f, NEW S, IsFiniteSet(S), Measured(f, S)
  PROVE  Textures!Areaof(f, S) \in Nat
<1> DEFINE C == {s \in SUBSET S : Textures!Areaof(f, s) \notin Nat}
<1> SUFFICES ASSUME C # {} PROVE FALSE
  OBVIOUS
<1>1. PICK s \in C : \A t \in SUBSET s : t # s => t \notin C
  <2>1. C \in SUBSET (SUBSET S)
    OBVIOUS
  <2> HIDE DEF C
  <2> QED
    BY <2>1, SmallestSet
<1>2. s # {}
  <2> SUFFICES ASSUME s = {} PROVE FALSE
    OBVIOUS
  <2>1. Textures!Areaof(f, s) = 0
    BY AreaOfNone
  <2> QED
    BY <1>1, <2>1
<1>3. Any(s) \in s /\ IsFiniteSet(s)
  BY <1>1, <1>2, FS_Subset DEF Any
<1>4. Textures!Areaof(f, s \ {Any(s)}) \in Nat
  BY <1>1, <1>3
<1>5. f[Any(s)].area \in Nat
  BY <1>1, <1>3 DEF Measured
<1> QED
  BY <1>1, <1>2, <1>3, <1>4, <1>5, AreaOfSome

LEMMA AreaWithout ==
  ASSUME NEW f, NEW S, IsFiniteSet(S), Measured(f, S), NEW i \in S
  PROVE  Textures!Areaof(f, S) = f[i].area + Textures!Areaof(f, S \ {i})
<1> DEFINE C == {s \in SUBSET S : \E x \in s :
                   Textures!Areaof(f, s) # f[x].area + Textures!Areaof(f, s \ {x})}
<1> SUFFICES ASSUME C # {} PROVE FALSE
  OBVIOUS
<1>1. PICK s \in C : \A t \in SUBSET s : t # s => t \notin C
  <2>1. C \in SUBSET (SUBSET S)
    OBVIOUS
  <2> HIDE DEF C
  <2> QED
    BY <2>1, SmallestSet
<1>2. PICK x \in s : Textures!Areaof(f, s) # f[x].area + Textures!Areaof(f, s \ {x})
  BY <1>1
<1> DEFINE y == Any(s)
<1>3. y \in s /\ IsFiniteSet(s) /\ s \in SUBSET S
  BY <1>1, <1>2, FS_Subset DEF Any
<1>4. Textures!Areaof(f, s) = f[y].area + Textures!Areaof(f, s \ {y})
  BY <1>2, <1>3, AreaOfSome
<1> HIDE DEF y
<1>5. x # y
  BY <1>2, <1>4
<1> DEFINE r == (s \ {x}) \ {y}
<1>6. Textures!Areaof(f, s \ {y}) = f[x].area + Textures!Areaof(f, r)
  <2>1. s \ {y} \notin C /\ s \ {y} \in SUBSET S /\ x \in s \ {y} /\ r = (s \ {y}) \ {x}
    BY <1>1, <1>3, <1>5, <1>2
  <2> QED
    BY <2>1
<1>7. Textures!Areaof(f, s \ {x}) = f[y].area + Textures!Areaof(f, r)
  <2>1. s \ {x} \notin C /\ s \ {x} \in SUBSET S /\ y \in s \ {x}
    BY <1>1, <1>3, <1>5, <1>2
  <2> QED
    BY <2>1
<1>8. Textures!Areaof(f, r) \in Nat /\ f[x].area \in Nat /\ f[y].area \in Nat
  <2>1. IsFiniteSet(r) /\ Measured(f, r)
    BY <1>3, FS_Subset DEF Measured
  <2> QED
    BY <2>1, AreaIsNatural, <1>2, <1>3 DEF Measured
<1> HIDE DEF r
<1> QED
  BY <1>2, <1>4, <1>6, <1>7, <1>8

LEMMA AreaMonotone ==
  ASSUME NEW f, NEW g, NEW R, NEW S, IsFiniteSet(S), R \subseteq S,
         Measured(f, R), Measured(g, S), \A i \in R : f[i].area <= g[i].area
  PROVE  Textures!Areaof(f, R) <= Textures!Areaof(g, S)
<1> DEFINE C == {s \in SUBSET S : ~ (Textures!Areaof(f, s \cap R) <= Textures!Areaof(g, s))}
<1> SUFFICES ASSUME C # {} PROVE FALSE
  <2>1. S \cap R = R
    OBVIOUS
  <2> QED
    BY <2>1
<1>1. PICK s \in C : \A t \in SUBSET s : t # s => t \notin C
  <2>1. C \in SUBSET (SUBSET S)
    OBVIOUS
  <2> HIDE DEF C
  <2> QED
    BY <2>1, SmallestSet
<1>2. s \in SUBSET S /\ IsFiniteSet(s) /\ Measured(g, s)
  BY <1>1, FS_Subset DEF Measured
<1>3. PICK x \in s : TRUE
  <2> SUFFICES ASSUME s = {} PROVE FALSE
    OBVIOUS
  <2>1. s \cap R = {}
    OBVIOUS
  <2> QED
    BY <1>1, <2>1, AreaOfNone
<1> DEFINE t == s \ {x}
<1>4. Textures!Areaof(f, t \cap R) <= Textures!Areaof(g, t)
  BY <1>1, <1>2, <1>3
<1>5. Textures!Areaof(g, s) = g[x].area + Textures!Areaof(g, t)
  BY <1>2, <1>3, AreaWithout
<1>6. IsFiniteSet(t) /\ IsFiniteSet(t \cap R) /\ IsFiniteSet(s \cap R)
      /\ Measured(f, t \cap R) /\ Measured(g, t) /\ Measured(f, s \cap R)
  BY <1>2, FS_Subset DEF Measured
<1>7. /\ Textures!Areaof(g, t) \in Nat /\ Textures!Areaof(f, t \cap R) \in Nat
      /\ g[x].area \in Nat
  BY <1>6, <1>2, <1>3, AreaIsNatural DEF Measured
<1>0. ~ (Textures!Areaof(f, s \cap R) <= Textures!Areaof(g, s))
  BY <1>1
<1>8. CASE x \in R
  <2>1. (s \cap R) \ {x} = t \cap R /\ x \in s \cap R
    BY <1>8, <1>3
  <2>2. Textures!Areaof(f, s \cap R) = f[x].area + Textures!Areaof(f, t \cap R)
    BY <1>6, <2>1, AreaWithout
  <2>3. f[x].area \in Nat /\ f[x].area <= g[x].area
    BY <1>8 DEF Measured
  <2> HIDE DEF t, C
  <2> QED
    BY <2>2, <2>3, <1>0, <1>4, <1>5, <1>7
<1>9. CASE x \notin R
  <2>1. s \cap R = t \cap R
    BY <1>9
  <2> HIDE DEF t, C
  <2>2. Textures!Areaof(f, s \cap R) = Textures!Areaof(f, t \cap R)
    BY <2>1, Zenon
  <2> QED
    BY <2>2, <1>0, <1>4, <1>5, <1>7
<1> QED
  BY <1>8, <1>9

(* What holds between two steps of the frame: textures are only of images that
   were placed and, unless one changed its size since, have their size; what was
   drawn is the image as it is; and room was found if all fits. *)
Measures == [area : Nat, revision : Nat]

ImagesTyped ==
  /\ image \in [Images -> [area : Nat, revision : Nat, decoded : BOOLEAN]]
  /\ DOMAIN imageTextures \subseteq Images
  /\ imageTextures \in [DOMAIN imageTextures -> Measures]
  /\ todo \subseteq Images /\ DOMAIN result \subseteq Images
  /\ result \in [DOMAIN result -> {"drawn", "no room", "no pixels", "no texture"}]
  /\ DOMAIN result \cap todo = {}
  /\ resized \in BOOLEAN

Present == DOMAIN result \cup todo

FrameKept ==
  Present # {} =>
    /\ DOMAIN imageTextures \subseteq Present
    /\ ~resized => \A i \in DOMAIN imageTextures : imageTextures[i].area = image[i].area

DrawnNow ==
  \A i \in DOMAIN result : result[i] = "drawn" =>
    i \in DOMAIN imageTextures /\ imageTextures[i] = Textures!Signature(i)

RoomFound ==
  ~resized /\ Textures!Areaof(image, Present) <= Budget =>
    \A i \in DOMAIN result : result[i] # "no room"

ImagesInv == ImagesTyped /\ FrameKept /\ DrawnNow /\ RoomFound

LEMMA ImagesInvStart == PageInit => ImagesInv
<1> SUFFICES ASSUME PageInit PROVE ImagesInv
  OBVIOUS
<1>1. Textures!Init
  BY DEF PageInit
<1>2. /\ DOMAIN imageTextures = {} /\ imageTextures \in [{} -> Measures]
      /\ DOMAIN result = {} /\ todo = {}
      /\ result \in [{} -> {"drawn", "no room", "no pixels", "no texture"}]
  BY <1>1 DEF Textures!Init, Textures!Nothing
<1>3. image \in [Images -> [area : Nat, revision : Nat, decoded : BOOLEAN]]
  <2>1. image \in [Images -> [area : Areas, revision : {0}, decoded : {TRUE}]]
    BY <1>1 DEF Textures!Init
  <2>2. \A i \in Images : image[i] \in [area : Nat, revision : Nat, decoded : BOOLEAN]
    <3> SUFFICES ASSUME NEW i \in Images
                 PROVE  image[i] \in [area : Nat, revision : Nat, decoded : BOOLEAN]
      OBVIOUS
    <3>1. image[i] \in [area : Areas, revision : {0}, decoded : {TRUE}]
      BY <2>1
    <3>2. Areas \subseteq Nat /\ {0} \subseteq Nat /\ {TRUE} \subseteq BOOLEAN
      BY ImagesAssumption
    <3> QED
      BY <3>1, <3>2, Zenon
  <2> QED
    BY <2>1, <2>2
<1>4. resized \in BOOLEAN
  BY <1>1 DEF Textures!Init
<1>5. ImagesTyped
  BY <1>2, <1>3, <1>4 DEF ImagesTyped
<1> QED
  BY <1>2, <1>5 DEF ImagesInv, FrameKept, DrawnNow, RoomFound, Present

(* An image that is placed finds room if all the images of the frame do. *)
LEMMA NotOver ==
  ASSUME ImagesTyped, FrameKept, ~resized, NEW i \in todo,
         Textures!Areaof(image, Present) <= Budget
  PROVE  ~Textures!Over(i)
<1> DEFINE others == DOMAIN imageTextures \ {i}
<1>1. IsFiniteSet(Present) /\ Present \subseteq Images /\ i \in Present
  BY ImagesAssumption, FS_Subset DEF ImagesTyped, Present
<1>2. IsFiniteSet(Present \ {i})
  BY <1>1, FS_Subset
<1>3. Measured(image, Present) /\ Measured(image, Present \ {i})
  BY <1>1 DEF Measured, ImagesTyped
<1>4. /\ others \subseteq Present \ {i} /\ Measured(imageTextures, others)
      /\ \A j \in others : imageTextures[j].area <= image[j].area
  <2>1. others \subseteq Present \ {i}
    BY <1>1 DEF FrameKept
  <2>2. ASSUME NEW j \in others
        PROVE  imageTextures[j].area = image[j].area /\ imageTextures[j].area \in Nat
    <3>1. imageTextures[j] \in Measures
      BY DEF ImagesTyped
    <3> QED
      BY <3>1, <1>1 DEF FrameKept, Measures
  <2> QED
    BY <2>1, <2>2 DEF Measured
<1>5. Textures!Areaof(imageTextures, others) <= Textures!Areaof(image, Present \ {i})
  BY <1>2, <1>3, <1>4, AreaMonotone
<1>6. Textures!Areaof(image, Present) = image[i].area + Textures!Areaof(image, Present \ {i})
  BY <1>1, <1>3, AreaWithout
<1>7. /\ Textures!Areaof(image, Present \ {i}) \in Nat /\ image[i].area \in Nat
      /\ Textures!Areaof(imageTextures, others) \in Nat
  <2>1. IsFiniteSet(others)
    BY <1>2, <1>4, FS_Subset
  <2> QED
    BY <2>1, <1>1, <1>2, <1>3, <1>4, AreaIsNatural DEF Measured
<1>8. Textures!Areaof(imageTextures, others) + image[i].area <= Budget
  BY <1>5, <1>6, <1>7, ImagesAssumption
<1> QED
  BY <1>8, <1>7, ImagesAssumption DEF Textures!Over

LEMMA FrameStarted ==
  ASSUME ImagesInv, NEW placed \in SUBSET Images, Textures!StartFrame(placed)
  PROVE  ImagesInv'
<1> USE DEF ImagesInv, ImagesTyped, Textures!StartFrame, Textures!Nothing, Present
<1>1. /\ todo' = placed /\ DOMAIN result' = {} /\ image' = image /\ resized' \in BOOLEAN
      /\ imageTextures' = [i \in DOMAIN imageTextures \cap placed |-> imageTextures[i]]
  BY DEF Textures!retain, Textures!Only
<1>2. ImagesTyped'
  BY <1>1
<1>3. FrameKept'
  BY <1>1 DEF FrameKept
<1>4. DrawnNow' /\ RoomFound'
  BY <1>1 DEF DrawnNow, RoomFound
<1> QED
  BY <1>2, <1>3, <1>4

LEMMA ImageChanged ==
  ASSUME ImagesInv, NEW i \in Images, Textures!Changes(i)
  PROVE  ImagesInv'
<1>1. PICK a \in Areas, d \in BOOLEAN :
        image' = [image EXCEPT ![i] =
                    [area |-> a, revision |-> image[i].revision + 1, decoded |-> d]]
  BY Zenon DEF Textures!Changes
<1>2. /\ todo' = {} /\ DOMAIN result' = {} /\ imageTextures' = imageTextures
      /\ resized' = resized /\ result' \in [{} -> {}]
  BY DEF Textures!Changes, Textures!Nothing
<1>3. image \in [Images -> [area : Nat, revision : Nat, decoded : BOOLEAN]]
  BY DEF ImagesInv, ImagesTyped
<1>4. image' \in [Images -> [area : Nat, revision : Nat, decoded : BOOLEAN]]
  <2>1. image[i].revision + 1 \in Nat
    BY <1>3
  <2>2. a \in Nat
    BY ImagesAssumption
  <2> QED
    BY <1>1, <1>3, <2>1, <2>2
<1>5. ImagesTyped'
  BY <1>2, <1>4 DEF ImagesInv, ImagesTyped
<1>6. FrameKept' /\ DrawnNow' /\ RoomFound'
  BY <1>2 DEF FrameKept, DrawnNow, RoomFound, Present
<1> QED
  BY <1>5, <1>6 DEF ImagesInv

LEMMA SignatureArea ==
  ASSUME NEW i
  PROVE  Textures!Signature(i).area = image[i].area
  BY DEF Textures!Signature

(* What becomes of the textures and of an image of the frame. *)
LEMMA Became ==
  ASSUME ImagesInv, NEW i \in todo, NEW r \in {"drawn", "no room", "no pixels", "no texture"},
         NEW f, Textures!Becomes(i, r, f), todo' = todo \ {i}, UNCHANGED <<image, resized>>,
         DOMAIN f \subseteq DOMAIN imageTextures \cup {i}, f \in [DOMAIN f -> Measures],
         DOMAIN imageTextures \ {i} \subseteq DOMAIN f,
         \A j \in DOMAIN f \ {i} : f[j] = imageTextures[j],
         i \in DOMAIN f =>
           \/ f[i] = Textures!Signature(i)
           \/ i \in DOMAIN imageTextures /\ f[i] = imageTextures[i],
         r = "drawn" => i \in DOMAIN f /\ f[i] = Textures!Signature(i),
         r = "no room" => Textures!Over(i)
  PROVE  ImagesInv'
<1> USE DEF ImagesInv
<1>1. /\ imageTextures' = f /\ DOMAIN result' = DOMAIN result \cup {i}
      /\ result' = [j \in DOMAIN result \cup {i} |-> IF j = i THEN r ELSE result[j]]
  BY DEF Textures!Becomes, Textures!With
<1>2. Present' = Present /\ i \in Present
  BY <1>1 DEF Present
<1>3. ImagesTyped'
  BY <1>1 DEF ImagesTyped
<1>4. FrameKept'
  <2>1. DOMAIN imageTextures' \subseteq Present'
    BY <1>1, <1>2 DEF FrameKept
  <2>2. ASSUME ~resized, NEW j \in DOMAIN f
        PROVE  f[j].area = image[j].area
    <3>1. j \in DOMAIN imageTextures => imageTextures[j].area = image[j].area
      BY <1>2, <2>2 DEF FrameKept
    <3>2. f[j] = Textures!Signature(j) => f[j].area = image[j].area
      BY SignatureArea
    <3>3. \/ f[j] = Textures!Signature(j)
          \/ j \in DOMAIN imageTextures /\ f[j] = imageTextures[j]
      OBVIOUS
    <3> QED
      BY <3>1, <3>2, <3>3
  <2> QED
    BY <2>1, <2>2, <1>1 DEF FrameKept
<1>5. DrawnNow'
  BY <1>1 DEF DrawnNow, ImagesTyped, Textures!Signature
<1>6. RoomFound'
  <2> SUFFICES ASSUME ~resized, Textures!Areaof(image, Present) <= Budget,
                      NEW j \in DOMAIN result'
               PROVE  result'[j] # "no room"
    BY <1>2 DEF RoomFound
  <2>1. r # "no room"
    BY NotOver
  <2>2. j # i => result[j] # "no room"
    BY <1>1 DEF RoomFound
  <2> QED
    BY <1>1, <2>1, <2>2
<1> QED
  BY <1>3, <1>4, <1>5, <1>6

LEMMA ImagesInvStep ==
  ASSUME ImagesInv, [Textures!Next]_(Textures!vars)
  PROVE  ImagesInv'
<1>1. CASE UNCHANGED Textures!vars
  BY <1>1 DEF Textures!vars, ImagesInv, ImagesTyped, FrameKept, DrawnNow, RoomFound, Present,
     Textures!Signature
<1>2. ASSUME NEW i \in Images, Textures!getOrUpload(i)
      PROVE  ImagesInv'
  <2> USE <1>2 DEF Textures!getOrUpload
  <2>0. /\ ImagesTyped /\ i \in todo /\ Textures!Signature(i) \in Measures
        /\ todo' = todo \ {i} /\ UNCHANGED <<image, resized>>
        /\ imageTextures \in [DOMAIN imageTextures -> Measures]
    BY DEF ImagesInv, ImagesTyped, Textures!Signature, Measures
  <2>1. CASE Textures!Uploaded(i)
    BY <2>0, <2>1, Became DEF Textures!Uploaded
  <2>2. CASE Textures!Refused(i)
    BY <2>0, <2>2, Became DEF Textures!Refused
  <2>3. ASSUME Textures!Becomes(i, "drawn", Textures!With(imageTextures, i, Textures!Signature(i)))
        PROVE  ImagesInv'
    <3> DEFINE f == Textures!With(imageTextures, i, Textures!Signature(i))
    <3>1. /\ DOMAIN f = DOMAIN imageTextures \cup {i}
          /\ f[i] = Textures!Signature(i)
          /\ \A j \in DOMAIN imageTextures \ {i} : f[j] = imageTextures[j]
      BY DEF Textures!With
    <3>2. f \in [DOMAIN f -> Measures]
      BY <2>0 DEF Textures!With
    <3>3. Textures!Becomes(i, "drawn", f)
      BY <2>3
    <3> HIDE DEF f
    <3> QED
      BY <2>0, <3>1, <3>2, <3>3, Became
  <2>4. ASSUME Textures!Becomes(i, "no texture",
                                Textures!Only(imageTextures, DOMAIN imageTextures \ {i}))
        PROVE  ImagesInv'
    BY <2>0, <2>4, Became DEF Textures!Only
  <2> QED
    BY <2>1, <2>2, <2>3, <2>4 DEF Textures!Uploads
<1> QED
  BY <1>1, <1>2, FrameStarted, ImageChanged DEF Textures!Next

LEMMA ImagesDrawn == ImagesInv => Textures!ImagesShown
  BY DEF ImagesInv, DrawnNow, RoomFound, Present, Textures!ImagesShown

-----------------------------------------------------------------------------
(* Colours: what each renderer makes of a cell *)

LookTyped ==
  /\ attrs \in Look!Attributes
  /\ {selected, hovered, scrolledAway} \subseteq BOOLEAN
  /\ cursorHere \in {"none", "block", "line", "block elsewhere"}

LEMMA LookTypedStart == PageInit => LookTyped
<1> SUFFICES ASSUME PageInit PROVE LookTyped
  OBVIOUS
<1>1. Look!Init
  BY DEF PageInit
<1> QED
  BY <1>1 DEF Look!Init, LookTyped, Look!Attributes, Look!Kinds

LEMMA LookTypedStep ==
  ASSUME LookTyped, [Look!Next]_(Look!vars)
  PROVE  LookTyped'
<1>1. CASE UNCHANGED Look!vars
  BY <1>1 DEF Look!vars, LookTyped
<1>2. CASE Look!Write
  BY <1>2 DEF Look!Write, LookTyped, Look!Attributes, Look!Kinds
<1>3. CASE Look!Select \/ Look!Hover \/ Look!Scroll
  BY <1>3 DEF Look!Select, Look!Hover, Look!Scroll, LookTyped
<1>4. CASE Look!MoveCursor \/ Look!PlaceImages
  BY <1>4 DEF Look!MoveCursor, Look!PlaceImages, LookTyped
<1> QED
  BY <1>1, <1>2, <1>3, <1>4 DEF Look!Next

(* What covers a cell hides what was there. *)
LEMMA FillHides ==
  \A p, q, c : Look!Fill(p, c) = Look!Fill(q, c)
  BY DEF Look!Fill, Look!Paint

(* The text of a cell on what is there, for all renderers. *)
Text(picture, at, color) ==
  IF Look!Invisible THEN picture ELSE Look!Lines(Look!Glyph(picture, at, color), at, color)

LEMMA CanvasText ==
  \A p, at, c : Look!renderCellText(p, at, c) = Text(p, at, c)
  BY DEF Look!renderCellText, Text, Look!Invisible

(* The shaders' colors are the canvas's, in a cell without the block cursor. *)
LEMMA SameColors ==
  ASSUME LookTyped, ~Look!ReverseOfDefault, cursorHere # "block"
  PROVE  /\ Look!TextColor = Look!Fg
         /\ \A p : Look!renderCellBackground(p) = Look!Background(p)
<1> USE DEF LookTyped, Look!Attributes, Look!ReverseOfDefault, Look!IsCursorCell
<1>1. Look!TextColor = Look!Fg
  BY DEF Look!TextColor, Look!Fg, Look!Own, Look!ThemeOr
<1>2. ASSUME NEW p
      PROVE  Look!renderCellBackground(p) = Look!Background(p)
  BY DEF Look!renderCellBackground, Look!Background, Look!Bg, Look!Ground, Look!ThemeOr
<1> QED
  BY <1>1, <1>2

LEMMA CursorColors ==
  ASSUME cursorHere = "block"
  PROVE  Look!Fg = "cursorFg" /\ Look!Bg = "cursorBg"
  BY DEF Look!Fg, Look!Bg, Look!Own, Look!Ground, Look!IsCursorCell

(* The background's pass on a cleared cell is the cell's background. *)
LEMMA GroundOfCleared ==
  ASSUME LookTyped, ~Look!ReverseOfDefault
  PROVE  \A p : Look!Background(Look!Cleared) = Look!Fill(p, Look!Bg)
<1> SUFFICES ASSUME NEW p PROVE Look!Background(Look!Cleared) = Look!Fill(p, Look!Bg)
  OBVIOUS
<1>1. CASE Look!Background(Look!Cleared) = Look!Cleared /\ Look!Bg = "defaultBg"
  BY <1>1, FillHides DEF Look!Cleared
<1>2. CASE Look!Background(Look!Cleared) = Look!Fill(Look!Cleared, Look!Bg)
  BY <1>2, FillHides
<1> QED
  BY <1>1, <1>2 DEF LookTyped, Look!Attributes, Look!ReverseOfDefault, Look!IsCursorCell,
     Look!Background, Look!Bg, Look!Ground, Look!ThemeOr

LEMMA SameText ==
  ASSUME LookTyped, ~Look!MarkedBlock
  PROVE  \A p, at, pass : Look!textFragmentGL(p, at, pass) = Look!textFragmentGPU(p, at, pass)
<1> SUFFICES ASSUME NEW p, NEW at, NEW pass, attrs.kind \in {"block", "shade"}
             PROVE  Look!Lines(Look!Glyph(Look!On(p, pass), at, Look!Fg), at, Look!Fg)
                      = Look!BlockElement(Look!On(p, pass), at)
  BY DEF Look!textFragmentGL, Look!textFragmentGPU
<1>1. ~attrs.faint /\ attrs.line = "none" /\ ~hovered
  BY DEF Look!MarkedBlock, Look!Unlined
<1>2. \A q, c : Look!Lines(q, at, c) = q
  BY <1>1 DEF Look!Lines
<1>3. \A q : Look!Glyph(q, at, Look!Fg) = Look!BlockElement(q, at)
  BY <1>1 DEF Look!Glyph, Look!BlockElement, Look!Fill, Look!InkColor, Look!Fade
<1> QED
  BY <1>2, <1>3

(* The layers of a frame with images, in the order in which all draw them. *)
Layered(at) ==
  LET J(picture, layer) == Look!kittyFragmentGL(picture, layer)
  IN J(Text(J(Look!Background(J(Look!Cleared, "layer 0")), "layer 1"), at, Look!Fg), "layer 2")

LEMMA TextOf ==
  /\ \A p, at : Look!textFragmentGL(p, at, "glyphs") = Text(p, at, Look!Fg)
  /\ \A p, at : Look!textFragmentGL(p, at, "combined") = Text(Look!Fill(p, Look!Bg), at, Look!Fg)
  /\ \A p, at : Look!textFragmentGL(p, at, "backgrounds") = Look!Background(p)
  /\ \A p, at : Look!textFragmentGL(p, at, "cursor") =
       IF cursorHere = "block" THEN Text(Look!Fill(p, Look!Bg), at, Look!Fg) ELSE p
  BY DEF Look!textFragmentGL, Text, Look!On, Look!IsCursorCell

LEMMA SameLayers ==
  \A p, l : /\ Look!kittyFragmentGL(p, l) = Look!kittyFragmentGPU(p, l)
            /\ Look!kittyFragmentGL(p, l) = Look!renderImageLayer(p, l)
  BY DEF Look!kittyFragmentGL, Look!kittyFragmentGPU, Look!renderImageLayer

LEMMA NoLayers ==
  ASSUME layers = {}
  PROVE  \A p, l : Look!kittyFragmentGL(p, l) = p
  BY DEF Look!kittyFragmentGL

(* Without images the shaders' passes give what one pass does. *)
LEMMA Unlayered ==
  ASSUME LookTyped, ~Look!ReverseOfDefault, layers = {}, NEW at
  PROVE  \A p : Layered(at) = Text(Look!Fill(p, Look!Bg), at, Look!Fg)
<1> SUFFICES ASSUME NEW p PROVE Layered(at) = Text(Look!Fill(p, Look!Bg), at, Look!Fg)
  OBVIOUS
<1>1. Layered(at) = Text(Look!Background(Look!Cleared), at, Look!Fg)
  <2>1. Look!kittyFragmentGL(Look!Cleared, "layer 0") = Look!Cleared
    BY NoLayers
  <2> DEFINE ground == Look!Background(Look!Cleared)
  <2>2. Look!kittyFragmentGL(ground, "layer 1") = ground
    BY NoLayers
  <2>3. Look!kittyFragmentGL(Text(ground, at, Look!Fg), "layer 2") = Text(ground, at, Look!Fg)
    BY NoLayers
  <2> QED
    BY <2>1, <2>2, <2>3, Zenon DEF Layered
<1> QED
  BY <1>1, GroundOfCleared, Zenon

(* WebGL and WebGPU in a common form. *)
Laid(at) ==
  LET text == IF Look!CursorPass THEN Look!textFragmentGL(Layered(at), at, "cursor")
              ELSE Layered(at)
  IN Look!cursorFragmentGL(text, at)

LEMMA GLShows ==
  ASSUME LookTyped, ~Look!ReverseOfDefault, NEW at
  PROVE  Look!WebGL(at) = Laid(at)
<1>1. CASE layers = {}
  <2>1. Look!WebGL(at)
          = Look!cursorFragmentGL(Text(Look!Fill(Look!Cleared, Look!Bg), at, Look!Fg), at)
    BY <1>1, NoLayers, TextOf, Zenon DEF Look!WebGL
  <2>2. Layered(at) = Text(Look!Fill(Look!Cleared, Look!Bg), at, Look!Fg)
    BY <1>1, Unlayered
  <2>3. Look!textFragmentGL(Layered(at), at, "cursor") = Layered(at)
    BY <1>1, Unlayered, TextOf
  <2> QED
    BY <2>1, <2>2, <2>3, Zenon DEF Laid
<1>2. CASE layers # {}
  BY <1>2, TextOf, Zenon DEF Look!WebGL, Laid, Layered
<1> QED
  BY <1>1, <1>2

LEMMA GPUShows ==
  ASSUME LookTyped, ~Look!MarkedBlock, NEW at
  PROVE  Look!WebGPU(at) = Laid(at)
<1>1. \A p : Look!cursorFragmentGPU(p, at) = Look!cursorFragmentGL(p, at)
  BY DEF Look!cursorFragmentGPU, Look!cursorFragmentGL
<1>2. \A p, pass : Look!textFragmentGPU(p, at, pass) = Look!textFragmentGL(p, at, pass)
  BY SameText
<1> DEFINE first == Look!kittyFragmentGL(Look!Cleared, "layer 0")
           second == Look!kittyFragmentGL(Look!Background(first), "layer 1")
<1>3. /\ Look!kittyFragmentGPU(Look!Cleared, "layer 0") = first
      /\ Look!textFragmentGPU(first, at, "backgrounds") = Look!Background(first)
      /\ Look!kittyFragmentGPU(Look!Background(first), "layer 1") = second
      /\ Look!textFragmentGPU(second, at, "glyphs") = Text(second, at, Look!Fg)
  <2> HIDE DEF first, second
  <2>1. Look!textFragmentGPU(first, at, "backgrounds") = Look!Background(first)
    BY <1>2, TextOf
  <2>2. Look!textFragmentGPU(second, at, "glyphs") = Text(second, at, Look!Fg)
    BY <1>2, TextOf
  <2> QED
    BY <2>1, <2>2, SameLayers DEF first, second
<1>4. Look!kittyFragmentGPU(Text(second, at, Look!Fg), "layer 2") = Layered(at)
  BY SameLayers, Zenon DEF Layered
<1>5. Look!textFragmentGPU(Layered(at), at, "cursor")
        = Look!textFragmentGL(Layered(at), at, "cursor")
  BY <1>2
<1> QED
  BY <1>1, <1>3, <1>4, <1>5, Zenon DEF Look!WebGPU, Laid

LEMMA CanvasShows ==
  ASSUME LookTyped, ~Look!ReverseOfDefault, ~Look!CursorScrolledAway, NEW at
  PROVE  Look!Canvas2D(at) = Laid(at)
<1> DEFINE line == Look!renderLine(at)
<1>1. cursorHere # "block" => line = Layered(at)
  <2> SUFFICES ASSUME cursorHere # "block" PROVE line = Layered(at)
    OBVIOUS
  <2> DEFINE first == Look!kittyFragmentGL(Look!Cleared, "layer 0")
             second == Look!kittyFragmentGL(Look!Background(first), "layer 1")
  <2>1. Look!renderImageLayer(Look!Cleared, "layer 0") = first
    BY SameLayers
  <2>2. Look!renderCellBackground(first) = Look!Background(first)
    BY SameColors
  <2>3. Look!renderImageLayer(Look!Background(first), "layer 1") = second
    BY SameLayers
  <2>4. Look!renderCellText(second, at, Look!TextColor) = Text(second, at, Look!Fg)
    BY SameColors, CanvasText
  <2>5. Look!renderImageLayer(Text(second, at, Look!Fg), "layer 2") = Layered(at)
    BY SameLayers, Zenon DEF Layered
  <2> QED
    BY <2>1, <2>2, <2>3, <2>4, <2>5, Zenon DEF Look!renderLine
<1>2. CASE cursorHere = "block"
  <2>1. ~scrolledAway /\ Look!CursorPass
    BY <1>2 DEF Look!CursorScrolledAway, Look!CursorPass
  <2>2. Look!Canvas2D(at) = Text(Look!Fill(line, "cursorBg"), at, "cursorFg")
    BY <1>2, <2>1, CanvasText DEF Look!Canvas2D, Look!renderCursor
  <2>3. Laid(at) = Look!textFragmentGL(Layered(at), at, "cursor")
    BY <1>2, <2>1 DEF Laid, Look!cursorFragmentGL
  <2>4. Laid(at) = Text(Look!Fill(Layered(at), "cursorBg"), at, "cursorFg")
    BY <1>2, <2>3, TextOf, CursorColors
  <2>5. Look!Fill(line, "cursorBg") = Look!Fill(Layered(at), "cursorBg")
    BY FillHides
  <2> QED
    BY <2>2, <2>4, <2>5, Zenon
<1>3. CASE cursorHere # "block"
  <2>1. line = Layered(at)
    BY <1>1, <1>3
  <2>2. Laid(at) = Look!cursorFragmentGL(Layered(at), at)
    BY <1>3, TextOf DEF Laid
  <2>3. Look!Canvas2D(at) = Look!cursorFragmentGL(line, at)
    BY <1>3 DEF Look!Canvas2D, Look!renderCursor, Look!cursorFragmentGL,
       Look!CursorScrolledAway
  <2> QED
    BY <2>1, <2>2, <2>3, Zenon
<1> QED
  BY <1>2, <1>3

LEMMA AllLookAlike == LookTyped => Look!LooksAlike
  BY GLShows, GPUShows, CanvasShows DEF Look!LooksAlike

-----------------------------------------------------------------------------
(* Shapes drawn instead of glyphs: blocks, shades and box-drawing lines *)

(* What the fonts leave of a cell beside the lines. *)
Roomy ==
  /\ width \in Nat /\ height \in Nat /\ stroke \in Nat
  /\ 3 * stroke < width - 1 /\ 3 * stroke < height - 1

ShapesTyped == char \in Shapes!Chars /\ Roomy

LEMMA FontsFit ==
  ASSUME NEW f \in Shapes!Fonts
  PROVE  /\ f.width \in Nat /\ f.height \in Nat /\ f.stroke \in Nat
         /\ 3 * f.stroke < f.width - 1 /\ 3 * f.stroke < f.height - 1
  BY FontsAssumption DEF Shapes!Fonts

LEMMA ShapesTypedStart == PageInit => ShapesTyped
<1> SUFFICES ASSUME PageInit PROVE ShapesTyped
  OBVIOUS
<1> DEFINE f == CHOOSE f \in Shapes!Fonts : TRUE
<1>1. f \in Shapes!Fonts
  BY FontsAssumption
<1>2. /\ char = [kind |-> "block", of |-> 0]
      /\ width = f.width /\ height = f.height /\ stroke = f.stroke
  BY DEF PageInit, Shapes!Init
<1>3. char \in Shapes!Chars
  BY <1>2 DEF Shapes!Chars
<1> HIDE DEF f
<1> QED
  BY <1>1, <1>2, <1>3, FontsFit DEF ShapesTyped, Roomy

LEMMA ShapesTypedStep ==
  ASSUME ShapesTyped, [Shapes!Next]_(Shapes!vars)
  PROVE  ShapesTyped'
<1>1. CASE UNCHANGED Shapes!vars
  BY <1>1 DEF Shapes!vars, ShapesTyped, Roomy
<1>2. CASE Shapes!PrintChar
  BY <1>2 DEF Shapes!PrintChar, ShapesTyped, Roomy
<1>3. CASE Shapes!SetFont
  BY <1>3, FontsFit DEF Shapes!SetFont, ShapesTyped, Roomy
<1> QED
  BY <1>1, <1>2, <1>3 DEF Shapes!Next

(* Rounding a share takes in the pixels whose center is before it. *)
LEMMA Rounded ==
  ASSUME NEW n \in Nat, NEW k \in Nat, NEW of \in 1 .. 7, (2 * k + 1) * 8 # 2 * of * n
  PROVE  k < Shapes!Round(n, of, 8) <=> Shapes!Before(k, of, n, 8)
<1>1. CASE of = 1
  BY <1>1 DEF Shapes!Round, Shapes!Before
<1>2. CASE of = 2
  BY <1>2 DEF Shapes!Round, Shapes!Before
<1>3. CASE of = 3
  BY <1>3 DEF Shapes!Round, Shapes!Before
<1>4. CASE of = 4
  BY <1>4 DEF Shapes!Round, Shapes!Before
<1>5. CASE of = 5
  BY <1>5 DEF Shapes!Round, Shapes!Before
<1>6. CASE of = 6
  BY <1>6 DEF Shapes!Round, Shapes!Before
<1>7. CASE of = 7
  BY <1>7 DEF Shapes!Round, Shapes!Before
<1> QED
  BY <1>1, <1>2, <1>3, <1>4, <1>5, <1>6, <1>7

LEMMA HalfRounded ==
  ASSUME NEW n \in Nat, NEW k \in Nat, (2 * k + 1) * 8 # 2 * 4 * n
  PROVE  k < Shapes!Round(n, 1, 2) <=> Shapes!Before(k, 1, n, 2)
  BY DEF Shapes!Round, Shapes!Before

(* A share from below is what the rest from above leaves. *)
LEMMA FromBelow ==
  ASSUME NEW n \in Nat, NEW k \in 0 .. n - 1, NEW i \in 1 .. 8,
         i # 8 => (2 * k + 1) * 8 # 2 * (8 - i) * n
  PROVE  k >= n - Shapes!Round(n, i, 8) <=> ~Shapes!Before(k, 8 - i, n, 8)
<1>1. CASE i = 1
  BY <1>1 DEF Shapes!Round, Shapes!Before
<1>2. CASE i = 2
  BY <1>2 DEF Shapes!Round, Shapes!Before
<1>3. CASE i = 3
  BY <1>3 DEF Shapes!Round, Shapes!Before
<1>4. CASE i = 4
  BY <1>4 DEF Shapes!Round, Shapes!Before
<1>5. CASE i = 5
  BY <1>5 DEF Shapes!Round, Shapes!Before
<1>6. CASE i = 6
  BY <1>6 DEF Shapes!Round, Shapes!Before
<1>7. CASE i = 7
  BY <1>7 DEF Shapes!Round, Shapes!Before
<1>8. CASE i = 8
  BY <1>8 DEF Shapes!Round, Shapes!Before
<1> QED
  BY <1>1, <1>2, <1>3, <1>4, <1>5, <1>6, <1>7, <1>8

LEMMA InHalfRect ==
  ASSUME NEW p \in Shapes!HalfPixels, NEW x \in Int, NEW y \in Int, NEW w \in Int, NEW h \in Int
  PROVE  p \in Shapes!HalfRect(x, y, w, h)
           <=> x <= p[1] /\ p[1] < x + w /\ y <= p[2] /\ p[2] < y + h
  BY DEF Shapes!HalfRect, Shapes!HalfPixels


LEMMA InRect ==
  ASSUME NEW p \in Shapes!Pixels, NEW x \in Int, NEW y \in Int, NEW w \in Int, NEW h \in Int
  PROVE  p \in Shapes!Rect(x, y, w, h)
           <=> x <= p[1] /\ p[1] < x + w /\ y <= p[2] /\ p[2] < y + h
  BY DEF Shapes!Rect, Shapes!Pixels

LEMMA OffBoundary ==
  ASSUME NEW p \in Shapes!Pixels, ~Shapes!OnBoundary(p), NEW n \in 1 .. 7
  PROVE  (2 * p[1] + 1) * 8 # 2 * n * width /\ (2 * p[2] + 1) * 8 # 2 * n * height
  BY DEF Shapes!OnBoundary

LEMMA InShare ==
  ASSUME Roomy, NEW p \in Shapes!Pixels, NEW r \in Int
  PROVE  /\ p \in Shapes!Rect(0, 0, width, r) <=> p[2] < r
         /\ p \in Shapes!Rect(0, height - r, width, r) <=> p[2] >= height - r
         /\ p \in Shapes!Rect(0, 0, r, height) <=> p[1] < r
         /\ p \in Shapes!Rect(r, 0, width - r, height) <=> ~(p[1] < r)
<1>1. /\ width \in Nat /\ height \in Nat
      /\ p[1] \in Nat /\ p[2] \in Nat /\ p[1] < width /\ p[2] < height
  BY DEF Roomy, Shapes!Pixels
<1> QED
  BY <1>1, InRect

LEMMA RoundIsInt ==
  ASSUME NEW n \in Nat
  PROVE  /\ Shapes!Round(n, 1, 2) \in Int
         /\ \A of \in 0 .. 8 : Shapes!Round(n, of, 8) \in Int
<1>1. Shapes!Round(n, 1, 2) \in Int
  BY DEF Shapes!Round
<1>2. ASSUME NEW of \in 0 .. 8 PROVE Shapes!Round(n, of, 8) \in Int
  <2>1. of \in {0, 1, 2, 3, 4, 5, 6, 7, 8}
    OBVIOUS
  <2> QED
    BY <2>1 DEF Shapes!Round
<1> QED
  BY <1>1, <1>2

LEMMA HalvesMeet ==
  ASSUME Roomy, NEW p \in Shapes!Pixels, ~Shapes!OnBoundary(p)
  PROVE  /\ p[1] \in Nat /\ p[2] \in Nat
         /\ p[1] < Shapes!Round(width, 1, 2) <=> Shapes!Before(p[1], 1, width, 2)
         /\ p[2] < Shapes!Round(height, 1, 2) <=> Shapes!Before(p[2], 1, height, 2)
<1>1. p[1] \in Nat /\ p[2] \in Nat /\ width \in Nat /\ height \in Nat
  BY DEF Roomy, Shapes!Pixels
<1>2. /\ (2 * p[1] + 1) * 8 # 2 * 4 * width
      /\ (2 * p[2] + 1) * 8 # 2 * 4 * height
  BY OffBoundary
<1> QED
  BY <1>1, <1>2, HalfRounded

(* The four quadrants of a cell. *)
LEMMA QuadrantsMeet ==
  ASSUME Roomy, NEW p \in Shapes!Pixels, ~Shapes!OnBoundary(p)
  PROVE  LET h == Shapes!Round(width, 1, 2)
             a == Shapes!Round(height, 1, 2)
             west == Shapes!Before(p[1], 1, width, 2)
             north == Shapes!Before(p[2], 1, height, 2)
         IN /\ p \in Shapes!Rect(0, 0, h, a) <=> west /\ north
            /\ p \in Shapes!Rect(h, 0, width - h, a) <=> ~west /\ north
            /\ p \in Shapes!Rect(0, a, h, height - a) <=> west /\ ~north
            /\ p \in Shapes!Rect(h, a, width - h, height - a) <=> ~west /\ ~north
<1> DEFINE h == Shapes!Round(width, 1, 2)
           a == Shapes!Round(height, 1, 2)
<1>0. /\ width \in Nat /\ height \in Nat
      /\ p[1] \in Nat /\ p[2] \in Nat /\ p[1] < width /\ p[2] < height
  BY DEF Roomy, Shapes!Pixels
<1>1. h \in Int /\ a \in Int
  BY <1>0, RoundIsInt
<1>2. /\ p[1] < h <=> Shapes!Before(p[1], 1, width, 2)
      /\ p[2] < a <=> Shapes!Before(p[2], 1, height, 2)
  BY HalvesMeet
<1> HIDE DEF h, a
<1>3. p \in Shapes!Rect(0, 0, h, a) <=> p[1] < h /\ p[2] < a
  BY <1>0, <1>1, InRect
<1>4. width - h \in Int /\ height - a \in Int
  BY <1>0, <1>1
<1>5. p \in Shapes!Rect(h, 0, width - h, a) <=> ~(p[1] < h) /\ p[2] < a
  <2>1. p \in Shapes!Rect(h, 0, width - h, a)
          <=> h <= p[1] /\ p[1] < h + (width - h) /\ 0 <= p[2] /\ p[2] < 0 + a
    BY <1>1, <1>4, InRect
  <2> QED
    BY <2>1, <1>0, <1>1
<1>6. p \in Shapes!Rect(0, a, h, height - a) <=> p[1] < h /\ ~(p[2] < a)
  <2>1. p \in Shapes!Rect(0, a, h, height - a)
          <=> 0 <= p[1] /\ p[1] < 0 + h /\ a <= p[2] /\ p[2] < a + (height - a)
    BY <1>1, <1>4, InRect
  <2> QED
    BY <2>1, <1>0, <1>1
<1>7. p \in Shapes!Rect(h, a, width - h, height - a) <=> ~(p[1] < h) /\ ~(p[2] < a)
  <2>1. p \in Shapes!Rect(h, a, width - h, height - a)
          <=> h <= p[1] /\ p[1] < h + (width - h) /\ a <= p[2] /\ p[2] < a + (height - a)
    BY <1>1, <1>4, InRect
  <2> QED
    BY <2>1, <1>0, <1>1
<1> QED
  BY <1>2, <1>3, <1>5, <1>6, <1>7 DEF h, a

LEMMA QuadrantBlocks ==
  ASSUME Roomy, NEW p \in Shapes!Pixels, ~Shapes!OnBoundary(p), NEW i \in 22 .. 31
  PROVE  p \in Shapes!renderBlockElement(i) <=> Shapes!drawBlockElement(i, p)
<1> DEFINE h == Shapes!Round(width, 1, 2)
           a == Shapes!Round(height, 1, 2)
           west == Shapes!Before(p[1], 1, width, 2)
           north == Shapes!Before(p[2], 1, height, 2)
           t == Shapes!Quadrants[i - 21]
<1>1. p \in Shapes!renderBlockElement(i)
        <=> \/ "tl" \in t /\ p \in Shapes!Rect(0, 0, h, a)
            \/ "tr" \in t /\ p \in Shapes!Rect(h, 0, width - h, a)
            \/ "bl" \in t /\ p \in Shapes!Rect(0, a, h, height - a)
            \/ "br" \in t /\ p \in Shapes!Rect(h, a, width - h, height - a)
  BY DEF Shapes!renderBlockElement
<1>2. p \in Shapes!renderBlockElement(i)
        <=> \/ "tl" \in t /\ west /\ north
            \/ "tr" \in t /\ ~west /\ north
            \/ "bl" \in t /\ west /\ ~north
            \/ "br" \in t /\ ~west /\ ~north
  <2> HIDE DEF t
  <2> QED
    BY <1>1, QuadrantsMeet
<1>3. CASE i = 22
  BY <1>2, <1>3 DEF Shapes!Quadrants, Shapes!drawBlockElement
<1>4. CASE i = 23
  BY <1>2, <1>4 DEF Shapes!Quadrants, Shapes!drawBlockElement
<1>5. CASE i = 24
  BY <1>2, <1>5 DEF Shapes!Quadrants, Shapes!drawBlockElement
<1>6. CASE i = 25
  BY <1>2, <1>6 DEF Shapes!Quadrants, Shapes!drawBlockElement
<1>7. CASE i = 26
  BY <1>2, <1>7 DEF Shapes!Quadrants, Shapes!drawBlockElement
<1>8. CASE i = 27
  BY <1>2, <1>8 DEF Shapes!Quadrants, Shapes!drawBlockElement
<1>9. CASE i = 28
  BY <1>2, <1>9 DEF Shapes!Quadrants, Shapes!drawBlockElement
<1>10. CASE i = 29
  BY <1>2, <1>10 DEF Shapes!Quadrants, Shapes!drawBlockElement
<1>11. CASE i = 30
  BY <1>2, <1>11 DEF Shapes!Quadrants, Shapes!drawBlockElement
<1>12. CASE i = 31
  BY <1>2, <1>12 DEF Shapes!Quadrants, Shapes!drawBlockElement
<1> QED
  BY <1>3, <1>4, <1>5, <1>6, <1>7, <1>8, <1>9, <1>10, <1>11, <1>12

(* What the canvas fills and the shader computes for the other blocks. *)
LEMMA ShareBlocks ==
  /\ Shapes!renderBlockElement(0) = Shapes!Rect(0, 0, width, Shapes!Round(height, 1, 2))
  /\ \A i \in 1 .. 8 : Shapes!renderBlockElement(i) =
       Shapes!Rect(0, height - Shapes!Round(height, i, 8), width, Shapes!Round(height, i, 8))
  /\ \A i \in 9 .. 15 : Shapes!renderBlockElement(i) =
       Shapes!Rect(0, 0, Shapes!Round(width, 16 - i, 8), height)
  /\ Shapes!renderBlockElement(16) =
       Shapes!Rect(Shapes!Round(width, 1, 2), 0, width - Shapes!Round(width, 1, 2), height)
  /\ \A i \in 17 .. 19 : Shapes!renderBlockElement(i) = Shapes!Pixels
  /\ Shapes!renderBlockElement(20) = Shapes!Rect(0, 0, width, Shapes!Round(height, 1, 8))
  /\ Shapes!renderBlockElement(21) =
       Shapes!Rect(Shapes!Round(width, 7, 8), 0, width - Shapes!Round(width, 7, 8), height)
  BY DEF Shapes!renderBlockElement

LEMMA ShareShaders ==
  ASSUME NEW p
  PROVE  /\ Shapes!drawBlockElement(0, p) <=> Shapes!Before(p[2], 1, height, 2)
         /\ \A i \in 1 .. 8 : Shapes!drawBlockElement(i, p)
              <=> ~Shapes!Before(p[2], 8 - i, height, 8)
         /\ \A i \in 9 .. 15 : Shapes!drawBlockElement(i, p)
              <=> Shapes!Before(p[1], 16 - i, width, 8)
         /\ Shapes!drawBlockElement(16, p) <=> ~Shapes!Before(p[1], 1, width, 2)
         /\ \A i \in 17 .. 19 : Shapes!drawBlockElement(i, p)
         /\ Shapes!drawBlockElement(20, p) <=> Shapes!Before(p[2], 1, height, 8)
         /\ Shapes!drawBlockElement(21, p) <=> ~Shapes!Before(p[1], 7, width, 8)
<1>1. /\ Shapes!drawBlockElement(0, p) <=> Shapes!Before(p[2], 1, height, 2)
      /\ Shapes!drawBlockElement(16, p) <=> ~Shapes!Before(p[1], 1, width, 2)
      /\ Shapes!drawBlockElement(20, p) <=> Shapes!Before(p[2], 1, height, 8)
      /\ Shapes!drawBlockElement(21, p) <=> ~Shapes!Before(p[1], 7, width, 8)
  BY DEF Shapes!drawBlockElement
<1>2. ASSUME NEW i \in 1 .. 8
      PROVE  Shapes!drawBlockElement(i, p) <=> ~Shapes!Before(p[2], 8 - i, height, 8)
  <2>1. /\ i # 0 /\ i \notin 9 .. 15 /\ i # 16 /\ i \notin 17 .. 19 /\ i # 20 /\ i # 21
        /\ i \notin {22, 23, 24, 25, 26, 27, 28, 29, 30, 31}
    OBVIOUS
  <2> QED
    BY <2>1, Zenon DEF Shapes!drawBlockElement
<1>3. ASSUME NEW i \in 9 .. 15
      PROVE  Shapes!drawBlockElement(i, p) <=> Shapes!Before(p[1], 16 - i, width, 8)
  <2>1. /\ i # 0 /\ i \notin 1 .. 8 /\ i # 16 /\ i \notin 17 .. 19 /\ i # 20 /\ i # 21
        /\ i \notin {22, 23, 24, 25, 26, 27, 28, 29, 30, 31}
    OBVIOUS
  <2> QED
    BY <2>1, Zenon DEF Shapes!drawBlockElement
<1>4. ASSUME NEW i \in 17 .. 19
      PROVE  Shapes!drawBlockElement(i, p)
  <2>1. /\ i # 0 /\ i \notin 1 .. 8 /\ i \notin 9 .. 15 /\ i # 16 /\ i # 20 /\ i # 21
        /\ i \notin {22, 23, 24, 25, 26, 27, 28, 29, 30, 31}
    OBVIOUS
  <2> QED
    BY <2>1, Zenon DEF Shapes!drawBlockElement
<1> QED
  BY <1>1, <1>2, <1>3, <1>4, Zenon

LEMMA BlocksMeet ==
  ASSUME Roomy, NEW p \in Shapes!Pixels, ~Shapes!OnBoundary(p), NEW i \in 0 .. 31
  PROVE  p \in Shapes!renderBlockElement(i) <=> Shapes!drawBlockElement(i, p)
<1>0. /\ width \in Nat /\ height \in Nat
      /\ p[1] \in 0 .. width - 1 /\ p[2] \in 0 .. height - 1
  BY DEF Roomy, Shapes!Pixels
<1>1. /\ Shapes!Round(height, 1, 2) \in Int /\ Shapes!Round(width, 1, 2) \in Int
      /\ \A of \in 0 .. 8 : /\ Shapes!Round(height, of, 8) \in Int
                            /\ Shapes!Round(width, of, 8) \in Int
  BY <1>0, RoundIsInt
<1>2. ASSUME NEW n \in 1 .. 7
      PROVE  /\ p[1] < Shapes!Round(width, n, 8) <=> Shapes!Before(p[1], n, width, 8)
             /\ p[2] < Shapes!Round(height, n, 8) <=> Shapes!Before(p[2], n, height, 8)
  <2>1. (2 * p[1] + 1) * 8 # 2 * n * width /\ (2 * p[2] + 1) * 8 # 2 * n * height
    BY OffBoundary
  <2>2. p[1] \in Nat /\ p[2] \in Nat
    BY <1>0
  <2> QED
    BY <1>0, <2>1, <2>2, Rounded, Zenon
<1>3. CASE i = 0
  BY <1>3, <1>1, InShare, HalvesMeet, ShareBlocks, ShareShaders
<1>4. CASE i \in 1 .. 8
  <2>0. Shapes!Round(height, i, 8) \in Int
    BY <1>4, <1>1
  <2>1. p \in Shapes!Rect(0, height - Shapes!Round(height, i, 8), width, Shapes!Round(height, i, 8))
          <=> p[2] >= height - Shapes!Round(height, i, 8)
    BY <2>0, InShare
  <2>2. i # 8 => (2 * p[2] + 1) * 8 # 2 * (8 - i) * height
    <3>1. i # 8 => 8 - i \in 1 .. 7
      BY <1>4
    <3> QED
      BY <3>1, OffBoundary
  <2>3. p[2] >= height - Shapes!Round(height, i, 8) <=> ~Shapes!Before(p[2], 8 - i, height, 8)
    BY <1>0, <1>4, <2>2, FromBelow
  <2> QED
    BY <1>4, <2>1, <2>3, ShareBlocks, ShareShaders
<1>5. CASE i \in 9 .. 15
  <2>0. 16 - i \in 1 .. 7 /\ Shapes!Round(width, 16 - i, 8) \in Int
    BY <1>5, <1>1
  <2>1. p \in Shapes!Rect(0, 0, Shapes!Round(width, 16 - i, 8), height)
          <=> p[1] < Shapes!Round(width, 16 - i, 8)
    BY <2>0, InShare
  <2>2. p[1] < Shapes!Round(width, 16 - i, 8) <=> Shapes!Before(p[1], 16 - i, width, 8)
    BY <1>2, <2>0
  <2> QED
    BY <1>5, <2>1, <2>2, ShareBlocks, ShareShaders
<1>6. CASE i = 16
  BY <1>6, <1>1, InShare, HalvesMeet, ShareBlocks, ShareShaders
<1>7. CASE i \in 17 .. 19
  BY <1>7, ShareBlocks, ShareShaders
<1>8. CASE i = 20
  <2>1. Shapes!Round(height, 1, 8) \in Int
    BY <1>1
  <2>2. p \in Shapes!Rect(0, 0, width, Shapes!Round(height, 1, 8))
          <=> p[2] < Shapes!Round(height, 1, 8)
    BY <2>1, InShare
  <2>3. p[2] < Shapes!Round(height, 1, 8) <=> Shapes!Before(p[2], 1, height, 8)
    BY <1>2
  <2> QED
    BY <1>8, <2>2, <2>3, ShareBlocks, ShareShaders
<1>9. CASE i = 21
  <2>1. Shapes!Round(width, 7, 8) \in Int
    BY <1>1
  <2>2. p \in Shapes!Rect(Shapes!Round(width, 7, 8), 0, width - Shapes!Round(width, 7, 8), height)
          <=> ~(p[1] < Shapes!Round(width, 7, 8))
    BY <2>1, InShare
  <2>3. p[1] < Shapes!Round(width, 7, 8) <=> Shapes!Before(p[1], 7, width, 8)
    BY <1>2
  <2> QED
    BY <1>9, <2>2, <2>3, ShareBlocks, ShareShaders
<1>10. CASE i \in 22 .. 31
  BY <1>10, QuadrantBlocks
<1> QED
  BY <1>3, <1>4, <1>5, <1>6, <1>7, <1>8, <1>9, <1>10

LEMMA Centers ==
  ASSUME NEW n \in Nat, NEW d \in Nat
  PROVE  /\ Shapes!Center(n, d) \in Int
         /\ n - 1 <= Shapes!Center(n, d) /\ Shapes!Center(n, d) <= n
         /\ Shapes!Center(n, 3 * d) = Shapes!Center(n, d)
  BY DEF Shapes!Center

LEMMA InSingleLine ==
  ASSUME Roomy, NEW p \in Shapes!HalfPixels, NEW a, NEW d \in Nat
  PROVE  LET w == Shapes!Center(width, d)
             s == Shapes!Center(height, d)
         IN p \in Shapes!SingleLine(a, d)
              <=> \/ "left" \in a /\ p[1] < w + d /\ s - d <= p[2] /\ p[2] < s + d
                  \/ "right" \in a /\ w - d <= p[1] /\ s - d <= p[2] /\ p[2] < s + d
                  \/ "up" \in a /\ w - d <= p[1] /\ p[1] < w + d /\ p[2] < s + d
                  \/ "down" \in a /\ w - d <= p[1] /\ p[1] < w + d /\ s - d <= p[2]
<1> DEFINE w == Shapes!Center(width, d)
           s == Shapes!Center(height, d)
<1>1. /\ width \in Nat /\ height \in Nat /\ w \in Int /\ s \in Int
      /\ p[1] \in 0 .. 2 * width - 1 /\ p[2] \in 0 .. 2 * height - 1
  BY Centers DEF Roomy, Shapes!HalfPixels
<1>2. p \in Shapes!SingleLine(a, d)
        <=> \/ "left" \in a /\ p \in Shapes!HalfRect(0, s - d, w + d, 2 * d)
            \/ "right" \in a /\ p \in Shapes!HalfRect(w - d, s - d, 2 * width - w + d, 2 * d)
            \/ "up" \in a /\ p \in Shapes!HalfRect(w - d, 0, 2 * d, s + d)
            \/ "down" \in a /\ p \in Shapes!HalfRect(w - d, s - d, 2 * d, 2 * height - s + d)
  BY DEF Shapes!SingleLine
<1> HIDE DEF w, s
<1>3. p \in Shapes!HalfRect(0, s - d, w + d, 2 * d)
        <=> p[1] < w + d /\ s - d <= p[2] /\ p[2] < s + d
  <2>1. p \in Shapes!HalfRect(0, s - d, w + d, 2 * d)
          <=> 0 <= p[1] /\ p[1] < 0 + (w + d) /\ (s - d) <= p[2] /\ p[2] < (s - d) + (2 * d)
    BY <1>1, InHalfRect
  <2> QED
    BY <1>1, <2>1
<1>4. p \in Shapes!HalfRect(w - d, s - d, 2 * width - w + d, 2 * d)
        <=> w - d <= p[1] /\ s - d <= p[2] /\ p[2] < s + d
  <2>1. p \in Shapes!HalfRect(w - d, s - d, 2 * width - w + d, 2 * d)
          <=> (w - d) <= p[1] /\ p[1] < (w - d) + (2 * width - w + d) /\ (s - d) <= p[2] /\ p[2] < (s - d) + (2 * d)
    BY <1>1, InHalfRect
  <2> QED
    BY <1>1, <2>1
<1>5. p \in Shapes!HalfRect(w - d, 0, 2 * d, s + d)
        <=> w - d <= p[1] /\ p[1] < w + d /\ p[2] < s + d
  <2>1. p \in Shapes!HalfRect(w - d, 0, 2 * d, s + d)
          <=> (w - d) <= p[1] /\ p[1] < (w - d) + (2 * d) /\ 0 <= p[2] /\ p[2] < 0 + (s + d)
    BY <1>1, InHalfRect
  <2> QED
    BY <1>1, <2>1
<1>6. p \in Shapes!HalfRect(w - d, s - d, 2 * d, 2 * height - s + d)
        <=> w - d <= p[1] /\ p[1] < w + d /\ s - d <= p[2]
  <2>1. p \in Shapes!HalfRect(w - d, s - d, 2 * d, 2 * height - s + d)
          <=> (w - d) <= p[1] /\ p[1] < (w - d) + (2 * d) /\ (s - d) <= p[2] /\ p[2] < (s - d) + (2 * height - s + d)
    BY <1>1, InHalfRect
  <2> QED
    BY <1>1, <2>1
<1> QED
  BY <1>2, <1>3, <1>4, <1>5, <1>6 DEF w, s

OfArm(a, x, rect) == IF x \in a THEN rect ELSE {}

(* One of the two lines of DoubleLine. *)
OneLine(a, m) ==
  LET o == stroke
      w == Shapes!Center(width, stroke)
      s == Shapes!Center(height, stroke)
      y == s + 2 * m * o
      x == w + 2 * m * o
      n == IF m < 0 THEN "up" \in a ELSE "down" \in a
      l == IF m < 0 THEN "left" \in a ELSE "right" \in a
      Left == IF "right" \in a /\ ~n THEN w ELSE w + (IF n THEN -2 * o ELSE 2 * o) + o
      Right == IF "left" \in a /\ ~n THEN w ELSE w + (IF n THEN 2 * o ELSE -2 * o) - o
      Up == IF "down" \in a /\ ~l THEN s ELSE s + (IF l THEN -2 * o ELSE 2 * o) + o
      Down == IF "up" \in a /\ ~l THEN s ELSE s + (IF l THEN 2 * o ELSE -2 * o) - o
  IN OfArm(a, "left", Shapes!HalfRect(0, y - o, Left, 2 * o))
       \cup OfArm(a, "right", Shapes!HalfRect(Right, y - o, 2 * width - Right, 2 * o))
       \cup OfArm(a, "up", Shapes!HalfRect(x - o, 0, 2 * o, Up))
       \cup OfArm(a, "down", Shapes!HalfRect(x - o, Down, 2 * o, 2 * height - Down))

LEMMA TwoLines ==
  ASSUME NEW a
  PROVE  Shapes!DoubleLine(a) = OneLine(a, -1) \cup OneLine(a, 1)
  BY Zenon DEF Shapes!DoubleLine, OneLine, OfArm

(* Where the line on the side m ends, and whether a pixel is on it. *)
LEMMA InOneLine ==
  ASSUME Roomy, NEW p \in Shapes!HalfPixels, NEW a, NEW m \in {-1, 1},
         NEW w, w = Shapes!Center(width, stroke), NEW s, s = Shapes!Center(height, stroke)
  PROVE
  LET n == IF m < 0 THEN "up" \in a ELSE "down" \in a
      l == IF m < 0 THEN "left" \in a ELSE "right" \in a
  IN p \in OneLine(a, m)
    <=> \/ /\ "left" \in a
           /\ p[1] < IF "right" \in a /\ ~n THEN w ELSE IF n THEN w - stroke ELSE w + 3 * stroke
           /\ s + 2 * m * stroke - stroke <= p[2] /\ p[2] < s + 2 * m * stroke + stroke
        \/ /\ "right" \in a
           /\ p[1] >= IF "left" \in a /\ ~n THEN w ELSE IF n THEN w + stroke ELSE w - 3 * stroke
           /\ s + 2 * m * stroke - stroke <= p[2] /\ p[2] < s + 2 * m * stroke + stroke
        \/ /\ "up" \in a
           /\ p[2] < IF "down" \in a /\ ~l THEN s ELSE IF l THEN s - stroke ELSE s + 3 * stroke
           /\ w + 2 * m * stroke - stroke <= p[1] /\ p[1] < w + 2 * m * stroke + stroke
        \/ /\ "down" \in a
           /\ p[2] >= IF "up" \in a /\ ~l THEN s ELSE IF l THEN s + stroke ELSE s - 3 * stroke
           /\ w + 2 * m * stroke - stroke <= p[1] /\ p[1] < w + 2 * m * stroke + stroke
<1> DEFINE o == stroke
           n == IF m < 0 THEN "up" \in a ELSE "down" \in a
           l == IF m < 0 THEN "left" \in a ELSE "right" \in a
           y == s + 2 * m * o
           x == w + 2 * m * o
           Left == IF "right" \in a /\ ~n THEN w ELSE w + (IF n THEN -2 * o ELSE 2 * o) + o
           Right == IF "left" \in a /\ ~n THEN w ELSE w + (IF n THEN 2 * o ELSE -2 * o) - o
           Up == IF "down" \in a /\ ~l THEN s ELSE s + (IF l THEN -2 * o ELSE 2 * o) + o
           Down == IF "up" \in a /\ ~l THEN s ELSE s + (IF l THEN 2 * o ELSE -2 * o) - o
<1>1. /\ width \in Nat /\ height \in Nat /\ w \in Int /\ s \in Int /\ o \in Nat /\ m \in Int
      /\ p[1] \in 0 .. 2 * width - 1 /\ p[2] \in 0 .. 2 * height - 1
  BY Centers DEF Roomy, Shapes!HalfPixels
<1>2. /\ x \in Int /\ y \in Int /\ Left \in Int /\ Right \in Int /\ Up \in Int /\ Down \in Int
      /\ y = s + 2 * m * stroke /\ x = w + 2 * m * stroke
      /\ Left = IF "right" \in a /\ ~n THEN w ELSE IF n THEN w - stroke ELSE w + 3 * stroke
      /\ Right = IF "left" \in a /\ ~n THEN w ELSE IF n THEN w + stroke ELSE w - 3 * stroke
      /\ Up = IF "down" \in a /\ ~l THEN s ELSE IF l THEN s - stroke ELSE s + 3 * stroke
      /\ Down = IF "up" \in a /\ ~l THEN s ELSE IF l THEN s + stroke ELSE s - 3 * stroke
  BY <1>1
<1>3. OneLine(a, m) =
        OfArm(a, "left", Shapes!HalfRect(0, y - o, Left, 2 * o))
          \cup OfArm(a, "right", Shapes!HalfRect(Right, y - o, 2 * width - Right, 2 * o))
          \cup OfArm(a, "up", Shapes!HalfRect(x - o, 0, 2 * o, Up))
          \cup OfArm(a, "down", Shapes!HalfRect(x - o, Down, 2 * o, 2 * height - Down))
  BY DEF OneLine
<1> HIDE DEF x, y, Left, Right, Up, Down
<1>4. /\ x \in Int /\ y \in Int /\ Left \in Int /\ Right \in Int /\ Up \in Int /\ Down \in Int
  BY <1>2
<1>5. p \in Shapes!HalfRect(0, y - o, Left, 2 * o)
        <=> p[1] < Left /\ y - o <= p[2] /\ p[2] < y + o
  <2>1. 0 \in Int /\ y - o \in Int /\ 2 * o \in Int
    BY <1>1, <1>4
  <2>2. p \in Shapes!HalfRect(0, y - o, Left, 2 * o)
          <=> 0 <= p[1] /\ p[1] < 0 + Left /\ y - o <= p[2] /\ p[2] < y - o + 2 * o
    BY <1>4, <2>1, InHalfRect, Zenon
  <2> QED
    BY <1>1, <1>4, <2>2
<1>6. p \in Shapes!HalfRect(Right, y - o, 2 * width - Right, 2 * o)
        <=> p[1] >= Right /\ y - o <= p[2] /\ p[2] < y + o
  <2>1. y - o \in Int /\ 2 * width - Right \in Int /\ 2 * o \in Int
    BY <1>1, <1>4
  <2>2. p \in Shapes!HalfRect(Right, y - o, 2 * width - Right, 2 * o)
          <=> /\ Right <= p[1] /\ p[1] < Right + (2 * width - Right)
              /\ y - o <= p[2] /\ p[2] < y - o + 2 * o
    BY <1>4, <2>1, InHalfRect, Zenon
  <2> QED
    BY <1>1, <1>4, <2>2
<1>7. p \in Shapes!HalfRect(x - o, 0, 2 * o, Up)
        <=> p[2] < Up /\ x - o <= p[1] /\ p[1] < x + o
  <2>1. 0 \in Int /\ x - o \in Int /\ 2 * o \in Int
    BY <1>1, <1>4
  <2>2. p \in Shapes!HalfRect(x - o, 0, 2 * o, Up)
          <=> x - o <= p[1] /\ p[1] < x - o + 2 * o /\ 0 <= p[2] /\ p[2] < 0 + Up
    BY <1>4, <2>1, InHalfRect, Zenon
  <2> QED
    BY <1>1, <1>4, <2>2
<1>8. p \in Shapes!HalfRect(x - o, Down, 2 * o, 2 * height - Down)
        <=> p[2] >= Down /\ x - o <= p[1] /\ p[1] < x + o
  <2>1. x - o \in Int /\ 2 * height - Down \in Int /\ 2 * o \in Int
    BY <1>1, <1>4
  <2>2. p \in Shapes!HalfRect(x - o, Down, 2 * o, 2 * height - Down)
          <=> /\ x - o <= p[1] /\ p[1] < x - o + 2 * o
              /\ Down <= p[2] /\ p[2] < Down + (2 * height - Down)
    BY <1>4, <2>1, InHalfRect, Zenon
  <2> QED
    BY <1>1, <1>4, <2>2
<1>9. p \in OneLine(a, m)
        <=> \/ "left" \in a /\ p[1] < Left /\ y - o <= p[2] /\ p[2] < y + o
            \/ "right" \in a /\ p[1] >= Right /\ y - o <= p[2] /\ p[2] < y + o
            \/ "up" \in a /\ p[2] < Up /\ x - o <= p[1] /\ p[1] < x + o
            \/ "down" \in a /\ p[2] >= Down /\ x - o <= p[1] /\ p[1] < x + o
  BY <1>3, <1>5, <1>6, <1>7, <1>8 DEF OfArm
<1> QED
  BY <1>1, <1>2, <1>9

(* A double line is what one of a single stroke leaves of one three strokes wide. *)
LEMMA DoubleIsHollow ==
  ASSUME Roomy, NEW a \in SUBSET Shapes!Arms, \E b, c \in a : b # c
  PROVE  Shapes!DoubleLine(a) = Shapes!SingleLine(a, 3 * stroke) \ Shapes!SingleLine(a, stroke)
<1> DEFINE w == Shapes!Center(width, stroke)
           s == Shapes!Center(height, stroke)
<1>1. /\ width \in Nat /\ height \in Nat /\ stroke \in Nat /\ 3 * stroke \in Nat
      /\ w \in Int /\ s \in Int
      /\ width - 1 <= w /\ w <= width /\ height - 1 <= s /\ s <= height
      /\ w = Shapes!Center(width, 3 * stroke) /\ s = Shapes!Center(height, 3 * stroke)
  BY Centers DEF Roomy
<1>2. Shapes!DoubleLine(a) \subseteq Shapes!HalfPixels
  BY TwoLines DEF OneLine, OfArm, Shapes!HalfRect
<1>3. Shapes!SingleLine(a, 3 * stroke) \subseteq Shapes!HalfPixels
  BY DEF Shapes!SingleLine, Shapes!HalfRect
<1>4. ASSUME NEW p \in Shapes!HalfPixels
      PROVE  p \in Shapes!DoubleLine(a)
               <=> p \in Shapes!SingleLine(a, 3 * stroke) /\ p \notin Shapes!SingleLine(a, stroke)
  <2> DEFINE o == stroke
             l == "left" \in a  r == "right" \in a  u == "up" \in a  d == "down" \in a
             X == p[1]  Y == p[2]
  <2>1. /\ X \in Int /\ Y \in Int /\ 0 <= X /\ X < 2 * width /\ 0 <= Y /\ Y < 2 * height
        /\ 3 * o < width - 1 /\ 3 * o < height - 1
    BY <1>1 DEF Roomy, Shapes!HalfPixels
  <2>2. p \in Shapes!SingleLine(a, o)
          <=> \/ l /\ X < w + o /\ s - o <= Y /\ Y < s + o
              \/ r /\ w - o <= X /\ s - o <= Y /\ Y < s + o
              \/ u /\ w - o <= X /\ X < w + o /\ Y < s + o
              \/ d /\ w - o <= X /\ X < w + o /\ s - o <= Y
    BY <1>1, InSingleLine
  <2>3. p \in Shapes!SingleLine(a, 3 * o)
          <=> \/ l /\ X < w + 3 * o /\ s - 3 * o <= Y /\ Y < s + 3 * o
              \/ r /\ w - 3 * o <= X /\ s - 3 * o <= Y /\ Y < s + 3 * o
              \/ u /\ w - 3 * o <= X /\ X < w + 3 * o /\ Y < s + 3 * o
              \/ d /\ w - 3 * o <= X /\ X < w + 3 * o /\ s - 3 * o <= Y
    BY <1>1, InSingleLine
  <2>4. p \in OneLine(a, -1)
          <=> \/ /\ l /\ X < IF r /\ ~u THEN w ELSE IF u THEN w - o ELSE w + 3 * o
                 /\ s - 3 * o <= Y /\ Y < s - o
              \/ /\ r /\ X >= IF l /\ ~u THEN w ELSE IF u THEN w + o ELSE w - 3 * o
                 /\ s - 3 * o <= Y /\ Y < s - o
              \/ /\ u /\ Y < IF d /\ ~l THEN s ELSE IF l THEN s - o ELSE s + 3 * o
                 /\ w - 3 * o <= X /\ X < w - o
              \/ /\ d /\ Y >= IF u /\ ~l THEN s ELSE IF l THEN s + o ELSE s - 3 * o
                 /\ w - 3 * o <= X /\ X < w - o
    <3> DEFINE m == -1
    <3>1. m \in {-1, 1} /\ m < 0
      OBVIOUS
    <3> HIDE DEF m, w, s
    <3>2. s + 2 * m * o - o = s - 3 * o /\ s + 2 * m * o + o = s - o
      BY <1>1 DEF m
    <3>3. w + 2 * m * o - o = w - 3 * o /\ w + 2 * m * o + o = w - o
      BY <1>1 DEF m
    <3>4. p \in OneLine(a, m)
            <=> \/ /\ l /\ X < IF r /\ ~u THEN w ELSE IF u THEN w - o ELSE w + 3 * o
                   /\ s + 2 * m * o - o <= Y /\ Y < s + 2 * m * o + o
                \/ /\ r /\ X >= IF l /\ ~u THEN w ELSE IF u THEN w + o ELSE w - 3 * o
                   /\ s + 2 * m * o - o <= Y /\ Y < s + 2 * m * o + o
                \/ /\ u /\ Y < IF d /\ ~l THEN s ELSE IF l THEN s - o ELSE s + 3 * o
                   /\ w + 2 * m * o - o <= X /\ X < w + 2 * m * o + o
                \/ /\ d /\ Y >= IF u /\ ~l THEN s ELSE IF l THEN s + o ELSE s - 3 * o
                   /\ w + 2 * m * o - o <= X /\ X < w + 2 * m * o + o
      <4>1. w = Shapes!Center(width, stroke) /\ s = Shapes!Center(height, stroke)
        BY DEF w, s
      <4> QED
        BY <3>1, <4>1, InOneLine
    <3>5. m = -1
      BY DEF m
    <3> QED
      BY <3>2, <3>3, <3>4, <3>5
  <2>5. p \in OneLine(a, 1)
          <=> \/ /\ l /\ X < IF r /\ ~d THEN w ELSE IF d THEN w - o ELSE w + 3 * o
                 /\ s + o <= Y /\ Y < s + 3 * o
              \/ /\ r /\ X >= IF l /\ ~d THEN w ELSE IF d THEN w + o ELSE w - 3 * o
                 /\ s + o <= Y /\ Y < s + 3 * o
              \/ /\ u /\ Y < IF d /\ ~r THEN s ELSE IF r THEN s - o ELSE s + 3 * o
                 /\ w + o <= X /\ X < w + 3 * o
              \/ /\ d /\ Y >= IF u /\ ~r THEN s ELSE IF r THEN s + o ELSE s - 3 * o
                 /\ w + o <= X /\ X < w + 3 * o
    <3> DEFINE m == 1
    <3>1. m \in {-1, 1} /\ ~(m < 0)
      OBVIOUS
    <3> HIDE DEF m, w, s
    <3>2. s + 2 * m * o - o = s + o /\ s + 2 * m * o + o = s + 3 * o
      BY <1>1 DEF m
    <3>3. w + 2 * m * o - o = w + o /\ w + 2 * m * o + o = w + 3 * o
      BY <1>1 DEF m
    <3>4. p \in OneLine(a, m)
            <=> \/ /\ l /\ X < IF r /\ ~d THEN w ELSE IF d THEN w - o ELSE w + 3 * o
                   /\ s + 2 * m * o - o <= Y /\ Y < s + 2 * m * o + o
                \/ /\ r /\ X >= IF l /\ ~d THEN w ELSE IF d THEN w + o ELSE w - 3 * o
                   /\ s + 2 * m * o - o <= Y /\ Y < s + 2 * m * o + o
                \/ /\ u /\ Y < IF d /\ ~r THEN s ELSE IF r THEN s - o ELSE s + 3 * o
                   /\ w + 2 * m * o - o <= X /\ X < w + 2 * m * o + o
                \/ /\ d /\ Y >= IF u /\ ~r THEN s ELSE IF r THEN s + o ELSE s - 3 * o
                   /\ w + 2 * m * o - o <= X /\ X < w + 2 * m * o + o
      <4>1. w = Shapes!Center(width, stroke) /\ s = Shapes!Center(height, stroke)
        BY DEF w, s
      <4> QED
        BY <3>1, <4>1, InOneLine
    <3>5. m = 1
      BY DEF m
    <3> QED
      BY <3>2, <3>3, <3>4, <3>5
  <2>6. (l /\ r) \/ (l /\ u) \/ (l /\ d) \/ (r /\ u) \/ (r /\ d) \/ (u /\ d)
    BY DEF Shapes!Arms
  <2>7. p \in Shapes!DoubleLine(a) <=> p \in OneLine(a, -1) \/ p \in OneLine(a, 1)
    BY TwoLines
  <2> HIDE DEF w, s, X, Y
  <2> QED
    BY <1>1, <2>1, <2>2, <2>3, <2>4, <2>5, <2>6, <2>7
<1> QED
  BY <1>2, <1>3, <1>4

(* Where an arm of one line meets the edge of the cell. *)
Middle(arm, d) ==
  IF arm \in {"left", "right"} THEN Shapes!Center(height, d) ELSE Shapes!Center(width, d)
InBand(arm, d, v) == Middle(arm, d) - d <= v /\ v < Middle(arm, d) + d
AtEdge(weight, arm, v) ==
  IF weight = 3 THEN InBand(arm, 3 * stroke, v) /\ ~InBand(arm, stroke, v)
  ELSE InBand(arm, Shapes!Thickness(weight), v)

LEMMA EdgeOfSingle ==
  ASSUME Roomy, NEW d \in Nat, d <= 3 * stroke, NEW a, NEW arm \in Shapes!Arms,
         NEW p \in Shapes!HalfPixels, p \in Shapes!Edge(arm)
  PROVE  p \in Shapes!SingleLine(a, d) <=> arm \in a /\ InBand(arm, d, Shapes!Across(arm, p))
<1> DEFINE w == Shapes!Center(width, d)
           s == Shapes!Center(height, d)
<1>0. /\ width \in Nat /\ height \in Nat /\ d < width - 1 /\ d < height - 1
      /\ p[1] \in 0 .. 2 * width - 1 /\ p[2] \in 0 .. 2 * height - 1
  BY DEF Roomy, Shapes!HalfPixels
<1>1. /\ w \in Int /\ width - 1 <= w /\ w <= width
      /\ s \in Int /\ height - 1 <= s /\ s <= height
  BY <1>0, Centers
<1>2. p \in Shapes!SingleLine(a, d)
        <=> \/ "left" \in a /\ p[1] < w + d /\ s - d <= p[2] /\ p[2] < s + d
            \/ "right" \in a /\ w - d <= p[1] /\ s - d <= p[2] /\ p[2] < s + d
            \/ "up" \in a /\ w - d <= p[1] /\ p[1] < w + d /\ p[2] < s + d
            \/ "down" \in a /\ w - d <= p[1] /\ p[1] < w + d /\ s - d <= p[2]
  BY InSingleLine
<1>3. /\ arm = "left" => p[1] = 0
      /\ arm = "right" => p[1] = 2 * width - 1
      /\ arm = "up" => p[2] = 0
      /\ arm = "down" => p[2] = 2 * height - 1
  BY DEF Shapes!Edge
<1>4. /\ arm \in {"left", "right"} => Shapes!Across(arm, p) = p[2] /\ Middle(arm, d) = s
      /\ arm \in {"up", "down"} => Shapes!Across(arm, p) = p[1] /\ Middle(arm, d) = w
  BY DEF Shapes!Across, Middle
<1> HIDE DEF w, s
<1>5. CASE arm = "left"
  BY <1>0, <1>1, <1>2, <1>3, <1>4, <1>5 DEF InBand
<1>6. CASE arm = "right"
  BY <1>0, <1>1, <1>2, <1>3, <1>4, <1>6 DEF InBand
<1>7. CASE arm = "up"
  BY <1>0, <1>1, <1>2, <1>3, <1>4, <1>7 DEF InBand
<1>8. CASE arm = "down"
  BY <1>0, <1>1, <1>2, <1>3, <1>4, <1>8 DEF InBand
<1> QED
  BY <1>5, <1>6, <1>7, <1>8 DEF Shapes!Arms

LEMMA BoxIsDrawn ==
  ASSUME Roomy, NEW box \in Shapes!BoxChars
  PROVE  Shapes!drawBoxDrawing(box) = Shapes!BoxDrawing(box)
  BY DoubleIsHollow DEF Shapes!drawBoxDrawing, Shapes!BoxDrawing, Shapes!BoxChars

LEMMA EdgeOfBox ==
  ASSUME Roomy, NEW box \in Shapes!BoxChars, NEW arm \in Shapes!Arms,
         NEW p \in Shapes!HalfPixels, p \in Shapes!Edge(arm)
  PROVE  p \in Shapes!drawBoxDrawing(box)
           <=> arm \in box.arms /\ AtEdge(box.weight, arm, Shapes!Across(arm, p))
<1>1. p \in Shapes!drawBoxDrawing(box) <=> p \in Shapes!BoxDrawing(box)
  BY BoxIsDrawn
<1>2. stroke \in Nat /\ 2 * stroke \in Nat /\ 3 * stroke \in Nat
      /\ stroke <= 3 * stroke /\ 2 * stroke <= 3 * stroke
  BY DEF Roomy
<1>3. CASE box.weight = 3
  BY <1>1, <1>2, <1>3, EdgeOfSingle DEF Shapes!BoxDrawing, AtEdge
<1>4. CASE box.weight # 3
  <2>1. /\ Shapes!Thickness(box.weight) \in Nat
        /\ Shapes!Thickness(box.weight) <= 3 * stroke
    BY <1>2 DEF Shapes!Thickness
  <2> QED
    BY <1>1, <1>4, <2>1, EdgeOfSingle DEF Shapes!BoxDrawing, AtEdge
<1> QED
  BY <1>3, <1>4

Side(arm) == IF arm \in {"left", "right"} THEN 2 * height ELSE 2 * width

LEMMA ProfileOfBox ==
  ASSUME Roomy, NEW box \in Shapes!BoxChars, NEW arm \in Shapes!Arms
  PROVE  Shapes!Profile(arm, Shapes!drawBoxDrawing(box))
           = IF arm \in box.arms THEN {v \in 0 .. Side(arm) - 1 : AtEdge(box.weight, arm, v)}
             ELSE {}
<1> DEFINE drawn == Shapes!drawBoxDrawing(box)
           seen == {v \in 0 .. Side(arm) - 1 : AtEdge(box.weight, arm, v)}
<1>0. width \in Nat /\ height \in Nat /\ width > 0 /\ height > 0
  BY DEF Roomy
<1>1. drawn \subseteq Shapes!HalfPixels
  BY BoxIsDrawn DEF Shapes!BoxDrawing, Shapes!SingleLine, Shapes!HalfRect
<1>2. ASSUME NEW p \in drawn \cap Shapes!Edge(arm)
      PROVE  arm \in box.arms /\ Shapes!Across(arm, p) \in seen
  <2>1. p \in Shapes!HalfPixels
    BY <1>1
  <2>2. arm \in box.arms /\ AtEdge(box.weight, arm, Shapes!Across(arm, p))
    BY <2>1, EdgeOfBox
  <2>3. Shapes!Across(arm, p) \in 0 .. Side(arm) - 1
    BY <2>1, <1>0 DEF Shapes!Across, Side, Shapes!HalfPixels
  <2> QED
    BY <2>2, <2>3
<1>3. ASSUME arm \in box.arms, NEW v \in seen
      PROVE  \E p \in drawn \cap Shapes!Edge(arm) : Shapes!Across(arm, p) = v
  <2> DEFINE p == CASE arm = "left" -> <<0, v>>
                    [] arm = "right" -> <<2 * width - 1, v>>
                    [] arm = "up" -> <<v, 0>>
                    [] arm = "down" -> <<v, 2 * height - 1>>
  <2>1. p \in Shapes!HalfPixels /\ p \in Shapes!Edge(arm) /\ Shapes!Across(arm, p) = v
    <3>1. CASE arm = "left"
      BY <1>0, <3>1 DEF Shapes!HalfPixels, Shapes!Edge, Shapes!Across, Side
    <3>2. CASE arm = "right"
      BY <1>0, <3>2 DEF Shapes!HalfPixels, Shapes!Edge, Shapes!Across, Side
    <3>3. CASE arm = "up"
      BY <1>0, <3>3 DEF Shapes!HalfPixels, Shapes!Edge, Shapes!Across, Side
    <3>4. CASE arm = "down"
      BY <1>0, <3>4 DEF Shapes!HalfPixels, Shapes!Edge, Shapes!Across, Side
    <3> QED
      BY <3>1, <3>2, <3>3, <3>4 DEF Shapes!Arms
  <2> HIDE DEF p
  <2>2. p \in drawn
    BY <1>3, <2>1, EdgeOfBox
  <2> QED
    BY <2>1, <2>2
<1>4. Shapes!Profile(arm, drawn) = {Shapes!Across(arm, p) : p \in drawn \cap Shapes!Edge(arm)}
  BY DEF Shapes!Profile
<1> HIDE DEF drawn, seen
<1>5. Shapes!Profile(arm, drawn) = IF arm \in box.arms THEN seen ELSE {}
  BY <1>2, <1>3, <1>4
<1> QED
  BY <1>5 DEF drawn, seen

LEMMA ShapesAllMeet == ShapesTyped => Shapes!ShapesMeet
<1> SUFFICES ASSUME ShapesTyped PROVE Shapes!ShapesMeet
  OBVIOUS
<1>0. Roomy /\ char \in Shapes!Chars
  BY DEF ShapesTyped
<1>1. CASE char.kind = "block"
  <2>1. char.of \in 0 .. 31
    BY <1>0, <1>1 DEF Shapes!Chars
  <2> QED
    BY <1>0, <1>1, <2>1, BlocksMeet DEF Shapes!ShapesMeet
<1>2. CASE char.kind # "block"
  <2> DEFINE box == char.of
             whole == [box EXCEPT !.arms = Shapes!Arms]
  <2>1. box \in Shapes!BoxChars
    BY <1>0, <1>2 DEF Shapes!Chars
  <2>2. whole \in Shapes!BoxChars /\ whole.arms = Shapes!Arms /\ whole.weight = box.weight
    BY <2>1 DEF Shapes!BoxChars, Shapes!Arms
  <2> HIDE DEF box, whole
  <2>3. ASSUME NEW arm \in Shapes!Arms
        PROVE  Shapes!Profile(arm, Shapes!drawBoxDrawing(box))
                 = IF arm \in box.arms
                   THEN Shapes!Profile(Shapes!Opposite(arm), Shapes!drawBoxDrawing(whole))
                   ELSE {}
    <3>1. Shapes!Opposite(arm) \in Shapes!Arms
      BY DEF Shapes!Opposite, Shapes!Arms
    <3>2. /\ Side(Shapes!Opposite(arm)) = Side(arm)
          /\ \A d : Middle(Shapes!Opposite(arm), d) = Middle(arm, d)
      BY DEF Shapes!Opposite, Shapes!Arms, Side, Middle
    <3>3. \A v : AtEdge(box.weight, Shapes!Opposite(arm), v) <=> AtEdge(box.weight, arm, v)
      BY <3>2 DEF AtEdge, InBand
    <3> DEFINE seen == {v \in 0 .. Side(arm) - 1 : AtEdge(box.weight, arm, v)}
    <3>4. Shapes!Profile(Shapes!Opposite(arm), Shapes!drawBoxDrawing(whole)) = seen
      BY <1>0, <2>2, <3>1, <3>2, <3>3, ProfileOfBox
    <3>5. Shapes!Profile(arm, Shapes!drawBoxDrawing(box)) = IF arm \in box.arms THEN seen ELSE {}
      BY <1>0, <2>1, ProfileOfBox
    <3> QED
      BY <3>4, <3>5
  <2>4. Shapes!drawBoxDrawing(box) = Shapes!BoxDrawing(box)
    BY <1>0, <2>1, BoxIsDrawn
  <2> QED
    BY <1>2, <2>3, <2>4, Zenon DEF Shapes!ShapesMeet, box, whole
<1> QED
  BY <1>1, <1>2

-----------------------------------------------------------------------------
(* Every cell *)

(* Whatever images a frame places, however they change and whatever the budget is:
   an image that was drawn is the image as it is now, and none is refused for want
   of room in a frame whose images all fit into the budget. *)
THEOREM ImagesKept == PageSpec => [](part = "images" => Textures!ImagesShown)
<1>1. ImagesInv /\ [PageNext]_pageVars => ImagesInv'
  BY ImagesInvStep, StepsOfParts
<1> QED
  BY ImagesInvStart, <1>1, ImagesDrawn, PTL DEF PageSpec

(* The three renderers make the same picture of a cell, whatever its attributes,
   its colors, the selection, the link under the pointer, the cursor on it and the
   images around it, but for what is known to differ. *)
THEOREM AlikeAlways == PageSpec => [](part = "look" => Look!LooksAlike)
<1>1. LookTyped /\ [PageNext]_pageVars => LookTyped'
  BY LookTypedStep, StepsOfParts
<1> QED
  BY LookTypedStart, <1>1, AllLookAlike, PTL DEF PageSpec

(* The canvas and the shaders fill the same pixels with a block, but for those on
   its boundary, and draw the same box lines; and a line leaves the cell where the
   line of the next cell enters it: at every width, height and stroke that leave
   room for a double line, rounding included. *)
THEOREM ShapesKept == PageSpec => [](part = "shapes" => Shapes!ShapesMeet)
<1>1. ShapesTyped /\ [PageNext]_pageVars => ShapesTyped'
  BY ShapesTypedStep, StepsOfParts
<1> QED
  BY ShapesTypedStart, <1>1, ShapesAllMeet, PTL DEF PageSpec

(* What a cell of the page shows is what the terminal holds for it, in each of the
   parts that draw it: the atlas' glyphs, the textures of images, the colors, the
   shapes and the settings. *)
THEOREM AllCellsDrawn == PageSpec => []CellsDrawn
BY GlyphsKept, ImagesKept, AlikeAlways, ShapesKept, SettingsDrawn, PTL DEF CellsDrawn

-----------------------------------------------------------------------------
(* The engine's memory *)

HeapProofs == INSTANCE EngineHeap_proofs

(* The methods of EngineHeap_proofs are those of the page. *)
LEMMA SameMethods ==
  /\ Heap!Init <=> HeapProofs!Init
  /\ Heap!Next <=> HeapProofs!Next
  /\ Heap!MemorySound <=> HeapProofs!MemorySound
  /\ Heap!vars = HeapProofs!vars
<1>1. /\ \A act, of : Heap!Step(act, of) = HeapProofs!Step(act, of)
      /\ \A e, steps : Heap!Ending(e, steps) = HeapProofs!Ending(e, steps)
      /\ \A p, q : Heap!Joined(p, q) = HeapProofs!Joined(p, q)
      /\ \A P, steps : Heap!Finally(P, steps) = HeapProofs!Finally(P, steps)
      /\ \A P, steps : Heap!Catch(P, steps) = HeapProofs!Catch(P, steps)
      /\ \A P : Heap!Caught(P) = HeapProofs!Caught(P)
  BY DEF Heap!Step, HeapProofs!Step, Heap!Ending, HeapProofs!Ending, Heap!Joined,
         HeapProofs!Joined, Heap!Finally, HeapProofs!Finally, Heap!Catch, HeapProofs!Catch,
         Heap!Caught, HeapProofs!Caught
<1>2. /\ \A P : Heap!Call(P) = HeapProofs!Call(P)
      /\ Heap!Handles = HeapProofs!Handles
      /\ Heap!CellSlots = HeapProofs!CellSlots
      /\ Heap!ImageParts = HeapProofs!ImageParts
      /\ (Heap!Init <=> HeapProofs!Init)
      /\ (Heap!Grows <=> HeapProofs!Grows)
  BY DEF Heap!Call, HeapProofs!Call, Heap!Handles, HeapProofs!Handles, Heap!CellSlots,
         HeapProofs!CellSlots, Heap!ImageParts, HeapProofs!ImageParts, Heap!Init,
         HeapProofs!Init, Heap!Grows, HeapProofs!Grows
<1>3. Heap!OfKeys = HeapProofs!OfKeys
  BY DEF Heap!OfKeys, HeapProofs!OfKeys
<1>4. /\ \A blocks : Heap!Get(blocks) = HeapProofs!Get(blocks)
      /\ \A blocks : Heap!Put(blocks) = HeapProofs!Put(blocks)
      /\ \A blocks : Heap!PutIfHeld(blocks) = HeapProofs!PutIfHeld(blocks)
      /\ \A handles : Heap!Engine(handles) = HeapProofs!Engine(handles)
      /\ \A handles : Heap!Field(handles) = HeapProofs!Field(handles)
      /\ \A view : Heap!Look(view) = HeapProofs!Look(view)
  BY <1>1
     DEF Heap!Get, HeapProofs!Get, Heap!Put, HeapProofs!Put, Heap!PutIfHeld,
         HeapProofs!PutIfHeld, Heap!Engine, HeapProofs!Engine, Heap!Field, HeapProofs!Field,
         Heap!Look, HeapProofs!Look
<1>5. /\ \A view : Heap!Use(view) = HeapProofs!Use(view)
      /\ \A o : Heap!Becomes(o) = HeapProofs!Becomes(o)
      /\ \A steps : Heap!On(steps) = HeapProofs!On(steps)
      /\ Heap!Return = HeapProofs!Return
      /\ Heap!Throw = HeapProofs!Throw
      /\ \A P, Q : Heap!##(P, Q) = HeapProofs!##(P, Q)
  BY <1>1
     DEF Heap!Use, HeapProofs!Use, Heap!Becomes, HeapProofs!Becomes, Heap!On, HeapProofs!On,
         Heap!Return, HeapProofs!Return, Heap!Throw, HeapProofs!Throw, Heap!##,
         HeapProofs!##
<1>6. /\ (Heap!StepsOn <=> HeapProofs!StepsOn)
      /\ (Heap!MemorySound <=> HeapProofs!MemorySound)
  BY <1>2, <1>3
     DEF Heap!StepsOn, HeapProofs!StepsOn, Heap!MemorySound, HeapProofs!MemorySound
<1>7. /\ Heap!Skip = HeapProofs!Skip
      /\ \A blocks, P : Heap!With(blocks, P) = HeapProofs!With(blocks, P)
      /\ Heap!cleanupOnConstructorFailure = HeapProofs!cleanupOnConstructorFailure
      /\ Heap!setColorOption = HeapProofs!setColorOption
      /\ Heap!setKittyImageStorageLimit = HeapProofs!setKittyImageStorageLimit
      /\ Heap!free = HeapProofs!free
  BY <1>1, <1>2, <1>4, <1>5
     DEF Heap!Skip, HeapProofs!Skip, Heap!With, HeapProofs!With,
         Heap!cleanupOnConstructorFailure, HeapProofs!cleanupOnConstructorFailure,
         Heap!setColorOption, HeapProofs!setColorOption, Heap!setKittyImageStorageLimit,
         HeapProofs!setKittyImageStorageLimit, Heap!free, HeapProofs!free
<1>8. /\ Heap!rsGet = HeapProofs!rsGet
      /\ Heap!tGet = HeapProofs!tGet
      /\ \A handles : Heap!populateHandle(handles) = HeapProofs!populateHandle(handles)
      /\ Heap!Grapheme = HeapProofs!Grapheme
      /\ Heap!writePty = HeapProofs!writePty
      /\ Heap!Handed = HeapProofs!Handed
  BY <1>4, <1>5
     DEF Heap!rsGet, HeapProofs!rsGet, Heap!tGet, HeapProofs!tGet, Heap!populateHandle,
         HeapProofs!populateHandle, Heap!Grapheme, HeapProofs!Grapheme, Heap!writePty,
         HeapProofs!writePty, Heap!Handed, HeapProofs!Handed
<1>9. /\ Heap!graphics = HeapProofs!graphics
      /\ Heap!scroll = HeapProofs!scroll
  BY <1>4, <1>5
     DEF Heap!graphics, HeapProofs!graphics, Heap!scroll, HeapProofs!scroll
<1>10. /\ \A P : Heap!Loop(P) = HeapProofs!Loop(P)
       /\ Heap!MayThrow = HeapProofs!MayThrow
       /\ Heap!MayReturn = HeapProofs!MayReturn
       /\ Heap!SetOption = HeapProofs!SetOption
       /\ Heap!applyConfig = HeapProofs!applyConfig
       /\ Heap!dispose = HeapProofs!dispose
  BY <1>4, <1>5, <1>7
     DEF Heap!Loop, HeapProofs!Loop, Heap!MayThrow, HeapProofs!MayThrow, Heap!MayReturn,
         HeapProofs!MayReturn, Heap!SetOption, HeapProofs!SetOption, Heap!applyConfig,
         HeapProofs!applyConfig, Heap!dispose, HeapProofs!dispose
<1>11. /\ Heap!getMode = HeapProofs!getMode
       /\ Heap!RowIterator = HeapProofs!RowIterator
       /\ Heap!RowCells = HeapProofs!RowCells
       /\ Heap!Cell = HeapProofs!Cell
  BY <1>4, <1>5, <1>7, <1>8
     DEF Heap!getMode, HeapProofs!getMode, Heap!RowIterator, HeapProofs!RowIterator,
         Heap!RowCells, HeapProofs!RowCells, Heap!Cell, HeapProofs!Cell
<1>12. /\ Heap!NewKeyEncoder = HeapProofs!NewKeyEncoder
       /\ Heap!encode = HeapProofs!encode
       /\ Heap!TerminalNew = HeapProofs!TerminalNew
       /\ Heap!installCallbacks = HeapProofs!installCallbacks
       /\ \A option : Heap!TerminalOption(option) = HeapProofs!TerminalOption(option)
       /\ \A handle : Heap!allocOpaqueOrFail(handle) = HeapProofs!allocOpaqueOrFail(handle)
  BY <1>1, <1>4, <1>5, <1>7, <1>10
     DEF Heap!NewKeyEncoder, HeapProofs!NewKeyEncoder, Heap!encode, HeapProofs!encode,
         Heap!TerminalNew, HeapProofs!TerminalNew, Heap!installCallbacks,
         HeapProofs!installCallbacks, Heap!TerminalOption, HeapProofs!TerminalOption,
         Heap!allocOpaqueOrFail, HeapProofs!allocOpaqueOrFail
<1>13. /\ Heap!update = HeapProofs!update
       /\ Heap!markClean = HeapProofs!markClean
       /\ \A P : Heap!GridRef(P) = HeapProofs!GridRef(P)
       /\ \A P : Heap!Text(P) = HeapProofs!Text(P)
       /\ Heap!programStatus = HeapProofs!programStatus
       /\ Heap!size = HeapProofs!size
  BY <1>4, <1>5, <1>7, <1>8, <1>10, <1>11
     DEF Heap!update, HeapProofs!update, Heap!markClean, HeapProofs!markClean, Heap!GridRef,
         HeapProofs!GridRef, Heap!Text, HeapProofs!Text, Heap!programStatus,
         HeapProofs!programStatus, Heap!size, HeapProofs!size
<1>14. /\ Heap!decodePng = HeapProofs!decodePng
       /\ Heap!readSharedMemory = HeapProofs!readSharedMemory
       /\ Heap!resize = HeapProofs!resize
       /\ Heap!setProgramStatusHandler = HeapProofs!setProgramStatusHandler
       /\ Heap!init = HeapProofs!init
       /\ Heap!getKittyGraphics = HeapProofs!getKittyGraphics
  BY <1>1, <1>4, <1>5, <1>7, <1>8, <1>10
     DEF Heap!decodePng, HeapProofs!decodePng, Heap!readSharedMemory,
         HeapProofs!readSharedMemory, Heap!resize, HeapProofs!resize,
         Heap!setProgramStatusHandler, HeapProofs!setProgramStatusHandler, Heap!init,
         HeapProofs!init, Heap!getKittyGraphics, HeapProofs!getKittyGraphics
<1>15. Heap!getKittyImagePixels = HeapProofs!getKittyImagePixels
  BY <1>4, <1>5, <1>7, <1>10
     DEF Heap!getKittyImagePixels, HeapProofs!getKittyImagePixels
<1>16. /\ Heap!Configure = HeapProofs!Configure
       /\ Heap!refreshRowMetaCache = HeapProofs!refreshRowMetaCache
       /\ Heap!getViewport = HeapProofs!getViewport
       /\ Heap!getGrapheme = HeapProofs!getGrapheme
       /\ Heap!readGridLine = HeapProofs!readGridLine
       /\ Heap!readHyperlinkUri = HeapProofs!readHyperlinkUri
  BY <1>2, <1>4, <1>5, <1>7, <1>10, <1>11, <1>12, <1>13
     DEF Heap!Configure, HeapProofs!Configure, Heap!refreshRowMetaCache,
         HeapProofs!refreshRowMetaCache, Heap!getViewport, HeapProofs!getViewport,
         Heap!getGrapheme, HeapProofs!getGrapheme, Heap!readGridLine,
         HeapProofs!readGridLine, Heap!readHyperlinkUri, HeapProofs!readHyperlinkUri
<1>17. /\ Heap!getScrollbackGrapheme = HeapProofs!getScrollbackGrapheme
       /\ Heap!Callback = HeapProofs!Callback
       /\ Heap!captureFrame = HeapProofs!captureFrame
       /\ Heap!pixels = HeapProofs!pixels
       /\ Heap!tick = HeapProofs!tick
       /\ Heap!OnEncoder = HeapProofs!OnEncoder
  BY <1>2, <1>4, <1>5, <1>7, <1>8, <1>9, <1>10, <1>12, <1>13, <1>14, <1>15
     DEF Heap!getScrollbackGrapheme, HeapProofs!getScrollbackGrapheme, Heap!Callback,
         HeapProofs!Callback, Heap!captureFrame, HeapProofs!captureFrame, Heap!pixels,
         HeapProofs!pixels, Heap!tick, HeapProofs!tick, Heap!OnEncoder, HeapProofs!OnEncoder
<1>18. /\ Heap!createTerminal = HeapProofs!createTerminal
       /\ Heap!write = HeapProofs!write
       /\ Heap!getFrame = HeapProofs!getFrame
  BY <1>1, <1>4, <1>5, <1>7, <1>9, <1>10, <1>12, <1>14, <1>16, <1>17
     DEF Heap!createTerminal, HeapProofs!createTerminal, Heap!write, HeapProofs!write,
         Heap!getFrame, HeapProofs!getFrame
<1>19. Heap!reset = HeapProofs!reset
  BY <1>5, <1>7, <1>18
     DEF Heap!reset, HeapProofs!reset
<1>20. Heap!OnTerminal = HeapProofs!OnTerminal
  BY <1>7, <1>8, <1>10, <1>11, <1>13, <1>14, <1>16, <1>17, <1>18, <1>19
     DEF Heap!OnTerminal, HeapProofs!OnTerminal
<1>21. Heap!Called <=> HeapProofs!Called
  BY <1>17, <1>18, <1>20
     DEF Heap!Called, HeapProofs!Called
<1>22. Heap!Next <=> HeapProofs!Next
  BY <1>6, <1>21
     DEF Heap!Next, HeapProofs!Next
<1>23. Heap!vars = HeapProofs!vars
  BY DEF Heap!vars, HeapProofs!vars
<1> QED
  BY <1>2, <1>6, <1>22, <1>23

(* Whatever is called and whatever fails, no path of the engine's wrapper frees a
   block twice or uses one that it has freed, none loses one, none reads through a
   view that is older than the memory, and none leaves anything allocated but the
   parts of a terminal that is live; but for the key encoder's blocks and its view,
   and until a method is called on an engine that a failed reset() has freed (see
   MemorySound). *)
THEOREM MemoryKept == PageSpec => [](part = "heap" => Heap!MemorySound)
<1>1. PageInit => HeapProofs!HeapInv
  BY SameMethods, HeapProofs!HeapStarts DEF PageInit
<1>2. HeapProofs!HeapInv /\ [PageNext]_pageVars => HeapProofs!HeapInv'
  <2> SUFFICES ASSUME HeapProofs!HeapInv, [PageNext]_pageVars PROVE HeapProofs!HeapInv'
    OBVIOUS
  <2>1. [Heap!Next]_(Heap!vars)
    BY StepsOfParts
  <2>2. HeapProofs!Next \/ UNCHANGED HeapProofs!vars
    <3>1. CASE Heap!Next  BY <3>1, SameMethods
    <3>2. CASE UNCHANGED Heap!vars  BY <3>2 DEF Heap!vars, HeapProofs!vars
    <3> QED  BY <2>1, <3>1, <3>2
  <2>3. [HeapProofs!Next]_(HeapProofs!vars)
    BY <2>2
  <2> QED
    BY <2>3, HeapProofs!HeapKept
<1>3. HeapProofs!HeapInv => Heap!MemorySound
  BY SameMethods, HeapProofs!HeapSound
<1> QED
  BY <1>1, <1>2, <1>3, PTL DEF PageSpec

(* Whoever is disposed of, replaced or fails gives back what it holds: a terminal
   its parts and listeners, the engine's wrapper its memory (with the exceptions of
   MemorySound: the key encoder, and what follows a failed reset()), a renderer all
   that its kind makes. *)
THEOREM AllGivenBack == PageSpec => []NothingLeft
BY NothingHeldBack, MemoryKept, SettingsDrawn, PTL DEF NothingLeft
================================================================================
