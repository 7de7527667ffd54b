------------------------------ MODULE Appearance ------------------------------
(***************************************************************************)
(* Font, cursor, pixel ratio and grid on their way from the options, the   *)
(* program and the window to a frame (ntwebterm.js).  The terminal tells   *)
(* its renderer, which measures, and the GPU renderers keep copies: glyphs *)
(* in an atlas, cells in a buffer, a canvas of so many pixels.  A renderer *)
(* that is lost gives way to another, which is made from the options.      *)
(*                                                                         *)
(* Each setting has two values.  A frame is drawn at once here; when it is *)
(* held back, and what else asks for one, is the subject of TerminalView;  *)
(* renderers that fail to initialize are that of PageLifecycle.            *)
(***************************************************************************)
EXTENDS Naturals

CONSTANT MaxChanges   \* of settings, the grid and the ratio

VARIABLES
  stage,        \* "new", "picking" (open() awaits its renderer), "open", "disposed"
  options,      \* [font, style, blink]
  ratio,        \* window.devicePixelRatio
  watched,      \* the ratio of which watchDpr wants to know when it changes
  program,      \* the cursor style that the program has set
  grid,         \* cols and rows, of the engine too
  backend,
  renderer,     \* [font, ratio, grid, style]
  blink,        \* cursorBlink_: [enabled, visible]
  copies,       \* what was made from it: [atlas, cells, capacity, canvas]
  made,         \* resources of GPUs that are to be destroyed
  invalid, asked,      \* invalidateNext; a frame is requested
  lastCursorStyle,     \* of the program at the last frame, or "undefined"
  shown,        \* what the last frame was drawn with
  styleSet,     \* history: the cursor style that was set last
  missed,       \* history: what has changed unnoticed
  changes       \* bounds them

vars == <<stage, options, ratio, watched, program, grid, backend, renderer, blink, copies,
          made, invalid, asked, lastCursorStyle, shown, styleSet, missed, changes>>

Styles == {"block", "bar"}
Grids == {1, 2}   \* by their number of cells

NoCopies == [atlas |-> 0, cells |-> 0, capacity |-> 0, canvas |-> <<0, 0, 0>>]

Init ==
  /\ stage = "new"
  /\ options = [font |-> 1, style |-> "block", blink |-> FALSE]
  /\ ratio = 1 /\ watched = 0 /\ program = "block" /\ grid = 1
  /\ backend \in {"canvas2d", "webgl", "webgpu"}
  /\ renderer = [font |-> 0, style |-> "block", ratio |-> 0, grid |-> 0]
  /\ blink = [enabled |-> FALSE, visible |-> TRUE]
  /\ copies = NoCopies /\ made = {}
  /\ invalid = FALSE /\ asked = FALSE /\ lastCursorStyle = "undefined"
  /\ shown = [atlas |-> 0, cells |-> 0, canvas |-> <<0, 0, 0>>, layout |-> <<0, 0, 0>>,
              style |-> "block", visible |-> FALSE]
  /\ styleSet = "block" /\ missed = {} /\ changes = 0

-----------------------------------------------------------------------------
(* The renderers *)

(* Made from the options as they were when it was asked for, and of the ratio now. *)
Asked == [font |-> options.font, style |-> options.style, ratio |-> ratio, grid |-> grid]
BlinkAsked == [enabled |-> options.blink, visible |-> TRUE]

setEnabled(enabled) ==
  IF blink.enabled = enabled THEN blink ELSE [enabled |-> enabled, visible |-> TRUE]

programsGL == {"text program", "cursor program", "image program"}
initializeGL == programsGL \cup {"palette", "grid uniforms", "image rects", "vertices"}

buffersGPU == {"palette", "grid uniforms", "image rects"}
pipelinesGPU == {"text pipelines", "cursor pipeline", "image pipeline"}
initializeGPU == buffersGPU \cup pipelinesGPU \cup {"device"}   \* which the renderer owns

Initialized(b) ==
  CASE b = "canvas2d" -> {}
    [] b = "webgl" -> initializeGL
    [] b = "webgpu" -> initializeGPU

(* The first resize makes the cells and the atlases, a frame the rest. *)
TexturesGL == {"glyph atlas", "image atlas", "image textures"}
TexturesGPU == {"glyph atlas", "image atlas", "image textures"}
RingGL == {"image parameters"}
RingGPU == {"image parameters"}

Parts(b) == IF b = "canvas2d" THEN {} ELSE {"cells", "glyph atlas", "image atlas"}
ImageParts(b) ==
  CASE b = "canvas2d" -> {}
    [] b = "webgl" -> RingGL \cup (TexturesGL \ Parts(b))
    [] b = "webgpu" -> RingGPU \cup (TexturesGPU \ Parts(b))

(* The size of a cell times that of the grid, in device pixels. *)
Canvas(r) == <<r.font, r.grid, r.ratio>>

resize2D(r, c) == [c EXCEPT !.canvas = Canvas(r)]

resizeGL(r, c) ==
  [atlas |-> r.font, cells |-> r.grid, capacity |-> r.grid, canvas |-> Canvas(r)]

(* Fault: a buffer that is too small is kept. *)
resizeKeepingBuffer(r, c) ==
  [atlas |-> r.font, cells |-> r.grid, canvas |-> Canvas(r),
   capacity |-> IF c.capacity = 0 THEN r.grid ELSE c.capacity]

(* The buffer is made anew when it has become too small. *)
resizeGPU(r, c) ==
  [atlas |-> r.font, cells |-> r.grid, canvas |-> Canvas(r),
   capacity |-> IF c.capacity < r.grid THEN r.grid ELSE c.capacity]

Resized(b, r, c) ==
  CASE b = "canvas2d" -> resize2D(r, c)
    [] b = "webgl" -> resizeGL(r, c)
    [] b = "webgpu" -> resizeGPU(r, c)

(* setFontSize, setFontFamily, remeasureFont *)
setFontGL(r, c) == [c EXCEPT !.atlas = r.font]
setFontGPU(r, c) == [c EXCEPT !.atlas = r.font]
FontSet(b, r, c) ==
  CASE b = "canvas2d" -> c
    [] b = "webgl" -> setFontGL(r, c)
    [] b = "webgpu" -> setFontGPU(r, c)

(* Fault: the parameters of images are kept. *)
destroyKeepingRing == made \ (initializeGL \cup TexturesGL \cup {"cells"})

destroyGL == made \ (initializeGL \cup TexturesGL \cup RingGL \cup {"cells"})

(* The pipelines go with the device. *)
destroyGPU ==
  LET left == made \ (buffersGPU \cup TexturesGPU \cup RingGPU \cup {"cells", "device"})
  IN IF "device" \in left THEN left ELSE left \ pipelinesGPU

Destroyed ==
  CASE backend = "canvas2d" -> made
    [] backend = "webgl" -> destroyGL
    [] backend = "webgpu" -> destroyGPU

(* What a shader knows of the layout, and what the 2D renderer computes itself. *)
uploadGridGL(r) == [layout |-> Canvas(r), style |-> r.style, visible |-> blink.visible]
uploadGridGPU(r) == [layout |-> Canvas(r), style |-> r.style, visible |-> blink.visible]

encodeCellsGL(c) == [atlas |-> c.atlas, cells |-> c.cells]
(* What does not fit into the buffer is not written. *)
encodeCellsGPU(c) ==
  [atlas |-> c.atlas, cells |-> IF c.capacity < c.cells THEN 0 ELSE c.cells]

(* renderFrame.  The 2D renderer resizes its canvas if need be.  There are images
   in every frame. *)
render2D(r) ==
  [canvas |-> Canvas(r), atlas |-> r.font, cells |-> r.grid, layout |-> Canvas(r),
   style |-> r.style, visible |-> blink.visible]
Seen(canvas, text, grids) ==
  [canvas |-> canvas, atlas |-> text.atlas, cells |-> text.cells,
   layout |-> grids.layout, style |-> grids.style, visible |-> grids.visible]
renderGL(r, c) == Seen(c.canvas, encodeCellsGL(c), uploadGridGL(r))
renderGPU(r, c) == Seen(c.canvas, encodeCellsGPU(c), uploadGridGPU(r))

Picture(b, r, c) ==
  CASE b = "canvas2d" -> render2D(r)
    [] b = "webgl" -> renderGL(r, c)
    [] b = "webgpu" -> renderGPU(r, c)

Draws(r, c, m) ==
  /\ shown' = Picture(backend, r, c)
  /\ made' = m \cup ImageParts(backend)

(* resize of renderer r, which has copies c, then a frame *)
ResizeAndDraw(r, c, m) ==
  /\ renderer' = r
  /\ copies' = Resized(backend, r, c)
  /\ Draws(r, Resized(backend, r, c), m) /\ invalid' = FALSE

-----------------------------------------------------------------------------
(* The terminal *)

open ==
  /\ stage = "new" /\ stage' = "picking"
  /\ renderer' = Asked /\ blink' = BlinkAsked
  /\ UNCHANGED <<options, ratio, watched, program, grid, backend, copies, made, invalid,
                 asked, lastCursorStyle, shown, styleSet, missed, changes>>

(* The renderer is made, and _finishOpen draws with it.  The style that the
   program has set by now is taken for known. *)
FinishOpen ==
  /\ stage = "picking" /\ stage' = "open"
  /\ ResizeAndDraw([renderer EXCEPT !.ratio = ratio], copies,
                   Initialized(backend) \cup Parts(backend))
  /\ lastCursorStyle' = program /\ watched' = ratio
  /\ missed' = missed \cup IF styleSet # renderer.style THEN {"style"} ELSE {}
  /\ UNCHANGED <<options, ratio, program, grid, backend, blink, asked, styleSet, changes>>

Change ==
  /\ stage \in {"new", "picking", "open"}
  /\ changes < MaxChanges /\ changes' = changes + 1

(* Before the terminal is open nobody looks at an option that changes. *)
Noticed(what) ==
  missed' = CASE stage = "picking" -> missed \cup what
              [] stage = "open" -> missed \ what
              [] OTHER -> missed

(* Fault: the canvas keeps its size. *)
FontChangedOnly(r) ==
  /\ renderer' = r
  /\ copies' = FontSet(backend, r, copies)
  /\ Draws(r, FontSet(backend, r, copies), made) /\ invalid' = FALSE

handleFontChange(r) == ResizeAndDraw(r, FontSet(backend, r, copies), made)

SetFont ==
  /\ Change /\ options' = [options EXCEPT !.font = 3 - @]
  /\ IF stage = "open"
     THEN handleFontChange([renderer EXCEPT !.font = options'.font]) /\ asked' = TRUE
     ELSE UNCHANGED <<renderer, copies, shown, invalid, made, asked>>
  /\ Noticed({"font"})
  /\ UNCHANGED <<stage, ratio, watched, program, grid, backend, blink, lastCursorStyle,
                 styleSet>>

setCursorStyle(style) ==
  /\ renderer' = [renderer EXCEPT !.style = style]
  /\ invalid' = TRUE /\ asked' = TRUE

(* Both are set when one is: a style of the program gives way to the option,
   unless the program has set it since the last frame. *)
SetCursor ==
  /\ Change
  /\ \/ \E s \in Styles \ {options.style} : options' = [options EXCEPT !.style = s]
     \/ options' = [options EXCEPT !.blink = ~@]
  /\ IF stage = "open"
     THEN setCursorStyle(options'.style) /\ blink' = setEnabled(options'.blink)
     ELSE UNCHANGED <<renderer, blink, invalid, asked>>
  /\ styleSet' = options'.style
  /\ IF stage = "open" /\ program # lastCursorStyle
     THEN missed' = (missed \ {"blink"}) \cup {"style"}
     ELSE Noticed({"style", "blink"})
  /\ UNCHANGED <<stage, ratio, watched, program, grid, backend, copies, made,
                 lastCursorStyle, shown>>

(* The interval of a cursor that blinks. *)
Blink ==
  /\ stage = "open" /\ blink.enabled
  /\ blink' = [blink EXCEPT !.visible = ~@] /\ asked' = TRUE
  /\ UNCHANGED <<stage, options, ratio, watched, program, grid, backend, renderer, copies,
                 made, invalid, lastCursorStyle, shown, styleSet, missed, changes>>

(* The style is taken at the next frame, if it is another than at the last one. *)
ProgramSetsStyle ==
  /\ Change /\ stage # "new" /\ program' \in Styles \ {program}
  /\ styleSet' = program'
  /\ asked' = (stage = "open")
  /\ missed' = (missed \ {"style"})
                 \cup IF program' = lastCursorStyle /\ renderer.style # program'
                      THEN {"style"} ELSE {}
  /\ UNCHANGED <<stage, options, ratio, watched, grid, backend, renderer, blink, copies,
                 made, invalid, lastCursorStyle, shown>>

Resize ==
  /\ Change /\ stage = "open" /\ grid' \in Grids \ {grid}
  /\ ResizeAndDraw([renderer EXCEPT !.grid = grid'], copies, made)
  /\ asked' = TRUE
  /\ UNCHANGED <<stage, options, ratio, watched, program, backend, blink,
                 lastCursorStyle, styleSet, missed>>

(* Browser zoom, or another display. *)
RatioChanges ==
  /\ Change /\ ratio' = 3 - ratio
  /\ UNCHANGED <<stage, options, watched, program, grid, backend, renderer, blink, copies,
                 made, invalid, asked, lastCursorStyle, shown, styleSet, missed>>

(* remeasureFont, handleFontChange, watchDpr *)
onDprChange ==
  /\ stage = "open" /\ ratio # watched
  /\ watched' = ratio
  /\ handleFontChange([renderer EXCEPT !.ratio = ratio])
  /\ missed' = missed \ {"ratio"}
  /\ UNCHANGED <<stage, options, ratio, program, grid, backend, blink, asked,
                 lastCursorStyle, styleSet, changes>>

renderTick ==
  /\ stage = "open" /\ asked
  /\ IF invalid \/ blink.visible # shown.visible
     THEN Draws(renderer, copies, made)
     ELSE UNCHANGED <<shown, made>>
  /\ lastCursorStyle' = program
  /\ IF program # lastCursorStyle
     THEN setCursorStyle(program)
     ELSE UNCHANGED renderer /\ invalid' = FALSE /\ asked' = FALSE
  /\ UNCHANGED <<stage, options, ratio, watched, program, grid, backend, blink, copies,
                 styleSet, missed, changes>>

(* The style of the next frames of a renderer that is made from the options. *)
NextStyle == IF program # lastCursorStyle THEN program ELSE options.style

(* The device or context is lost: another renderer, from the options.  The style
   of the program is forgotten if a frame has taken it. *)
Lost ==
  /\ stage = "open"
  /\ \/ backend = "webgpu" /\ backend' \in {"webgl", "canvas2d"}
     \/ backend = "webgl" /\ backend' = "canvas2d"
  /\ renderer' = Asked /\ blink' = BlinkAsked
  /\ copies' = Resized(backend', Asked, NoCopies)
  /\ made' = Destroyed \cup Initialized(backend') \cup Parts(backend')
  /\ invalid' = TRUE /\ asked' = TRUE
  /\ missed' = (missed \ {"font", "blink", "style"})
                \cup (IF styleSet # NextStyle THEN {"style"} ELSE {})
                \cup (IF ratio # watched THEN {"ratio"} ELSE {})
  /\ UNCHANGED <<stage, options, ratio, watched, program, grid, lastCursorStyle, shown,
                 styleSet, changes>>

dispose ==
  /\ stage = "open" /\ stage' = "disposed"
  /\ made' = Destroyed /\ asked' = FALSE
  /\ UNCHANGED <<options, ratio, watched, program, grid, backend, renderer, blink, copies,
                 invalid, lastCursorStyle, shown, styleSet, missed, changes>>

Next ==
  \/ open \/ FinishOpen \/ SetFont \/ SetCursor \/ Blink \/ ProgramSetsStyle \/ Resize
  \/ RatioChanges \/ onDprChange \/ renderTick \/ Lost \/ dispose

Spec == Init /\ [][Next]_vars

-----------------------------------------------------------------------------
(* When no frame is asked for and no event is under way, the canvas shows the
   font, the grid, the pixel ratio and the cursor as they are set, whichever
   backend draws and whatever it has copied: the glyphs are of the font, the
   cells of the grid, the pixels those of both at the ratio, and shaders know it.
   Known to be missed are options that change while open() awaits its renderer
   (10290 is reached only afterwards), styles of the cursor (what the program has
   set before the first frame or before a new renderer, what it sets back before
   a frame has seen the change, and an option that the next frame overtakes;
   10166), and a ratio that goes back before its event has come but not before a
   new renderer has read it (10322). *)
DrawnAsSet ==
  stage = "open" /\ ~asked /\ ratio = watched =>
    LET font == IF "font" \in missed THEN renderer.font ELSE options.font
        dpr == IF "ratio" \in missed THEN renderer.ratio ELSE ratio
    IN
    /\ shown.atlas = font /\ shown.cells = grid
    /\ shown.canvas = <<font, grid, dpr>> /\ shown.layout = shown.canvas
    /\ "style" \notin missed => shown.style = styleSet
    /\ "blink" \notin missed => blink.enabled = options.blink
    /\ shown.visible = blink.visible /\ (~blink.enabled => shown.visible)

(* A renderer that is replaced or disposed of gives back all that it has made. *)
GivesBack ==
  /\ stage = "disposed" => made = {}
  /\ stage = "open" =>
       made \subseteq Initialized(backend) \cup Parts(backend) \cup ImageParts(backend)
===============================================================================
