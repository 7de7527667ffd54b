----------------------------- MODULE PageLifecycle -----------------------------
(***************************************************************************)
(* A terminal of the page from init() to dispose() (booba.ts), through     *)
(* open() of ntwebterm.js, which waits for the engine, for fonts and for a *)
(* GPU and may be overtaken by dispose() each time; and what becomes of it *)
(* when the browser takes its GPU away: a new canvas with the next         *)
(* renderer of the list.                                                   *)
(*                                                                         *)
(* A canvas gives out one kind of context for its life.  The contents of   *)
(* the terminal and its connection are the subject of other modules.       *)
(***************************************************************************)
VARIABLES
  wanted,     \* options.renderer
  webgpu,     \* what the browser has: "none", "works", "late" (it fails when
              \* the canvas has its context), "dead" (a device that is lost)
  webgl,      \* "none", "works", "late"
  stage,      \* where init() is
  term,       \* this.term: "none", "live", "dropped" by dispose()
  isDisposed, \* of the terminal
  held,       \* what the terminal and the page have made and not given back
              \* (without the two listeners that nothing removes: 9902, 10420)
  canvas,     \* the kind of context the canvas has given out
  renderer,   \* its kind, "none", or "failed": destroyed and not replaced
  lost,       \* the browser has taken the renderer's GPU
  listening   \* a callback for that is registered

env == <<wanted, webgpu, webgl>>
drawing == <<canvas, renderer, lost, listening>>
vars == <<env, stage, term, isDisposed, held, drawing>>

Init ==
  /\ wanted \in {"auto", "webgpu", "webgl", "canvas2d"}
  /\ webgpu \in {"none", "works", "late", "dead"}
  /\ webgl \in {"none", "works", "late"}
  /\ stage = "start" /\ term = "none" /\ isDisposed = FALSE /\ held = {}
  /\ canvas = "none" /\ renderer = "none" /\ lost = FALSE /\ listening = FALSE

-----------------------------------------------------------------------------
(* Choosing a renderer.  A choice is the renderer that a fresh canvas is left
   with and the kind of context it has given out. *)

On(context, r) == [canvas |-> context, renderer |-> r]

WebGPU == CASE webgpu \in {"works", "dead"} -> On("webgpu", "webgpu")
            [] webgpu = "late" -> On("webgpu", "none")
            [] webgpu = "none" -> On("none", "none")

WebGL(context) ==
  CASE context # "none" \/ webgl = "none" -> On(context, "none")
    [] webgl = "works" -> On("webgl", "webgl")
    [] webgl = "late" -> On("webgl", "none")

Canvas2D(context) ==
  IF context = "none" THEN On("canvas2d", "canvas2d") ELSE On(context, "none")

(* pickRenderer.  "auto" goes on to the next with the canvas it has. *)
pickRenderer(kind) ==
  CASE kind = "canvas2d" -> Canvas2D("none")
    [] kind = "webgl" -> WebGL("none")
    [] kind = "webgpu" -> WebGPU
    [] kind = "auto" ->
         LET gl == WebGL(WebGPU.canvas) IN
         CASE WebGPU.renderer # "none" -> WebGPU
           [] WebGPU.renderer = "none" /\ gl.renderer # "none" -> gl
           [] OTHER -> Canvas2D(gl.canvas)

-----------------------------------------------------------------------------
(* init() *)

TerminalParts == {"engine", "canvas", "renderer", "input", "selection", "mouse", "dpr"}

NoDrawing ==
  canvas' = "none" /\ renderer' = "none" /\ lost' = FALSE /\ listening' = FALSE

cleanupComponents == held' = held \ (TerminalParts \ {"dpr"}) /\ NoDrawing

CallInit ==
  /\ stage = "start" /\ stage' = "loading"
  /\ UNCHANGED <<env, term, isDisposed, held, drawing>>

(* The terminal is made whatever has become of its owner meanwhile. *)
Loaded ==
  /\ stage = "loading" /\ stage' = "fonts"
  /\ term' = "live" /\ held' = {"addon"}
  /\ UNCHANGED <<env, isDisposed, drawing>>

(* Fault: a failure leaves what open() has made. *)
OpenFailsUncleaned == stage' = "failed" /\ UNCHANGED <<held, drawing>>

OpenFails == stage' = "failed" /\ cleanupComponents

FontsReady ==
  /\ stage = "fonts"
  /\ IF isDisposed THEN OpenFails
     ELSE /\ stage' = "picking" /\ held' = held \cup {"engine", "canvas"}
          /\ UNCHANGED drawing
  /\ UNCHANGED <<env, term, isDisposed>>

PageParts == {"observer", "window resize", "page dpr", "touch"}

(* _finishOpen and the rest of init().  For a terminal that has been disposed
   of it fails: the engine that its input handler asks for is gone. *)
Picked ==
  /\ stage = "picking"
  /\ LET choice == pickRenderer(wanted) IN
     IF choice.renderer = "none" \/ isDisposed THEN OpenFails
     ELSE /\ stage' = "running" /\ held' = held \cup TerminalParts \cup PageParts
          /\ canvas' = choice.canvas /\ renderer' = choice.renderer
          /\ lost' = (choice.renderer = "webgpu" /\ webgpu = "dead")
          /\ listening' = (choice.renderer \in {"webgpu", "webgl"} /\ ~lost')
  /\ UNCHANGED <<env, term, isDisposed>>

-----------------------------------------------------------------------------
(* The GPU goes. *)

LoseGpu ==
  /\ stage = "running" /\ ~isDisposed
  /\ renderer \in {"webgpu", "webgl"} /\ ~lost /\ lost' = TRUE
  /\ UNCHANGED <<env, stage, term, isDisposed, held, canvas, renderer, listening>>

(* The swap.  The old renderer and the old selection are gone first, the canvas
   is new, and the last resort is tried on the canvas of the one that failed.
   The swap has no wait in it that lets another event in between. *)
Replacement ==
  LET next == pickRenderer(IF renderer = "webgpu" THEN "webgl" ELSE "canvas2d") IN
  IF next.renderer # "none" THEN next ELSE Canvas2D(next.canvas)

(* Fault: the new renderer's own loss is not listened to. *)
SwapOnce ==
  /\ lost /\ listening /\ ~isDisposed
  /\ canvas' = Replacement.canvas /\ renderer' = Replacement.renderer
  /\ lost' = FALSE /\ listening' = FALSE
  /\ UNCHANGED <<env, stage, term, isDisposed, held>>

Swap ==
  /\ lost /\ listening /\ ~isDisposed
  /\ canvas' = Replacement.canvas /\ lost' = FALSE
  /\ IF Replacement.renderer = "none"
     THEN renderer' = "failed" /\ held' = held \ {"renderer", "selection"}
     ELSE renderer' = Replacement.renderer /\ UNCHANGED held
  /\ listening' = (renderer' = "webgl")
  /\ UNCHANGED <<env, stage, term, isDisposed>>

-----------------------------------------------------------------------------
(* dispose(), of the page's terminal and of the engine's.  It may be called at
   any time, also again. *)

DisposeTerm ==
  IF term = "live"
  THEN /\ isDisposed' = TRUE /\ term' = "dropped"
       /\ held' = held \ (TerminalParts \cup PageParts \cup {"addon"})
       /\ NoDrawing
  ELSE /\ held' = held \ PageParts
       /\ UNCHANGED <<isDisposed, term, drawing>>

Dispose == DisposeTerm /\ UNCHANGED <<env, stage>>

Next ==
  \/ CallInit \/ Loaded \/ FontsReady \/ Picked
  \/ LoseGpu \/ Swap
  \/ Dispose

Spec == Init /\ [][Next]_vars

-----------------------------------------------------------------------------
(* "Dispose the terminal and clean up all resources" (booba.ts:554), whichever
   wait of open() it overtakes: when that wait is over too, neither the engine's
   memory nor the GPU nor a listener is held; and an init() that fails leaves no
   part of a terminal.  Not so if init() is still waiting
   for the engine's code: there is no terminal yet to dispose of (Loaded). *)
NothingLeft ==
  /\ isDisposed /\ stage \in {"running", "failed"} => held = {} /\ renderer = "none"
  /\ stage = "failed" => held \cap TerminalParts = {}

(* A terminal that is open draws on a canvas of its renderer's kind, and a GPU
   that is lost, be it the second one, finds someone who listens and replaces
   it.  Not with a WebGL that takes the canvas and then fails, for then the canvas
   gives out no other context (9592, 10540), and not with a device that was lost
   before anyone listened (9234, 10518). *)
AlwaysDraws ==
  stage = "running" /\ ~isDisposed /\ webgl # "late" /\ webgpu # "dead" =>
    /\ renderer \in {"webgpu", "webgl", "canvas2d"} /\ canvas = renderer
    /\ renderer # "canvas2d" => listening
================================================================================
