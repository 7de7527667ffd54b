------------------------------ MODULE EngineHeap ------------------------------
(***************************************************************************)
(* How the wrapper of the terminal engine (classes Zo, vo and pi of        *)
(* ntwebterm.js) uses the engine's memory, which JavaScript has to manage  *)
(* by hand: blocks that are allocated and freed, handles that are made and *)
(* given back, views of the memory that go stale when it grows, and        *)
(* callbacks from within a write.                                          *)
(*                                                                         *)
(* A method is the set of the paths through it, an alternative for each    *)
(* condition and each call that may fail; what it computes is left out.  A *)
(* view that is made for one read is left out too, it cannot go stale.     *)
(***************************************************************************)
EXTENDS Sequences

VARIABLES
  heap,     \* blocks and handles that have not been given back
  fresh,    \* views that were made since the memory last grew
  object,   \* the terminal's engine: "none", "live", "freed" (by a reset() that
            \* could not make another)
  misused,  \* a method has been called on an engine that reset() had freed
  running   \* what is left of the path that runs

vars == <<heap, fresh, object, misused, running>>

-----------------------------------------------------------------------------
(* Steps, each a sequence of one *)

Step(act, of) == <<[act |-> act, of |-> of]>>

Get(blocks) == Step("get", blocks)
Put(blocks) == Step("put", blocks)
PutIfHeld(blocks) == Step("put if held", blocks)
Engine(handles) == Step("engine", handles)   \* a call that may allocate
Field(handles) == Step("field", handles)     \* one that only reads or stores
Look(view) == Step("look", {view})
Use(view) == Step("use", {view})
Becomes(o) == Step("becomes", {o})

(* Paths: their steps, and whether the caller goes on after them *)

Ending(e, steps) == {[steps |-> steps, ends |-> e]}
On(steps) == Ending("on", steps)
Skip == On(<<>>)
Return == Ending("return", <<>>)
Throw == Ending("throw", <<>>)

Joined(p, q) == [steps |-> p.steps \o q.steps, ends |-> q.ends]

P ## Q ==
  {p \in P : p.ends # "on"} \cup
  {Joined(p, q) : p \in {r \in P : r.ends = "on"}, q \in Q}

Finally(P, steps) == {[p EXCEPT !.steps = @ \o steps] : p \in P}
Catch(P, steps) ==
  {IF p.ends = "throw" THEN [p EXCEPT !.steps = @ \o steps] ELSE p : p \in P}
Caught(P) == {IF p.ends = "throw" THEN [p EXCEPT !.ends = "return"] ELSE p : p \in P}
Call(P) == {IF p.ends = "return" THEN [p EXCEPT !.ends = "on"] ELSE p : p \in P}
Loop(P) == Skip \cup P \cup (P ## P)

MayThrow == Skip \cup Throw
MayReturn == Skip \cup Return
With(blocks, P) == On(Get(blocks)) ## Finally(P, Put(blocks))

-----------------------------------------------------------------------------
(* The key encoder.  open() makes one for each terminal. *)

NewKeyEncoder ==
  On(Get({"key slot"}) \o Engine({})) ## MayThrow
    ## On(Get({"encoder"}) \o Put({"key slot"}))

SetOption == With({"option"}, On(Engine({"encoder"})))

encode ==
  On(Get({"event slot"}) \o Engine({})) ## MayThrow
    ## On(Get({"event"}) \o Look("memory") \o Put({"event slot"}))
    ## (Skip \cup With({"text"}, On(Engine({"event"}))))
    ## On(Get({"bytes", "written"}) \o Engine({"encoder", "event"}))
    ## (Skip \cup Finally(Throw, Put({"bytes", "written", "event"})))
    ## On(Use("memory") \o Put({"bytes", "written", "event"}))

-----------------------------------------------------------------------------
(* The engine's terminal: construction and end *)

Handles == {"render", "rowIter", "rowCells"}

(* Fault: a constructor that fails keeps the terminal. *)
CleanupWithoutTerminal == PutIfHeld({"route"}) \o PutIfHeld(Handles)

cleanupOnConstructorFailure ==
  PutIfHeld({"route"}) \o PutIfHeld(Handles) \o Put({"terminal"})

TerminalNew ==
  MayThrow ## With({"slot"}, On(Engine({})) ## MayThrow ## On(Get({"terminal"})))

installCallbacks == On(Engine({})) ## MayThrow ## On(Get({"route"}) \o Engine({"terminal"}))

setColorOption ==
  On(Get({"color"}) \o Look("rgb") \o Use("rgb") \o Engine({"terminal"}) \o Put({"color"}))

applyConfig ==
  (Skip \cup setColorOption)
    ## (Skip \cup With({"palette"}, On(Field({"terminal"}) \o Look("colors")
                                       \o Use("colors") \o Engine({"terminal"}))))

setKittyImageStorageLimit ==
  On(Get({"limit"}) \o Look("limit") \o Use("limit")
     \o Engine({"terminal"}) \o Put({"limit"}))

TerminalOption(option) == With({option}, On(Engine({"terminal"})) ## MayThrow)

Configure ==
  installCallbacks ## (Skip \cup applyConfig)
    ## On(Engine({"terminal"})) ## MayThrow
    ## MayThrow ## TerminalOption("lines")
    ## TerminalOption("mode")
    ## setKittyImageStorageLimit
    ## MayThrow ## TerminalOption("medium")

(* A handle that cannot be made takes everything with it that has been made. *)
allocOpaqueOrFail(handle) ==
  Catch(MayThrow, cleanupOnConstructorFailure)
    ## With({"slot"}, Catch(On(Engine({})) ## MayThrow, cleanupOnConstructorFailure)
                        ## On(Get({handle})))

createTerminal ==
  TerminalNew ## Catch(Configure, cleanupOnConstructorFailure)
    ## allocOpaqueOrFail("render") ## allocOpaqueOrFail("rowIter")
    ## allocOpaqueOrFail("rowCells") ## On(Becomes("live"))

free ==
  On(PutIfHeld({"route"}) \o PutIfHeld(Handles)
     \o PutIfHeld({"image iterator", "image scratch"}) \o Put({"terminal"}))

(* reset() keeps the engine it has freed until it has another, which it may fail
   to make. *)
reset == free ## On(Becomes("freed")) ## createTerminal

dispose == free ## On(Becomes("none"))

-----------------------------------------------------------------------------
(* Reading *)

rsGet == On(Get({"out"}) \o Field({"render"}) \o Put({"out"}))
tGet == On(Get({"out"}) \o Field({"terminal"}) \o Put({"out"}))

getMode == With({"mode slot"}, On(Field({"terminal"})))

update == On(Engine({"render", "terminal"})) ## MayThrow ## rsGet

populateHandle(handles) == On(Get({"bound"}) \o Engine(handles) \o Put({"bound"}))
RowIterator == populateHandle({"render", "rowIter"})
RowCells == populateHandle({"rowIter", "rowCells"})

(* Fault: the flags are read through a view made before the loop's calls. *)
RowMetaWithOneView ==
  update ## RowIterator ## On(Look("row"))
    ## With({"dirty", "raw", "wrap"}, Loop(On(Field({"rowIter"}) \o Use("row"))))

refreshRowMetaCache ==
  update ## RowIterator
    ## With({"dirty", "raw", "wrap"}, Loop(On(Look("row") \o Field({"rowIter"}) \o Use("row"))))

markClean ==
  On(Get({"option value"}) \o Field({"render"}) \o Put({"option value"}))
    ## RowIterator
    ## On(Get({"row value"})) ## Loop(On(Field({"rowIter"}))) ## On(Put({"row value"}))

Grapheme == On(Field({"rowCells"}) \o Look("codepoints") \o Use("codepoints"))

Cell ==
  On(Field({"rowCells"}))
    ## (Skip \cup Grapheme \cup With({"long grapheme"}, Grapheme))
    ## On(Look("style") \o Use("style"))

CellSlots == {"length", "color", "dirty", "raw", "wrap", "style", "cell", "wide", "grapheme"}

getViewport ==
  update ## RowIterator
    ## With(CellSlots, Loop(On(Field({"rowIter"})) ## RowCells ## Loop(Cell)))

getGrapheme ==
  MayReturn ## update ## RowIterator ## On(Field({"rowIter"})) ## MayReturn
    ## RowCells ## MayReturn
    ## With({"length"}, On(Field({"rowCells"}))) ## MayReturn
    ## With({"grapheme"}, On(Field({"rowCells"}) \o Look("codepoints") \o Use("codepoints")))

(* A reference into the grid is good until the terminal changes. *)
GridRef(P) ==
  With({"point", "ref"}, On(Field({"terminal"})) ## MayReturn ## P)

readGridLine ==
  GridRef(With({"palette", "cell", "codepoint", "wide", "style"},
               Loop(On(Field({"ref"})) ## (Skip \cup On(Look("style") \o Use("style"))))))

(* The length first, then a block of that length. *)
Text(P) == With({"length"}, On(Field({"ref"})) ## MayReturn ## With({"text"}, P))

readHyperlinkUri ==
  GridRef(Text(On(Field({"ref"})) ## MayReturn ## On(Look("uri") \o Use("uri"))))
getScrollbackGrapheme ==
  GridRef(Text(On(Field({"ref"})) ## MayReturn ## On(Look("codepoints") \o Use("codepoints"))))

-----------------------------------------------------------------------------
(* Writing.  The engine calls back while it writes; the pixels that a callback
   allocates become the engine's when it answers 1. *)

writePty == On(Look("answer") \o Use("answer"))
programStatus == On(Look("report")) ## MayReturn ## On(Use("report"))
size == MayReturn ## On(Look("size") \o Use("size"))

Handed == On(Get({"pixels"})) ## On(Look("pixels") \o Use("pixels") \o Put({"pixels"}))

decodePng == Caught(MayThrow) ## MayReturn ## Handed

(* What is not handed over is freed. *)
readSharedMemory ==
  MayReturn ## (Handed \cup Ending("return", Get({"pixels"}) \o Put({"pixels"})))

Callback == Call(writePty \cup programStatus \cup size \cup decodePng \cup readSharedMemory)

write == With({"input"}, On(Engine({"terminal", "input"})) ## Loop(Callback)
                           ## On(Engine({"terminal", "input"})))

resize == MayReturn ## On(Engine({"terminal"}))
setCellPixelSize == resize
setProgramStatusHandler == On(Engine({"terminal"})) ## MayThrow

-----------------------------------------------------------------------------
(* Images (class pi).  What it allocates it keeps until the terminal is freed. *)

ImageParts == {"image scratch", "image iterator"}

init ==
  IF "image scratch" \in heap THEN Skip
  ELSE MayThrow ## On(Get({"image scratch"}) \o Engine({}))
         ## Catch(MayThrow, Put({"image scratch"})) ## On(Get({"image iterator"}))

graphics == On(Field({"terminal", "image scratch"}))
scroll == On(Look("scroll") \o Use("scroll") \o Engine({"terminal", "image scratch"}))

captureFrame ==
  graphics ## update ## On(Field({"render", "image scratch"}))
    ## (Skip \cup On(Engine({"render"} \cup ImageParts))
               ## Loop(On(Field(ImageParts) \o Look("placement") \o Use("placement"))))

getFrame ==
  init ## MayReturn
    ## (captureFrame \cup
        scroll ## scroll ## Finally(captureFrame,
             Engine({"terminal", "image scratch"}) \o Engine({"render", "terminal"})))

getKittyGraphics == With({"graphics"}, On(Field({"terminal"})) ## MayReturn)

(* The pixels that it returns are the engine's own, not yet a copy. *)
getKittyImagePixels ==
  MayReturn ## With({"pixel slot"}, On(Field({"terminal"})) ## MayReturn ## On(Look("image")))

(* Of a frame, which there is only after init(): the copy is made before the
   engine is called again. *)
pixels ==
  IF "image scratch" \in heap
  THEN graphics ## getKittyImagePixels ## On(Use("image")) ELSE {}

tick == init ## graphics ## MayReturn ## On(Engine({"terminal", "image scratch"})) ## graphics

-----------------------------------------------------------------------------
OnTerminal ==
  UNION {write, resize, setProgramStatusHandler, rsGet, tGet, getMode, update,
         refreshRowMetaCache, markClean, getViewport, getGrapheme, readGridLine,
         readHyperlinkUri, getScrollbackGrapheme, getFrame, pixels, tick,
         getKittyGraphics, setKittyImageStorageLimit, reset, dispose}

OnEncoder ==
  NewKeyEncoder \cup IF "encoder" \in heap THEN SetOption \cup encode ELSE {}

Init == heap = {} /\ fresh = {} /\ object = "none" /\ misused = FALSE /\ running = <<>>

(* The terminal goes on to use and to free an engine that a reset() has freed. *)
Called ==
  /\ running = <<>>
  /\ \E p \in IF object = "none" THEN createTerminal ELSE OnTerminal \cup OnEncoder :
       running' = p.steps
  /\ misused' = (misused \/ object = "freed")
  /\ fresh' = {}   \* views are local to a call
  /\ UNCHANGED <<heap, object>>

Grows == fresh' \in {fresh, {}}

(* A view whose memory has been replaced throws. *)
StepsOn ==
  /\ running # <<>>
  /\ LET act == Head(running).act
         of == Head(running).of
     IN
     /\ running' = IF act = "use" /\ ~(of \subseteq fresh) THEN <<>> ELSE Tail(running)
     /\ heap' = CASE act = "get" -> heap \cup of
                  [] act \in {"put", "put if held"} -> heap \ of
                  [] OTHER -> heap
     /\ CASE act \in {"get", "engine"} -> Grows
          [] act = "look" -> fresh' = fresh \cup of
          [] OTHER -> UNCHANGED fresh
     /\ object' = IF act = "becomes" THEN CHOOSE o \in of : TRUE ELSE object
     /\ UNCHANGED misused

Next == Called \/ StepsOn

Spec == Init /\ [][Next]_vars

-----------------------------------------------------------------------------
(* What encoding a key may leave behind: its slots and its event when the engine
   refuses or its view has gone stale (3391, 3405, 3420), and the encoder itself,
   which nobody disposes of (3423). *)
OfKeys == {"key slot", "encoder", "event slot", "event", "bytes", "written"}

(* No method frees a block twice or uses one that it has freed, takes a block
   and forgets the last one, or reads through a view that is older than the
   memory; and between calls, whatever has failed, nothing is allocated but the
   parts of a terminal that is live, all of them.

   Two things are excepted, in which the code does otherwise.  The key encoder
   leaves OfKeys behind, and it reads through a view made before it allocates
   (3406, 3420).  And all of it ends with the first method called after a reset()
   that has freed the engine and could not make another: the terminal still holds
   the freed one, uses it and, when it is disposed of, frees it again (10643-10645,
   3882, 10981). *)
MemorySound ==
  ~misused =>
    /\ running # <<>> =>
         LET act == Head(running).act
             of == Head(running).of
         IN
         /\ act = "get" => of \cap heap \subseteq OfKeys
         /\ act \in {"put", "engine", "field"} => of \subseteq heap
         /\ act = "use" => of \subseteq fresh \cup {"memory"}
    /\ running = <<>> =>
         IF object = "live"
         THEN /\ heap \ (OfKeys \cup ImageParts) = {"terminal", "route"} \cup Handles
              /\ heap \cap ImageParts \in {{}, ImageParts}
         ELSE heap \subseteq OfKeys
===============================================================================
