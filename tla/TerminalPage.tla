----------------------------- MODULE TerminalPage -----------------------------
(***************************************************************************)
(* The terminal of the page.  What it shows and when (ContainerFit), how a *)
(* frame is painted (RowPainting, CellLook, CellShapes), what the GPU      *)
(* keeps for it (GlyphAtlas, ImageTextures), how images and settings reach *)
(* it (ImageFrames, Appearance), what a row's links are (Links), how it    *)
(* comes and goes (PageLifecycle) and how it uses the engine's memory      *)
(* (EngineHeap) meet in render() only and share no state that the          *)
(* properties tell apart, so a behaviour is about one of them.             *)
(***************************************************************************)
EXTENDS ContainerFit, FiniteSets

CONSTANTS LastRow, MaxHistory, MaxOutputs, MaxMoves,
          Glyphs, Wide, CellSizes, FirstSize, MaxSize, MaxCells, MaxResets,
          Images, Areas, Budget, MaxRevisions,
          Widths, Heights, Strokes,
          MaxChanges, MaxEvents,
          Pictures, Tall, MaxEpoch

ASSUME PageAssumption ==
  LastRow \in Nat /\ \A c \in CellSizes : c.w \in Nat /\ c.h \in Nat

ASSUME ImagesAssumption == IsFiniteSet(Images) /\ Areas \subseteq Nat /\ Budget \in Nat

VARIABLES
  part,  \* what the behaviour is about
  backend, buffer, dirty, full, cursor, scrolled, rowSelection, dragging,
  dirtySelection, autoScroll, last, invalid, rowCanvas, outputs, moves,
  cell, size, nextX, nextY, rowHeight, glyphSlots, texture, encoded, grown, resets,
  image, imageTextures, todo, result, resized,
  wanted, webgpu, webgl, stage, term, isDisposed, held, context, renderer, lost,
  listening,
  heap, fresh, object, misused, running,
  attrs, selected, hovered, cursorHere, scrolledAway, layers,
  char, width, height, stroke,
  opened, options, ratio, watched, program, grid, drawer, settings, blink, copies,
  made, invalidNext, asked, lastCursorStyle, shown, styleSet, missed, changes,
  linkText, scrolledBy, custom, linkCache, scanned, scans, pointer, throttled,
  pendingMove, hoveredLink, activated, changed, since, events,
  imageScreen, place, imageContent, imageHistory, imageDirty, engines, imageScrolled, epoch,
  lastKey, placementGeneration, placements, imageFrame, pixelCache, imageDrawer,
  painted, decoded, imageCanvas

Rows == INSTANCE RowPainting WITH selection <- rowSelection, canvas <- rowCanvas
Atlas == INSTANCE GlyphAtlas WITH cache <- glyphSlots
Textures == INSTANCE ImageTextures WITH cache <- imageTextures
Life == INSTANCE PageLifecycle WITH canvas <- context
Heap == INSTANCE EngineHeap
Look == INSTANCE CellLook WITH cursor <- cursorHere, scrolled <- scrolledAway, images <- layers
Shapes == INSTANCE CellShapes
ASSUME FontsAssumption == Widths \cup Heights \cup Strokes \subseteq Nat /\ Shapes!Fonts # {}
Appears == INSTANCE Appearance
  WITH stage <- opened, backend <- drawer, renderer <- settings, invalid <- invalidNext
InLinks == INSTANCE Links
  WITH text <- linkText, viewportY <- scrolledBy, cache <- linkCache,
       hovered <- hoveredLink
Framed == INSTANCE ImageFrames
  WITH screen <- imageScreen, content <- imageContent, history <- imageHistory,
       dirty <- imageDirty, resets <- engines, scrolled <- imageScrolled,
       frame <- imageFrame, drawer <- imageDrawer, canvas <- imageCanvas

rowVars == <<backend, buffer, dirty, full, cursor, scrolled, rowSelection, dragging,
             dirtySelection, autoScroll, last, invalid, rowCanvas, outputs, moves>>
glyphVars == <<cell, size, nextX, nextY, rowHeight, glyphSlots, texture, encoded, grown,
               resets>>
imageVars == <<image, imageTextures, todo, result, resized>>
lifeVars == <<wanted, webgpu, webgl, stage, term, isDisposed, held, context, renderer,
              lost, listening>>
heapVars == <<heap, fresh, object, misused, running>>
lookVars == <<attrs, selected, hovered, cursorHere, scrolledAway, layers>>
shapeVars == <<char, width, height, stroke>>
settingVars == <<opened, options, ratio, watched, program, grid, drawer, settings, blink,
                 copies, made, invalidNext, asked, lastCursorStyle, shown, styleSet, missed,
                 changes>>
linkVars == <<linkText, scrolledBy, custom, linkCache, scanned, scans, pointer, throttled,
              pendingMove, hoveredLink, activated, changed, since, events>>
frameVars == <<imageScreen, place, imageContent, imageHistory, imageDirty, engines,
               imageScrolled, epoch, lastKey, placementGeneration, placements, imageFrame,
               pixelCache, imageDrawer, painted, decoded, imageCanvas>>
pageVars == <<part, vars, rowVars, glyphVars, imageVars, lifeVars, heapVars, lookVars,
              shapeVars, settingVars, linkVars, frameVars>>

PageInit ==
  /\ part \in {"view", "rows", "glyphs", "images", "life", "heap", "look", "shapes",
              "settings", "links", "frames"}
  /\ Init /\ Rows!Init /\ Atlas!Init /\ Textures!Init /\ Life!Init
  /\ Heap!Init /\ Look!Init /\ Shapes!Init /\ Appears!Init /\ InLinks!Init
  /\ Framed!Init
  /\ part # "view" => scrollback = 0
  /\ part # "rows" => backend = "gpu"
  /\ part # "settings" => drawer = "canvas2d"
  /\ part # "frames" => imageDrawer = "gpu"
  /\ part # "links" => linkText[2] = "plain"
  /\ part # "glyphs" => cell = CHOOSE c \in CellSizes : TRUE
  /\ part # "images" => \A i \in Images : image[i].area = CHOOSE a \in Areas : TRUE
  /\ part # "life" => wanted = "auto" /\ webgpu = "none" /\ webgl = "none"

About(p, step, others) == part = p /\ step /\ UNCHANGED <<part, others>>

PageNext ==
  \/ About("view", Next,
           <<rowVars, glyphVars, imageVars, lifeVars, heapVars,
             lookVars, shapeVars, settingVars, linkVars, frameVars>>)
  \/ About("rows", Rows!Next,
           <<vars, glyphVars, imageVars, lifeVars, heapVars,
             lookVars, shapeVars, settingVars, linkVars, frameVars>>)
  \/ About("glyphs", Atlas!Next,
           <<vars, rowVars, imageVars, lifeVars, heapVars,
             lookVars, shapeVars, settingVars, linkVars, frameVars>>)
  \/ About("images", Textures!Next,
           <<vars, rowVars, glyphVars, lifeVars, heapVars,
             lookVars, shapeVars, settingVars, linkVars, frameVars>>)
  \/ About("life", Life!Next,
           <<vars, rowVars, glyphVars, imageVars, heapVars,
             lookVars, shapeVars, settingVars, linkVars, frameVars>>)
  \/ About("heap", Heap!Next,
           <<vars, rowVars, glyphVars, imageVars, lifeVars,
             lookVars, shapeVars, settingVars, linkVars, frameVars>>)
  \/ About("look", Look!Next,
           <<vars, rowVars, glyphVars, imageVars, lifeVars,
             heapVars, shapeVars, settingVars, linkVars, frameVars>>)
  \/ About("shapes", Shapes!Next,
           <<vars, rowVars, glyphVars, imageVars, lifeVars,
             heapVars, lookVars, settingVars, linkVars, frameVars>>)
  \/ About("settings", Appears!Next,
           <<vars, rowVars, glyphVars, imageVars, lifeVars,
             heapVars, lookVars, shapeVars, linkVars, frameVars>>)
  \/ About("links", InLinks!Next,
           <<vars, rowVars, glyphVars, imageVars, lifeVars,
             heapVars, lookVars, shapeVars, settingVars, frameVars>>)
  \/ About("frames", Framed!Next,
           <<vars, rowVars, glyphVars, imageVars, lifeVars,
             heapVars, lookVars, shapeVars, settingVars, linkVars>>)

(* What is fair in a behaviour about the view has nothing to do in the others. *)
PageSpec == PageInit /\ [][PageNext]_pageVars /\ Fairness
-----------------------------------------------------------------------------
(* What the modules promise, here for the page: a row that is not drawn again
   need not be (RowPainting, ImageFrames), and its links are known (Links); glyphs,
   images, attributes, the characters that the page draws itself and the settings
   are drawn as they are now and by every renderer (GlyphAtlas, ImageTextures,
   CellLook, CellShapes, Appearance); a terminal that is disposed of or fails
   to open and a renderer that is replaced leave nothing (PageLifecycle,
   EngineHeap with the two exceptions of its MemorySound, Appearance); and an open
   terminal always has a renderer that draws (PageLifecycle). *)
RowsCurrent ==
  /\ part = "rows" => Rows!RowsCurrent
  /\ part = "links" => InLinks!LinksCurrent
  /\ part = "frames" => Framed!ImagesCurrent
CellsDrawn ==
  /\ part = "glyphs" => Atlas!GlyphsShown
  /\ part = "images" => Textures!ImagesShown
  /\ part = "look" => Look!LooksAlike
  /\ part = "shapes" => Shapes!ShapesMeet
  /\ part = "settings" => Appears!DrawnAsSet
NothingLeft ==
  /\ part = "life" => Life!NothingLeft
  /\ part = "heap" => Heap!MemorySound
  /\ part = "settings" => Appears!GivesBack
AlwaysDraws == part = "life" => Life!AlwaysDraws
==============================================================================
