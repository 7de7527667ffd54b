# A verification of booba in TLA+

booba serves Bubble Tea programs, and other commands, to a terminal in a
browser. A Go server (`src/serve`) gives each connection a PTY and a program; a
TypeScript terminal (`src/ts`) connects to it over WebSocket or WebTransport, or
runs a program that was compiled to WASM in the page itself; its engine
(`src/serve/static/ntwebterm/ntwebterm.js`) interprets the output and paints it.
This directory models how those parts run together: the concurrency of the
server, the callbacks of the browser, the caches between a program's output and
the pixels. It checks the models with TLC and proves theorems about most of
them with TLAPS.

## The system

| Component | State it keeps | Operations | What makes it correct |
| --- | --- | --- | --- |
| Connect chain (`serve/connectchain.go`, `lift.go`, `builtins.go`) | the connection count | the installed middlewares, basic auth, connection limit, release | the count is the number of connections; the limit holds |
| Connection (`serve/server.go`, `handlers.go`) | the request, the transport, the goroutines of the handler | upgrade, first resize, session, the input and output goroutines, cleanup, drain, close | nothing is left behind; the end of the session is told to the client; a slot is freed |
| PTY session (`serve/pty.go`) | closed, done, workloadDone, the PTY, the sizes | Close, beginBubbleTea, applyResize, WindowSize | the PTY is valid while a program owns it; Close returns |
| Workload (`serve/bubbletea.go`, `command*.go`) | the program or the process | run, render, quit; start, wait, kill | it ends when the session ends |
| Resize pipeline (`serve/resize_throttle.go`, `pty.go`, `bubbletea.go`) | the pending size, the throttle, the queue to the program | apply, tick, stop, forward | the last size arrives; none is applied after the end |
| Idle timeout (`serve/builtins.go`) | a timer and a watcher per session | reset, fire | it closes the session as anyone may |
| Browser terminal (`ts/booba.ts`) | the adapter, the status, the actions on display, the parts of the page | init, connectWebSocket, connectAuto, connectWasm, disconnect, dispose, the callbacks | what it shows is so, whoever calls back when; dispose leaves nothing |
| Adapters (`ts/auto_adapter.ts`, `websocket_adapter.ts`, `webtransport_adapter.ts`) | sockets, timers, ping intervals, generations | connect, reconnect, fall back, disconnect | one connection per try; it does not try for ever |
| WASM bridge (`wasm/wasm.go`, `ts/adapter.ts`) | the program's output buffer, the functions on `window`, the poll interval | run, write, publishExit; connect, poll, handleExit, disconnect | output arrives once and in order, and so does the end |
| Terminal actions (`actions/publisher.go`, `actions/bubblehelp/model.go`, `ts/actions.ts`, `ts/action_status.ts`) | the latest snapshot and its revision, whether the terminal supports it; the snapshot on display, its owner, a generation | publish, refresh, clear; receive, capture, clear | a button is never of an older snapshot; the page comes to show what the program describes |
| Action host (`actions/termhost`) | the probe, the intercepted events, the hosted snapshot | Update, Write, Listen, the probe's timeout | only one side shows the actions, and one does |
| Statuses (`ts/terminal_sequences.ts`, `program_status_store.ts`, `status_bar.ts`) | the scanner's state, the records, the elements of the bar | write, report, input, reset, tick | the records are what the output means; the bar shows them |
| Output filters (`serve/kittygfx.go`, `middleware/osc52gate`, `ts/clipboard.ts`) | the words held back, the picture that is loading, the scanner's buffer | read, filter, scan | what the terminal understands is what the program meant, wherever the stream is cut |
| Touch and typed input (`ts/touch_input.ts`, the engine's `InputHandler`) | fingers, the queued drag, the last key, composition and paste | the DOM's handlers, the animation frame | reports are paired, nothing is sent twice or lost |
| Terminal engine (`ntwebterm.js`) | the terminal's contents and view, the canvas, the renderers' caches, the engine's memory | write, render, scroll, select, resize, settings, open, dispose, renderer swap | the canvas shows what the terminal holds, on any renderer and whatever is cached |
| Not modelled | | | sip framing, Go client, metrics, logging and recovery, identity and configuration, key tables, styles, assets |

How they interact: the handler of a request passes the connect chain, upgrades,
waits for the first Resize, creates the session (wrapped by the session
middlewares), starts the workload and the two transport goroutines in
goroutines of their own, and waits. All of them share the session and end it
through `Close`, which is idempotent and concurrent. The client sees frames
only; its terminal learns of the end from MsgClose, then from the transport. A
program's actions and statuses travel in its output, as control sequences that
the page's terminal answers or hands on. In the browser everything is a
callback; an adapter that has been replaced still has its callbacks registered.
The engine paints on demand: an event asks for a frame, the frame compares the
terminal with what it drew last, and each cache on the way decides by a key, a
revision or a flag whether what it holds is still right.

What is hard there: the order of the closers; a program that holds the PTY while
another goroutine wants to close it, and is blocked in a write to it; a
transport whose two halves end separately, and whose close discards what has
not been read; a step that fails after another has taken something; selects and
a compare-and-swap; timers and fetches whose owners have gone; events that
browsers report twice; sequences cut anywhere; caches that must notice a change;
waits that dispose() overtakes; memory that moves while a view of it is held.
`PROJECT.json` lists these hazards at their lines with the properties that cover
them.

## The modules

| Module | Models | Its actions |
| --- | --- | --- |
| `SessionContract` | what a session promises its owner: acquired only while open, invalidated only when it is free | `Acquire`, `Release`, `Close`, `Invalidate` |
| `PtySession` | `ptySession.Close` and `beginBubbleTea`, step by step, for any set of closers and owners, and `runBubbleTea` | `CloseEnter`...`ClosePty` are the statements of `Close`; `BeginBubbleTea`, `Render`, `Flush`, `Quit`, `Restore`, `Release` are the program; `ReadPty` and `Drain` empty the PTY |
| `Connection` | `handleWS` and `handleWT` from the upgrade to the return, both transport goroutines, cleanup, workload, idle watcher, client | one action per blocking point of a goroutine. It INSTANCEs `PtySession` (as `S`) and takes its actions for the steps inside `Close` and the program |
| `ConnectionSlots` | the limit: a set of holders, no more than there are slots | `Take`, `Give` |
| `Admission` | the connect chain and the compare-and-swap of `tryAcquireConnection` | `Arrive`, `OuterCallsNext`, `Load`, `Swap`, `Refuse`, `Approve`, `OuterFailsLate`, `Leave`, ... |
| `ResizePipeline` | `newResizeApplier`, `applyResize`, `forwardResizeEvents` | one action per select, lock and ioctl |
| `WebSocketAdapter` | `BoobaProtocolAdapter` | methods as operators on the adapter's state; `OnOpen`, `OnMsgClose`, `OnClose`, `OnTimer` are its callbacks |
| `WebTransportAdapter` | `BoobaWebTransportAdapter` | the same; `OnReady`, `OnStream`, `OnFail` are the continuations of `connect` |
| `BrowserTerminal` | `BoobaTerminal` and `BoobaAutoAdapter` over instances of the two | `ConnectWebSocket`, `ConnectAuto`, `Disconnect`, `FetchOk`, `FetchFails`, `TransportFails`, and the callbacks with what the terminal does in them |
| `ActionChannel` | the program's `bubblehelp.Model` with its `Publisher`, Bubble Tea's commands and renderer, `ActionStatusBridge` and `ActionController` | `Change`, `SwitchScreen`, `Supported` are `Update`; `Execute` and `Tick` are Bubble Tea; `Deliver` is the page's parser; `Capture`, `Reset`, `Lose`, `Reconnect` |
| `ActionHost` | the same program, as it is or wrapped by `termhost` | `Render` and `Write` are the Writer, `Listen`, `Drain`, `HandleEvent`, `ListenAgain` its events on their way to the model, `TerminalAnswers` and `ProbeTimeout` the probe |
| `TerminalSequences` | the byte scanner `TerminalSequenceObserver` | functions of a state and a byte |
| `StatusStore` | `ProgramStatusStore` and the status bar's rendering of it | functions of a store |
| `ProgramOutput` | a program's output through scanner, engine, store and bar, in chunks | `Deliver`, `Input`, `Tick`, `Adapter`, `Reset`, `Install`, `Dispose` |
| `PointerInput` | `TouchInput` and the engine's mouse path, over one canvas | `Land`, `Drag`, `Lift`, `Frame`, `Expire`, the mouse's handlers, `SetTracking`, `SetReadOnly` |
| `TypedInput` | `InputHandler`: keys, `beforeinput`, compositions, pastes | `Do` is what the user does, `Event` the next event the browser derives from it |
| `UserInput` | the two together | |
| `WasmBridge` | `wasm.go` and `BoobaWasmAdapter` | `NewProgram`, `Write`, `Return`, `Crash`; `ConnectWasm`, `Check`, `Poll`, `Disconnect` |
| `OutputFilters` | the gate of OSC 52, the transcoder of kitty graphics, the server's output loop, the page's clipboard scanner | `Write` is the program's, `Read` one read of the output loop with all that follows from it |
| `OutputPaths` | the two ways of output to the page, this one and `WasmBridge` | a behaviour takes one of them |
| `TerminalView` | class Terminal: what it holds, what its canvas shows, and when it paints | `write`, `renderTick`, echo, scroll, selection, `SyncTimer`, the scrollbar's fade |
| `ContainerFit` | FitAddon and booba.ts's listeners, over `TerminalView` | `WindowResizes`, `LayoutChanges`, `DprChanges`, `DebounceFires`, `ResizingEnds` |
| `RowPainting` | the rows that `render()` draws again, and the selection manager | the mouse's handlers, `Select`, `AutoScroll`, `Scroll`, `Render` |
| `CellLook` | the attributes of a cell on the 2D canvas, in WebGL's and in WebGPU's shaders | `Write`, `Select`, `Hover`, `MoveCursor`, `Scroll`, `PlaceImages` |
| `CellShapes` | block elements and box drawings, pixel by pixel | `PrintChar`, `SetFont` |
| `GlyphAtlas` | the packing and growth of the glyph texture | `getOrRaster`, `NewFrame`, `Reset` |
| `ImageTextures` | the budget of the image textures | `StartFrame`, `getOrUpload`, `Changes` |
| `ImageFrames` | an image's way from the program to the canvas: epoch, frame of placements, pixels, bitmaps, damaged rows | `Transmit`, `Place`, `Delete`, `AddLine`, `SwitchScreen`, `Reset`, `Scroll`, `RenderStill`, `RenderAnimated` |
| `Appearance` | font, cursor, pixel ratio and grid through the renderers and their replacements | `open`, `FinishOpen`, `SetFont`, `SetCursor`, `Resize`, `RatioChanges`, `renderTick`, `Lost`, `dispose` |
| `Links` | the link providers, their cache, the pointer over them | `write`, `changeSilently`, `scrollToLine`, `handleMouseMove`, `throttleEnds`, `handleMouseLeave`, `handleClick`, `answer` |
| `PageLifecycle` | init, open, the choice of a renderer, its loss, dispose | one action per await and per failure |
| `EngineHeap` | each path through the wrapper of the WASM engine: what it allocates, frees, and reads through which view | `Called` starts a path, `StepsOn` takes its next step |
| `TerminalPage` | the engine's modules together | a behaviour is about one of them: they meet in `render()`, and share no state that the properties tell apart |
| `*_proofs` | theorems about `PtySession`, `Connection`, `ActionChannel` and `ActionHost`, `ProgramOutput` (with `TerminalSequences` and `StatusStore`), `WasmBridge` (in `ProgramOutput_proofs`), `EngineHeap`, `TerminalPage`; those about `Admission` and `ResizePipeline` are in `Server_proofs`, those about `BrowserTerminal` and `UserInput` (with `PointerInput` and `TypedInput`) in `Browser_proofs` | |
| `MC*` | the models that TLC runs with constants that a configuration cannot write | |

How the state corresponds to the code. In `PtySession`, `at[g]` is the next
statement of goroutine `g` in `Close`, `run[o]` where a program is in
`runBubbleTea`, `backlog` what the kernel's buffer holds. In `Connection`, `h` is
where the handler is, `pump` where the output and the input goroutine are,
`once`, `hctx` and `req` the sync.Once and the contexts of the cleanup, `conn`
and `readable`/`writable` the transport and its two halves, `out` the frames sent
and not read, `peer`/`stopped`/`abused` the client, `job` the workload, `inbuf`
the PTY's input queue. In `BrowserTerminal`, an adapter object is the number of
the call that made it; `auto` is where `_tryConnect` is, `controls` whose
program's actions the page displays. In the engine's modules variables carry the
source's names where it has any (`invalidateNext`, `placementGeneration`,
`linkCache`, ... ; the code is a bundle, whose classes have lost theirs, such as
`pi` and `vB`), and variables that only the properties read are marked
"history". A definition whose comment begins with "Fault:" is no part of any
behaviour of the specifications: it is a wrong version of the definition after
it, with which the property named for it in `PROJECT.json` ("mutants") is
violated.

Data is abstracted to what the properties tell apart. A frame is "data" or
"close"; a size is the number of the call that set it, in cells and in pixels; a
buffer is a count; a line is the version of its text; a pixel is one of a few
points of its cell, and what it shows the list of paints on it. In
`TerminalSequences` and `OutputFilters` a stream is bytes or words, because where it
is cut is the question; in `CellShapes` alone pixels are numbers, because where they are
rounded is.

Modelling decisions a reader may ask about:

- `beginBubbleTea` and the part of `Close` under the lock are single actions, as
  the lock makes them. The steps of `Close` after it are separate.
- Both transports are in one run: `setup` is chosen by `Init` and stays.
- A client may go away, stop reading (STOP_SENDING), send a bad or an oversized
  frame, or leave after the upgrade, at any time. A client that holds the
  connection open and does not read is in the model too; no property promises a
  freed slot then (the code has no write timeout).
- WebTransport's drain (`DrainPeer`) ends when the client closes or after a grace
  period; the period is taken to be long enough for a client that reads.
- JavaScript's callbacks are atomic. A promise's reactions are in the action
  that settles it; an `await` is where another action may come in between.
- The VT engine is compiled Zig without source here. The modules take from it
  what the wrapper's code relies on: damage flags that cover what changed,
  generations that change when placements or images do, calls that may allocate
  and may fail. These definitions are marked external in "map".
- In `EngineHeap` a method is the set of paths through it, an alternative for
  each condition and each call that may fail. Loops run at most twice there: once
  more than the memory can move between two rounds. Any method may be called on an
  engine that a failed `reset()` has freed, since the terminal still holds it.
- `CellLook` compares the renderers with each other where the code means them to
  agree; what they do differently is listed below and excluded by name.
- The GPU's atlas of images, `Ji`, and the paths for engines without image frames
  are in the bundle and cannot be reached with the engine that it loads; they are
  left out.

## The runs

| Run | Question | Bounds |
| --- | --- | --- |
| `pty` | Do concurrent closers keep the PTY valid, is closing never abandoned, does every Close return? Does the protocol implement `SessionContract`, liveness included? | 2 closers that may call again, 2 owners that may close too, buffer of 1: every race is between two goroutines, and a third finds the session closed |
| `connection` | Is nothing left, does a disconnect end everything, does the client hear of the end, is the slot freed? Do the goroutines use the session only as `PtySession` allows (`SessionSpec`)? | a Bubble Tea program over either transport, and a command with an idle timeout over WebSocket; buffers of 1 frame, so that a full one and an empty one are one step apart |
| `admission` | Count exact, refusals justified, limit kept (`SlotsSpec`)? | 4 requests, no limit or a limit of 1 or 2: a refused, a racing and two admitted requests at once |
| `resize` | No late ioctl, sizes in order and in step, the last one arrives? | 4 sizes, one applier, as the server has |
| `browser` | Is the status true, one connection per try, no lost interval, no endless retries? | 3 calls to connect (the code's attempts are 5, here 2): an adapter, the one that replaces it, and one more whose predecessor still calls back |
| `actions` | Is a button always of the snapshot on display, do revisions never conflict, does one side only show the actions, does what the program describes come to be shown? | 2 descriptions and one that cannot be encoded, 2 changes and a screen switch per session, 2 sessions, one `reset()`, commands in order or not; wrapped: a terminal that answers or does not, one change |
| `output` | Are the records what the output means, wherever it is cut, and does the bar show them? | a program that writes on for ever, in chunks cut at any byte; the scanner's limit is 4 words instead of its bytes, so that a sequence may overrun it; a store of 2 records, so that the third evicts one; 5 reports on 3 nested paths; 2 ticks |
| `input` | Are reports paired, is nothing held, sent twice or lost? | 2 fingers on the canvas and one beside it, 3 cells; one text and Enter, a window of 2 ticks, so that an echo may come in it or after |
| `paths` | Does the terminal understand what a program on the server meant, whatever the filters do and wherever the stream is cut? Does the output of one in the page arrive once and in order before its end, and is the end noticed? | 2 tokens of 13 kinds, so that each meets each; buffers of 12 words, less than the longest token; chunks of 2 words, so that a picture takes three; a limit of 4 words, so that one body overruns it. In the page 2 programs, 2 adapters, 2 frames, one look for the functions |
| `view` | No torn frame, does the screen settle? Are rows, links, glyphs, images, attributes, shapes and settings drawn as they are now, is nothing left behind, and is there always a renderer? | below |
| `browser_goodbye`, `view_fits` | the disagreements below | 2 calls to connect; 2 layouts |

The run `view` starts a behaviour of one of eleven kinds (`part`), so that the
states of the engine's modules add up and do not multiply. The bounds by kind:

| Kind | Bounds | Why they are enough |
| --- | --- | --- |
| view | 2 grids, 2 writes, a line of scrollback, 2 gestures, a new layout | an update with a part before and a part after each paint; the second of two gestures meets the animation of the first |
| rows | 3 rows, 1 line of history, 1 output, 3 moves | a selection that is marked, changed and dropped between two frames |
| glyphs | 3 glyphs, one of them wide, a texture of 2 that is doubled to 4, 3 cells, a new font | a shelf that is full, a texture that is full, and one that cannot grow |
| images | 3 images of area 1 or 2, a budget of 3, a change each | any two fit or do not, and the third has to make room |
| frames | an image of 2 rows on 3, 1 line of history, 3 epochs, a reset | sent, placed, and one more change before, between or after frames, scrolled by half a line |
| links | 2 rows and their history, 4 events | a scan, output during it, its answer, a click |
| life | no bound but what the browser has: WebGPU and WebGL that are missing, work, fail late or are lost | |
| heap | none; loops run at most twice | |
| look | none: every combination of attributes | |
| shapes | 3 widths, 3 heights, 2 strokes | even and odd halves, thirds and eighths that are whole and that are not |
| settings | 4 changes, each setting with 2 values | a change before, one during and one after a renderer's replacement, and back |

`CHECK_DEADLOCK FALSE` stands in all configurations but those of `pty` and
`admission`: connections, terminals, programs and pipelines really end.

### What the properties say

| Property | Says | Would catch |
| --- | --- | --- |
| `PtyValidWhileOwned`, `OneOwnerOneClose`, `CloserAtWork`, `CloseReturns`, `ContractSpec` | the PTY outlives the program on it, one owner and one close, a begun close is finished | a close that does not wait for the program, that forgets to drain, that checks before the lock |
| `LeavesNothingBehind`, `DisconnectCleansUp`, `SessionEndFreesSlot`, `GoodbyeDelivered`, `SessionSpec` | every goroutine of a connection ends, and the client hears of it | a hang-up that is left out, a session closed before its MsgClose has been read |
| `CountExact`, `RefusedOnlyWhenFull`, `SlotsSpec` | the count is the number of slots in use, at every step | a swap that stores, a slot that is not given back |
| `NoLateResize`, `SizesAgree`, `NeverBackwards`, `LastSizeArrives` | sizes reach PTY and program in order and in step | a send that gives up when the channel is full, closing without the lock |
| `StatusTruthful`, `OneConnection`, `PingsMatch`, `NoRetryAfterEnd`, `Settles` | the page says what is so and dials no more than it should | a callback of an old adapter, a retry that nobody wants |
| `ButtonsAreCurrent`, `NoConflict`, `OneBar`, `EventuallyShown` | what is pressed is what is shown is what is meant | a revision used up by a failure, a late timeout of the probe, a lost wake-up |
| `RecordsMatchStream`, `BarShowsRecords` | the meaning of the output token by token, and the elements on the bar | a chunk that is scanned as if it were whole, a signature that leaves out an ancestor |
| `NothingHeld`, `TouchesPaired`, `NotReportedTwice`, `SentOnce` | reports of presses, drags and releases; text | a queued drag after the release, a compatibility event that is taken for a click, an echo of a composition |
| `OutputKept` (`FiltersKeep`, `FramesInOrder`), `ExitNoticed` | the output on its way to the page, and the program's end | a transcoder made for each read, an unmarked first chunk, a BEL that is not given back, a copy that is not waited for; an end that overtakes the last output, a crash that leaves the poll running |
| `NoTornFrame`, `ContentSettles` | no half-made update is painted; what is there is painted in the end | a path that paints at once, a deadline that asks for no frame |
| `RowsCurrent` | each row that is not drawn again is right as it is, images included, and its links are those of its text | a selection or an image that goes and leaves its pixels, revisions that start anew with the engine, links of older output |
| `CellsDrawn` | each cell is drawn with its glyph, images, attributes and settings as they are now, by each renderer | slots kept over a growth, images under or over the wrong layer, blocks that do not meet, copies of an old font |
| `NothingLeft` | after dispose, failure or replacement nothing is registered, allocated or stale | a listener of a terminal that failed to open, a block lost on an error path, a view of the old memory, a buffer of a replaced renderer |
| `AlwaysDraws` | an open terminal has a renderer on a canvas of its kind | a second loss of the GPU that nobody listens for |

`TypeOK` of `Connection`, `BrowserTerminal`, `ActionChannel` and `ProgramOutput`
says what their variables hold and is in no run. It is a theorem of `Connection`,
`BrowserTerminal`, `PtySession` and `Admission`; the types of the other modules
with proofs are part of their inductive invariants.

### What the runs with a violation show

- `browser_goodbye`: over WebTransport the end of the session after MsgClose is
  not reported; actions, the "connected" status and the ping interval stay
  (`webtransport_adapter.ts:181`). In the `browser` run `StatusTruthful` and
  `PingsMatch` make an exception for just this state, named `ended`.
- `view_fits`: a change of the container within 50 ms of a fit is turned away by
  everyone who could react to it, and nobody asks again (`ntwebterm.js:11238`).
  `ContentSettles` is about the grid that the terminal has.

### Fairness

Weak fairness is on what the runtime does by itself: a goroutine that can take a
step takes one (Go's scheduler), a program that has been told to quit quits, a
killed process exits, a timer or interval that was set runs out, a renderer
ticks, an animation frame comes while the page is shown, a browser answers or
rejects a dial, a fetch or a close. Strong fairness is on a goroutine's select or
mutex that is available again and again. There is none on the client, on the
network's failures, on the program's decision to end, on the idle timer's firing,
on a command's reading of its terminal, or on a user's clicks and gestures. In
`view` the fair steps are those of `TerminalView` and `ContainerFit`; behaviours
of another kind have only safety properties. `Settles` needs the bound on the
attempts: with a counter that is reset by every dial it is violated.

`DisconnectCleansUp` has an exception, `Stuck`: the command that neither reads
nor exits. `GoodbyeDelivered` and `SessionEndFreesSlot` say in `Excused` and
`Lingers` which clients they leave out: one that is gone, has stopped reading, or
has broken the protocol. `EventuallyShown` is for programs whose commands Bubble
Tea runs in their order (`ordered`), and for pages that were not reset (`wiped`).
`FramesInOrder` leaves out `Strays`, adapters that poll after their disconnect();
`FiltersKeep` streams of which a filter has lost something, in the three ways listed
with the known behaviours.

## The proofs

| Module | Theorems | Argument |
| --- | --- | --- |
| `PtySession_proofs` | `TypeCorrect`, `PtyOutlivesProgram`, `ExclusiveAndOnce`, `NeverAbandoned`, `RefinesContract` (the safety part of `SessionContract`), for any sets of closers and owners and any buffer | The invariant relates the one goroutine that found the session open with `closed`, `done` and `pty`: there is exactly one such goroutine between the lock and the return, and the flag it read under the lock is that of the program that owns the PTY. `PtyValidWhileOwned` alone is not inductive: it needs that who is about to close the PTY has waited |
| `Server_proofs` | Of `Admission`: `TypeCorrect`, `ExactCount`, `RefusalsJustified`, `RefinesSlots`, for any finite set of requests and any limits. Of `ResizePipeline`: `ResizesStop`, `Agreement`, `RoomToSend`, `InOrder` | The count is exact by induction once a request that has read it is known to have read a value below the limit; the theorems assume that no installed middleware fails late, as `Outer` says in the run, too. For the sizes the invariant says what the session, the PTY and the queue hold at each program counter of the throttle, and that the lock keeps `Close` out. `InOrder` assumes one applier, as the server has (one input goroutine per connection) |
| `Connection_proofs` | `TypeCorrect`, `HandlerLeavesNothing`, `UsesSession` (every step is one of `PtySession`, a command's write to the PTY, or leaves the session alone), `SessionKept`, `ContractKept`, for any sets of closers and programs | `PtySession_proofs` is instantiated here as `P`, with the connection's goroutines as its closers and owners; once it is shown that every action `[Uses]_session`, that is, takes a step of `PtySession` or writes a command's output, its inductive invariant is kept here too, and with it what it implies. The rest of the invariant says where the handler is: the transport goroutines run only between its options and its deferred calls, and it leaves with its session asked to close. Without `HandlerOrder` a program could start after the cleanup |
| `Browser_proofs` | Of `BrowserTerminal`: `TypeCorrect`, `SingleConnection`, `NoStrayPings`, `PageToldTruth`, `EndIsFinal`, for any number of calls of connect and of attempts. Of `UserInput`: `PointerInvariance`, `FingersLetGo`, `TouchesMakeSense`, `ToldOnce`, `OnceSent`, for any finitely many fingers, any width, any texts and any window | One adapter first: each method and callback keeps `OneThing` (one socket or one timer, an interval for the open socket) or `Session`. Then the terminal: `OneTransport` (where `_tryConnect` is decides which transport of a try is in use), `LetGo` (an adapter that was replaced wants nothing any more), `StatusKnown` (the status is what the adapter in use has reported, and that is so). `PingsMatch` and `StatusTruthful` are not inductive: a close that comes late is harmless only because its adapter has let go of the socket. For the pointer: the finger whose press was sent is alone on the canvas and has not been counted out (`OneFinger`), the program holds the button for it (`ProgramKnows`), and a browser makes mouse events up only for a touch that is over (`NoEcho`). For the keys: what each record of a last event proves about what was sent (`Recorded`, `Doubted`, `PasteKnown`) and how far the events of one thing have come in each kind of browser (`Announced`) |
| `ActionHost_proofs` | `NoStaleButton`, `RevisionsAgree`, `NeverTwoBars`, for any set of descriptions, program alone or wrapped | `OneStory` is about every message afloat, in commands, in the renderer's output, on the wire, in the host's queue and on display: reports of one revision agree, none is of a later revision than the publisher's, and one of the latest says what it says. `HostStands` keeps the sides apart by the mode of the probe: nothing is published before it has ended, and nothing passes the writer after the host has taken over |
| `ProgramOutput_proofs` | `BarShown` (`BarShowsRecords`), `RecordsKept` (`RecordsMatchStream`), for any reports, any limit of the records, any clock, and any limit of an OSC's body of three words or more; `FramesKept` (`FramesInOrder` of `WasmBridge`), for any numbers of adapters, programs, frames and looks | `BarInv`: the bar is what a bar made anew would be (`Element`), because a signature holds the effective app and progress is set on every render. `StreamInv`: the observer stands on the ground, or within one token, of which the records have heard nothing, and `rest` is what is left of it (`Pending`). The lemmas follow the observer byte by byte through each kind of token (`NextOfToken`), then through a chunk that ends a token and has another one or some of it (`ChunkHeeded`): it reports a boundary where a token that is a reset or a prompt ends and nowhere else, and so the slices that are written between boundaries are the tokens (`SlicesMean`). Without `Pending` a chunk could end in an escape sequence that the next one does not continue. `WasmInv`: an adapter that polls is the terminal's or has strayed (`Wired`), only the last program says that it ended, with what was unread then (`ProgramsInTurn`), and nothing is shown of a later one (`Shown`); without `Wired` a replaced adapter could poll frames away |
| `EngineHeap_proofs` | `MemoryKept` (`MemorySound`), the part of `NothingLeft` that is about `EngineHeap` | A path is safe when states can be put between its steps so that each step finds what it needs in the one before it and makes the one after it (`Leads`): a block to free is allocated, a view to read through is surely fresh. What a method does follows from what its parts do, by lemmas about `##`, `Finally`, `Catch` and loops: most leave the memory as they found it (`Neutral`), the others end in one of a few states (`Goes`), and at the end nothing is left over but the parts of a live terminal (`Safe`). `HeapInv`: unless a method has been called on an engine that a failed `reset()` had freed (`misused`), what is left of the path that runs is safe from the state as it is. `MemorySound` alone is not inductive: it does not say what the steps that are still to come will need |
| `TerminalPage_proofs` | `Untorn`, `RendererKept`, `AllGivenBack` (all of `NothingLeft`: `NothingHeldBack` of `PageLifecycle`, `MemoryKept` of `EngineHeap`, and `SettingsDrawn`), `CurrentAlways` (all of `RowsCurrent`), `AllCellsDrawn` (all of `CellsDrawn`: `GlyphsKept` of `GlyphAtlas`, `ImagesKept` of `ImageTextures`, `AlikeAlways` of `CellLook`, `ShapesKept` of `CellShapes`, and `SettingsDrawn` of `Appearance`), for any screen, history, sizes of cells and textures, images and engines | A behaviour of the page is a behaviour of each of its parts (`StepsOfParts`), each with an invariant of its own; that of the memory is `EngineHeap_proofs`', instantiated. `LifeInv`: what is held at each stage of `open`. `GlyphInv`: slots lie behind the pen of the packer, so that the next one overlaps none. `RowsInv`: a row that was not marked since the last frame shows its line, its cursor and its selection. `LinkInv`: what is cached for a row is its link as long as the row has not changed unnoticed. `FrameInv`: one clause for each cache on the way of an image, saying what it holds is right as long as its key matches: the frame of an epoch, the pixels of a generation, the bitmaps of a revision, which an earlier engine may have made, and the canvas, which shows the last frame or is marked to be drawn anew. `SettingsInv`: what the renderer was told last is what is set but for `missed`, what it has copied is of what it was told, and the last frame shows both unless another is asked for. `ImagesInv`: what was drawn has a texture of the image as it is, and once a frame has begun the cache holds only images of that frame, so that their textures fit while the images do, by lemmas about the area of a set of images. `LookTyped`, `ShapesTyped`: a cell has attributes, and a font has sizes, of their kinds; the rest is about the tables, layer by layer of the picture (`Layered`), and about the rounding of the halves and eighths of a cell's width and height, for every width, height and stroke |

All proofs are from the constants' assumptions stated in the modules
(`...Assumption`), which TLC evaluates in the runs: a publisher has something to
describe, fingers are finitely many and are told from each other, an echo's window
is not empty and texts are told from Enter, rows, sizes, strokes and areas are natural
numbers, a page has finitely many images, there is a font that leaves room for a double
line, and the scanner's limit is at least the three words of a prompt with parameters
(in the code it is 4096 characters, of which a prompt needs six).

Where a proof needs induction over numbers or over finite sets it takes the smallest
number (`Smallest`), or set, for which a statement fails, and shows that there is none.
That a recursive function exists and has the values its equation says is proved that way, too:
`RunsExist` for the scanner over a chunk, `ClearedExists` for the loop over its
boundaries, and the lemmas about `Areaof` for the sum over a set of images.
`ProgramOutput` is proved under the same bound as it is checked: the page's own steps
(a bar that is installed, a reset) come between two tokens.

Only model-checked, and why:

- Liveness, `ENABLED` and the liveness part of the refinements are out of the
  prover's reach.
- `OutputKept`: `OutputFilters` scans a stream by RECURSIVE operators, and what its
  filters make of every stream is an induction over data. Its other half, about
  `WasmBridge`, is proved (`FramesKept`).

## Known behaviours that no run is about

Facts of the code that were met while modelling. Where a property has an
exception for one of them, the exception is named in the module.

On the server:

- The input goroutine writes to the PTY synchronously. If a command does not read
  its terminal, nobody reads the connection any more, and a disconnect is not
  noticed (`handlers.go:141`, `session.go:30`).
- A middleware of the connect chain that fails after its `next` approved leaks a
  slot (`server.go:463`); `Outer` may be given "late".
- A session middleware that embeds `Session` hides `ResizeEvents` and
  `ResizeWindow`: the program hears of the first size only (`bubbletea.go:94`,
  `resize_throttle.go:52`); `Wrapped` may be TRUE.
- The gauge of sipmetrics is decremented by every call of `Close`, of which a
  session gets up to three (`sipmetrics.go:122`).
- osc52gate makes a new scanner for each read of the output loop (`osc52gate.go:74`,
  `handlers.go:81`, 232): when a read ends within an escape sequence after other
  output, the words that the scanner holds are lost, the ESC of a colour for
  instance, in the mode that is to pass everything, too. So is what does not fit in
  the caller's buffer (125).
- A PNG in chunks that cannot be decoded, and fits in one chunk, goes out as one
  with the first chunk's `m=1` (`kittygfx.go:240`): the terminal takes the next
  picture for its continuation.
- A WebTransport client that opens no stream is waited for in `AcceptStream`
  without the deadline of `InitialResizeTimeout` (`server.go:604`).
- sipclient may send its keyboard flags before the first Resize
  (`internal/sipclient/client.go:328`).
- termhost compares no revisions (`termhost.go:168`) and resolves a click with
  the bar of its last `View` (138).
- Output that is unread when the PTY closes is lost; no document promises it.

In the page's connection and input:

- A reconnect timer that outlives `disconnect()` dials once more; the code's
  tests accept it, and `NoRetryAfterEnd` says that it ends there.
- A page that disconnects while `ts/adapter.ts` waits for the WASM program leaves
  the interval running (154).
- `dispose()` during `init()`'s wait for the engine's code (`booba.ts:207`) leaves
  everything that `init()` goes on to create.
- With `allowOSC52` a buffer of the clipboard scanner that contains any other OSC,
  a title for instance, is not cleared: it grows and is scanned again with every
  chunk, although `clipboard.test.ts:100-102` asks for a bound. A start that is
  cut after its first byte is lost, and a sequence that ends with ST takes
  what follows up to a BEL as its payload (`ts/clipboard.ts:20-63`).
- A mouse button released outside the canvas is held until the next press
  (`ntwebterm.js:6269`); a terminal made read-only in the middle of a touch sends
  no release.
- A clipboard write that fails late falls back over a newer copy (10076-10098).

In the engine (`ntwebterm.js`), what is painted when:

- `clear()` (10636), a drag of the selection (10118), and a new pixel ratio that
  leaves the grid as it is (`booba.ts:627`) ask for no frame.
- An update that ends and the next that begins within one write keep the first
  one's deadline. After `reset()` the selection manager holds the freed terminal
  (10645), and a viewport beyond the new scrollback keeps its rows.
- A smooth scroll goes on after a write has taken the view to the bottom.
- A view scrolled by a fraction has no line for row floor(viewportY) (6887, 7308).
- `select()`, `selectAll()`, `selectLines()` and autoscroll replace the selection
  without marking the old rows (9764, 9778, 9992); the first two count from
  `viewportY` as it is. A drag inside its first cell and a cursor that is hidden
  in place are not painted (7241).

Links:

- The cache forgets on output only (10582), although the comment at 6456-6458
  speaks of resizes too. An application's provider that answers late puts its
  answer into the cache after it was emptied, over a newer one. While a row is
  being scanned another call finds no link in it.
- Hovering one OSC 8 link underlines all, as the identifier arrives as a boolean.
  A pending mouse move after the mouse has left sets the hover again (10187). The
  underline stays in its rows when the view scrolls.

Renderers:

- They differ in reverse video of default colours (7361, 7381; 8057, 8062), the
  cursor in a scrolled view, and lines and fading on block elements (8797), which
  WebGL draws from the font. Block elements of odd sizes differ by the pixel on
  their boundary. The atlas is rasterised in CSS pixels whatever the ratio.
- When the glyph atlas grows in the middle of a frame, earlier cells refer to the
  empty new texture until the next change (6851); WebGL keeps the new size when
  its texture could not be made (6853, 8217). Images later in a frame are counted
  with their old sizes (7020).
- `pickRenderer` and the last resort of the swap try the next renderer on a
  canvas that has given out a context (9592, 10540). A device lost before
  `onDeviceLost` is registered is missed (9234, 10518), and the one of a WebGPU
  that fails late is not destroyed (9549-9562).
- `booba.ts:626` writes `devicePixelRatio`, which only the 2D renderer has. A
  ratio that flips back before its event while a new renderer has read it is
  missed (10322).
- Options that change while `open()` waits are missed (10290); a cursor style of
  the program before the first frame, or that of an option before the next, is
  overtaken (10166, 10298); a theme set later reaches a renderer only with its
  replacement. `Terminal.resize` records the size before the engine has taken it
  (10633): if that fails, the same size is not tried again.

Memory:

- The document's mousedown listener and the beforeinput listener are never removed
  (9902, 10420). The key encoder of a terminal is never freed (3423), leaks its
  slot when it cannot be made (3391, 3405), and reads through a view that was made
  before further allocations (3406, 3420). `MemorySound` excepts what it leaves
  behind and this view.
- If `reset()` fails after `free()`, the terminal keeps the freed engine: the next
  methods use it, and the next `reset()` or `dispose()` frees it again (3882, 10643,
  10981). `EngineHeap` takes these calls like any others and remembers the first in
  `misused`; from then on `MemorySound`, and with it `NothingLeft` and both
  theorems `MemoryKept`, promise nothing.

## Not modelled

- The VT engine's own parsing and screen (WASM, no source here), canvas and GPU
  calls, bidirectional text, the merging of an image's adjacent slices, rounded
  corners of box drawings.
- The text of a selection, the copy of a selection, the scrollbar's geometry
  (its drag divides by zero on a track of 20 pixels, 11093), key tables
  (`key_encoder.ts`), styles, themes, titles.
- The sip framing and the payloads' encoding, on both sides: functions of one
  message. The Go client. Session metrics.
- The end of the stream in the filters, when the gate gives back what it holds;
  the middlewares that log or recover.
- A program that calls `Close` on its session from inside its own event loop
  waits for itself; the code asks for no such call. The branch of `runSession`
  that only waits, and the Windows command.
- The idle timer's deadline: its watcher may fire whenever it watches, so the
  race of a reset with an expired timer is covered, its length is not. Bubble Tea
  together with an idle timeout has no run of its own; `pty` has a closer that
  comes at any time.
- The status that accompanies the actions, `setReadOnly` and disabled actions; the
  action bar's layout.
- Identity, configuration, certificates, assets, demos, scripts, and the compiled
  copies of `ts` under `serve/static/booba`: they hold no state that the
  connection shares, or are generated.

## The plan

In this order; each step adds a module, its run and, where it says so, proofs.

1. `PtySession`, `Connection`, `Admission`, `ResizePipeline` with their abstract
   specifications and proofs; the browser's connection. *Done.*
2. Actions from the program to the page, and hosted by `termhost`. *Done.*
3. The scanner, the status store and the bar; touch, keys and pastes; the WASM
   bridge and the filters of the output. *Done.*
4. The terminal of the page: painting, fitting, rows, cells, atlas, images,
   settings, links, lifecycle, memory. *Done.*
5. Proofs: the browser's connection, the actions, a connection's use of its
   session, from which the theorems of `PtySession_proofs` carry over, fingers and
   keys, and of the page its brackets, renderers, rows, links, images, glyphs and settings,
   and then its images' budget, the look of its cells and their shapes; the status records
   and the bar; the engine's memory. *Done.* Of `OutputKept` the half about programs in
   the page, too; left is the half about a server's filters.
6. The frame decoder against a reference over bounded streams; `SipClient` against
   `FirstResize` of `Connection`; the action bar's DOM; selection text.
