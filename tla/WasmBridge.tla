------------------------------ MODULE WasmBridge ------------------------------
(***************************************************************************)
(* A terminal and a program compiled to WASM in one page: BoobaWasmAdapter *)
(* (ts/adapter.ts) polls the functions that the program registers on       *)
(* window (wasm/wasm.go), for a BoobaTerminal (ts/booba.ts) that may       *)
(* disconnect and connect a new adapter at any time.  Programs come one    *)
(* after another; a later one takes the functions over.                    *)
(***************************************************************************)
EXTENDS Integers, Sequences

CONSTANTS
  MaxConnects,  \* calls of connectWasm
  MaxPrograms,  \* programs made on the page
  MaxOutput,    \* frames each writes
  MaxAttempts   \* looks for the functions before connect gives up

ASSUME WasmAssumption == /\ MaxConnects \in Nat /\ MaxPrograms \in Nat
                         /\ MaxOutput \in Nat /\ MaxAttempts \in Nat

Adapters == 1 .. MaxConnects
Programs == 1 .. MaxPrograms

VARIABLES
  made,      \* programs so far; the last one holds window's functions
  life,      \* per program: "off", "running", "exited", "crashed"
  written,   \* per program: the frames it has written
  read,      \* per program: the frames taken out of its buffer
  exited,    \* window.bubbletea_exited
  final,     \* window.bubbletea_final: the frames in it
  bridge,    \* per adapter: [polling, waiting, attempts, exited, wired, late];
             \* wired: it has its callbacks; late: it found the functions after
             \* its disconnect(), and has polled since
  tries,     \* calls of connectWasm so far
  adapter,   \* the terminal's adapter, 0 when it has none
  status,    \* what the terminal shows
  shown,     \* the frames written to the terminal: [program, frame]
  ends       \* how often the terminal was told that the last program exited

page == <<made, life, written, exited, final>>
wasmVars == <<page, read, bridge, tries, adapter, status, shown, ends>>

WasmInit ==
  /\ made = 0
  /\ life = [p \in Programs |-> "off"]
  /\ written = [p \in Programs |-> 0] /\ read = written
  /\ exited = FALSE /\ final = <<>>
  /\ bridge = [a \in Adapters |-> [polling |-> FALSE, waiting |-> FALSE,
                                   attempts |-> 0, exited |-> FALSE,
                                   wired |-> FALSE, late |-> FALSE]]
  /\ tries = 0 /\ adapter = 0 /\ status = "disconnected" /\ shown = <<>>
  /\ ends = 0

-----------------------------------------------------------------------------
(* The page's programs. *)

Frames(p, from, to) == [i \in 1 .. to - from |-> [program |-> p, frame |-> from + i]]
Unread(p) == Frames(p, read[p], written[p])

NewProgram == /\ made < MaxPrograms
              /\ made' = made + 1
              /\ life' = [life EXCEPT ![made + 1] = "running"]
              /\ exited' = FALSE /\ final' = <<>> /\ ends' = 0
              /\ UNCHANGED <<written, read, bridge, tries, adapter, status, shown>>

Write(p) == /\ life[p] = "running" /\ written[p] < MaxOutput
            /\ written' = [written EXCEPT ![p] = @ + 1]
            /\ UNCHANGED <<made, life, exited, final, read, bridge, tries, adapter,
                           status, shown, ends>>

(* Run returns; a program that was superseded publishes nothing. *)
Return(p) ==
  /\ life[p] = "running"
  /\ life' = [life EXCEPT ![p] = "exited"]
  /\ IF p = made
     THEN /\ final' = Unread(p)
          /\ exited' = TRUE
          /\ read' = [read EXCEPT ![p] = written[p]]
     ELSE UNCHANGED <<final, exited, read>>
  /\ UNCHANGED <<made, written, bridge, tries, adapter, status, shown, ends>>

(* The Go runtime is gone without a word: its functions throw. *)
Crash(p) == /\ life[p] = "running"
            /\ life' = [life EXCEPT ![p] = "crashed"]
            /\ UNCHANGED <<made, written, exited, final, read, bridge, tries,
                           adapter, status, shown, ends>>

-----------------------------------------------------------------------------
(* The terminal's callbacks: those of an adapter that it has replaced, or that
   was disconnected, change nothing. *)

Data(a, frames) == shown' = IF bridge[a].wired /\ adapter = a THEN shown \o frames
                            ELSE shown

State(a, s) == status' = IF adapter = a THEN s ELSE status

-----------------------------------------------------------------------------
(* The adapter. *)

(* Fault: the unread output is left where it is. *)
HandleExitSilently(a) ==
  /\ bridge' = [bridge EXCEPT ![a].exited = TRUE, ![a].polling = FALSE]
  /\ UNCHANGED shown
  /\ IF bridge[a].wired THEN State(a, "disconnected") ELSE UNCHANGED status
  /\ UNCHANGED read

HandleExit(a) ==
  /\ bridge' = [bridge EXCEPT ![a].exited = TRUE, ![a].polling = FALSE]
  /\ Data(a, final)
  /\ IF bridge[a].wired THEN State(a, "disconnected") ELSE UNCHANGED status
  /\ UNCHANGED read

(* Fault: the exception of a read is not caught. *)
GoneFlagOnly == exited

(* bubbletea_exited is set, or bubbletea_read throws. *)
Gone == exited \/ life[made] = "crashed"

Poll(a) ==
  /\ bridge[a].polling
  /\ IF Gone
     THEN /\ HandleExit(a)
          /\ ends' = IF bridge[a].wired /\ adapter = a THEN ends + 1 ELSE ends
     ELSE /\ Data(a, Unread(made))
          /\ read' = [read EXCEPT ![made] = written[made]]
          /\ UNCHANGED <<bridge, status, ends>>
  /\ UNCHANGED <<page, tries, adapter>>

(* One look for the functions, 50 ms after the last. *)
Check(a) ==
  /\ bridge[a].waiting
  /\ IF made > 0
     THEN /\ bridge' = [bridge EXCEPT ![a].waiting = FALSE, ![a].polling = TRUE,
                                     ![a].late = ~bridge[a].wired]
          /\ State(a, "connected")
     ELSE IF bridge[a].attempts < MaxAttempts
     THEN /\ bridge' = [bridge EXCEPT ![a].attempts = @ + 1]
          /\ UNCHANGED status
     ELSE /\ bridge' = [bridge EXCEPT ![a].waiting = FALSE]
          /\ State(a, "disconnected")
  /\ UNCHANGED <<page, read, tries, adapter, shown, ends>>

(* disconnect(): the interval of Check is not known to it. *)
Disconnected(b) == [b EXCEPT !.polling = FALSE, !.wired = FALSE]

Connected(b) == IF made > 0 THEN [b EXCEPT !.wired = TRUE, !.polling = TRUE]
                            ELSE [b EXCEPT !.wired = TRUE, !.waiting = TRUE]

Release == IF adapter = 0 THEN bridge
           ELSE [bridge EXCEPT ![adapter] = Disconnected(@)]

-----------------------------------------------------------------------------
(* The terminal's calls. *)

ConnectWasm == /\ tries < MaxConnects
               /\ tries' = tries + 1 /\ adapter' = tries + 1
               /\ bridge' = [Release EXCEPT ![tries + 1] = Connected(@)]
               /\ status' = IF made > 0 THEN "connected"
                            ELSE IF adapter # 0 THEN "disconnected" ELSE status
               /\ UNCHANGED <<page, read, shown, ends>>

Disconnect == /\ adapter # 0
              /\ adapter' = 0
              /\ bridge' = Release
              /\ status' = "disconnected"
              /\ UNCHANGED <<page, read, tries, shown, ends>>

WasmNext ==
  \/ NewProgram
  \/ \E p \in Programs : Write(p) \/ Return(p) \/ Crash(p)
  \/ \E a \in Adapters : Poll(a) \/ Check(a)
  \/ ConnectWasm \/ Disconnect

(* Intervals fire; nobody has to make, end or connect anything. *)
Fairness == \A a \in Adapters : WF_wasmVars(Poll(a)) /\ WF_wasmVars(Check(a))

WasmSpec == WasmInit /\ [][WasmNext]_wasmVars /\ Fairness
-----------------------------------------------------------------------------
(* An adapter that finds the functions after its disconnect() polls on, and
   throws away what it reads (ts/adapter.ts:154-158, 169-176). *)
Strays == \E a \in Adapters : bridge[a].late

(* What the program on the page wrote reaches the terminal in order, without a
   gap or a repetition, across disconnects and new connections, and with it the
   final frame each time the terminal is told of the exit; what is written while
   nobody polls is kept for the next adapter.  What earlier programs wrote is
   shown before.  An adapter that strays breaks it. *)
FramesInOrder ==
  made > 0 /\ ~Strays =>
    LET once == read[made] - Len(final)
        earlier == Len(shown) - (once + ends * Len(final))
    IN /\ earlier >= 0 /\ \A i \in 1 .. earlier : shown[i].program # made
       /\ SubSeq(shown, earlier + 1, earlier + once) = Frames(made, 0, once)
       /\ \A n \in 0 .. ends - 1, i \in DOMAIN final :
            shown[earlier + once + n * Len(final) + i] = final[i]

(* A terminal that is connected when its program ends, of its own accord or not,
   comes to show that, unless it is connected anew or disconnected, or the next
   program takes over first. *)
ExitNoticed ==
  \A a \in Adapters, p \in Programs :
    (status = "connected" /\ adapter = a /\ made = p /\ life[p] \in {"exited", "crashed"})
      ~> (status = "disconnected" \/ adapter # a \/ made # p)
=============================================================================
