------------------------------ MODULE OutputPaths ------------------------------
(***************************************************************************)
(* The two ways on which a program's output comes to the page's terminal:  *)
(* from a server, through its filters and the page's (OutputFilters), and  *)
(* from a program in the page, by polling (WasmBridge).                    *)
(***************************************************************************)
EXTENDS WasmBridge

CONSTANTS MaxTokens, BufSize, ChunkSize, MaxAPCBody

ASSUME FiltersAssumption == /\ MaxTokens \in Nat
                            /\ {BufSize, ChunkSize, MaxAPCBody} \subseteq Nat \ {0}

VARIABLES path,   \* the way of this terminal's output
          mode, sent, meant, tty, gate, dropped, gfx, screen, clip

Server == INSTANCE OutputFilters

serverVars == <<mode, sent, meant, tty, gate, dropped, gfx, screen, clip>>

PathsInit == path \in {"server", "wasm"} /\ Server!Init /\ WasmInit

PathsNext == /\ UNCHANGED path
             /\ \/ path = "server" /\ Server!Next /\ UNCHANGED wasmVars
                \/ path = "wasm" /\ WasmNext /\ UNCHANGED serverVars

PathsSpec == PathsInit /\ [][PathsNext]_<<path, serverVars, wasmVars>> /\ Fairness
-----------------------------------------------------------------------------
(* What a program writes comes to the terminal in order, whole and once,
   through the filters of its server (FiltersKeep) or by the polling of the
   page (FramesInOrder). *)
OutputKept == Server!FiltersKeep /\ FramesInOrder
=============================================================================
