---------------------------- MODULE ProgramOutput ----------------------------
(***************************************************************************)
(* What BoobaTerminal (ts/booba.ts) does with a program's output: it scans *)
(* it for boundaries, writes it to the terminal in slices that end there,  *)
(* keeps the program's status reports with their lifetimes, and shows them *)
(* in a status bar.                                                        *)
(*                                                                         *)
(* A program writes tokens, each with its bytes and what it means; the     *)
(* terminal (ntwebterm) acts on a token at its last byte.  The connection  *)
(* delivers the bytes in chunks that end anywhere.                         *)
(***************************************************************************)
EXTENDS TerminalSequences, StatusStore, FiniteSets

CONSTANTS Reports,   \* the reports a program may make
          MaxClock   \* bound: values of the store's clock

VARIABLES
  rest,      \* what is undelivered of a token: its bytes and its meaning
  observer,  \* this.sequenceObserver
  store,     \* this.programStatus
  clock,     \* Date.now()
  bar,       \* the elements of the bar's records
  installed, \* there is a bar, which listens to the store
  callback,  \* the page has set onProgramStatus, for good
  meant      \* the records by the meaning of the tokens

vars == <<rest, observer, store, clock, bar, installed, callback, meant>>

Report(r) == [means |-> "report", report |-> r, bytes |-> <<"esc", "]", "7501", "bel">>]
Other(means, bytes) == [means |-> means, bytes |-> bytes]

Tokens ==
  {Report(r) : r \in Reports} \cup
  {Other("nothing", <<"x">>),
   Other("query", <<"esc", "[", "h">>),
   Other("reset", <<"esc", "c">>),
   Other("nothing", <<"esc", "[", "1049", "h">>),
   Other("nothing", <<"esc", "[", "1049", "l">>),
   Other("prompt", <<"esc", "]", "133", "A", "bel">>),
   Other("prompt", <<"esc", "]", "133", "A", "semicolon", "esc", "\\">>),
   \* an OSC that is cancelled, one that a reset cuts short, one too long, and a DCS
   Other("nothing", <<"esc", "]", "133", "A", "can">>),
   Other("reset", <<"esc", "]", "133", "A", "esc", "c">>),
   Other("nothing", <<"esc", "]", "133", "A", "semicolon">> \o [i \in 1 .. MaxBody - 2 |-> "x"]
                       \o <<"bel">>),
   Other("nothing", <<"esc", "P", "esc", "]", "133", "A", "bel", "esc", "\\">>)}

Done == Other("nothing", <<>>)

Init ==
  /\ rest = Done
  /\ observer = Fresh
  /\ store = <<>>
  /\ clock = 1
  /\ bar = Blank
  /\ installed = FALSE
  /\ callback \in BOOLEAN
  /\ meant = <<>>

Consumes == callback \/ installed

(* The store is s now: its listeners are called. *)
Changes(s) ==
  /\ store' = s
  /\ bar' = IF installed THEN Render(bar, s) ELSE bar

-----------------------------------------------------------------------------
(* forwardInput, with terminalWriteDepth. *)
ForwardInput(s, depth) == IF depth = 0 THEN DismissSettled(s) ELSE s

(* The terminal reaches the end of a token in term.write. *)
Acts(s, token) ==
  CASE token.means = "report" /\ Consumes -> Apply(s, token.report, clock)
    [] token.means = "query" -> ForwardInput(s, 1)
    [] OTHER -> s

(* writeTerminal of the slice of a chunk from an offset on to another one, in
   which the terminal comes to the end of a token or of two. *)
WriteTerminal(s, ends, first, last) ==
  LET Reach(t, e) == IF first < e.at /\ e.at <= last THEN Acts(t, e.token) ELSE t
  IN Reach(Reach(s, ends[1]), ends[2])

Clears(s, reason) ==
  CASE reason = "reset" -> <<>>
    [] reason = "prompt" -> Prompt(s)
    [] OTHER -> s

(* Fault: all of the chunk is written before anything is cleared. *)
WriteWhole(s, ends, length, boundaries) ==
  FoldLeft(LAMBDA acc, b : Clears(acc, b.reason),
           WriteTerminal(s, ends, 0, length), boundaries)

(* The loop of writeLiveOutput over the boundaries. *)
WriteSlices(s, ends, length, boundaries) ==
  LET Begin(k) == IF k = 0 THEN 0 ELSE boundaries[k].end
      cleared[k \in 0 .. Len(boundaries)] ==
        IF k = 0 THEN s
        ELSE Clears(WriteTerminal(cleared[k - 1], ends, Begin(k - 1), boundaries[k].end),
                    boundaries[k].reason)
  IN WriteTerminal(cleared[Len(boundaries)], ends, Begin(Len(boundaries)), length)

(* What the program means, token by token; nobody hears it unless somebody consumes it. *)
Meaning(s, token) ==
  IF ~Consumes THEN s
  ELSE CASE token.means = "report" -> Apply(s, token.report, clock)
         [] token.means = "reset" -> <<>>
         [] token.means = "prompt" -> Prompt(s)
         [] OTHER -> s

Means(s, ends, length) ==
  LET Told(t, e) == IF e.at <= length THEN Meaning(t, e.token) ELSE t
  IN Told(Told(s, ends[1]), ends[2])

(* What is left when n bytes have come of one token and the next. *)
Left(one, next, n) ==
  LET bytes == one.bytes \o next.bytes
      begun == IF n < Len(one.bytes) THEN one ELSE next
  IN IF n = Len(bytes) THEN Done
     ELSE [begun EXCEPT !.bytes = SubSeq(bytes, n + 1, Len(bytes))]

(* The data callback: a chunk ends, or goes on with, the token that was begun; *)
(* then it may have another one, or the first bytes of it.                     *)
Deliver ==
  \E token \in Tokens \cup {Done} :
    LET bytes == rest.bytes \o token.bytes
        old == Len(rest.bytes)
    IN \E n \in (IF token = Done THEN 1 ELSE old + 1) .. Len(bytes) :
         LET chunk == SubSeq(bytes, 1, n)
             ends == <<[token |-> rest, at |-> old], [token |-> token, at |-> Len(bytes)]>>
         IN /\ rest' = Left(rest, token, n)
            /\ observer' = IF Consumes THEN Scan(observer, chunk) ELSE observer
            /\ Changes(IF Consumes
                       THEN WriteSlices(store, ends, n, Boundaries(observer, chunk))
                       ELSE WriteTerminal(store, ends, 0, n))
            /\ meant' = Means(meant, ends, n)
            /\ UNCHANGED <<clock, installed, callback>>

(* The user types, clicks or touches. *)
Input ==
  /\ Changes(ForwardInput(store, 0))
  /\ meant' = DismissSettled(meant)
  /\ UNCHANGED <<rest, observer, clock, installed, callback>>

Tick == clock < MaxClock /\ clock' = clock + 1
        /\ UNCHANGED <<rest, observer, store, bar, installed, callback, meant>>

-----------------------------------------------------------------------------
(* The state callback, or disconnect(): the next output is a new program's. *)
Adapter(state) ==
  /\ observer' = Fresh
  /\ rest' = Done
  /\ Changes(IF state = "connected" THEN <<>> ELSE Exit(store))
  /\ meant' = IF state = "connected" THEN <<>> ELSE Exit(meant)
  /\ UNCHANGED <<clock, installed, callback>>

(* The page's own steps below come between two tokens (bound). *)

(* reset(); the terminal's clear report, of all records, finds none. *)
Reset ==
  /\ rest = Done
  /\ observer' = Fresh
  /\ Changes(<<>>)
  /\ meant' = <<>>
  /\ UNCHANGED <<rest, clock, installed, callback>>

(* installStatusBar, which replaces a bar there is; its first render. *)
Install ==
  /\ rest = Done
  /\ installed' = TRUE
  /\ bar' = Render(Blank, store)
  /\ UNCHANGED <<rest, observer, store, clock, callback, meant>>

Dispose ==
  /\ rest = Done
  /\ installed
  /\ installed' = FALSE
  /\ bar' = Blank
  /\ UNCHANGED <<rest, observer, store, clock, callback, meant>>

Next ==
  \/ Deliver \/ Input \/ Tick
  \/ \E state \in {"connected", "disconnected"} : Adapter(state)
  \/ Reset \/ Install \/ Dispose

Spec == Init /\ [][Next]_vars

-----------------------------------------------------------------------------
(* The status records are what the program's output means, token by token, *)
(* wherever its chunks end: a prompt, a reset or a report takes effect at  *)
(* its place (writeLiveOutput splits at boundaries to retain wire order),  *)
(* text inside other sequences has none, and the terminal's own replies    *)
(* do not dismiss results.                                                 *)
RecordsMatchStream == store = meant

(* An installed bar shows each record of the store as it is: the elements  *)
(* it keeps because their signature has not changed are not stale, not     *)
(* even when an ancestor's report changes the app of a record.             *)
BarShowsRecords ==
  installed =>
    /\ DOMAIN bar = Ids(store)
    /\ \A id \in DOMAIN bar :
         /\ bar[id].shows = <<RecordOf(store, id).state, EffectiveApp(store, id)>>
         /\ bar[id].progress = RecordOf(store, id).progress

TypeOK ==
  /\ observer \in Observers
  /\ Len(store) <= MaxRecords /\ Cardinality(Ids(store)) = Len(store)
  /\ clock \in 1 .. MaxClock
  /\ {installed, callback} \subseteq BOOLEAN
=============================================================================
