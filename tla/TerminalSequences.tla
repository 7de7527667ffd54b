-------------------------- MODULE TerminalSequences --------------------------
(***************************************************************************)
(* TerminalSequenceObserver (ts/terminal_sequences.ts): a scanner that     *)
(* finds the ends of resets, screen switches and shell prompts in a        *)
(* program's output, whatever the chunks it comes in.                      *)
(*                                                                         *)
(* A byte is a name: "esc", "bel" and "can" for the control bytes, and     *)
(* words such as "133" or "1049" for characters nobody tells apart.        *)
(***************************************************************************)
EXTENDS Naturals, Sequences, SequencesExt

CONSTANT MaxBody  \* bound: maxOSCBytes - 4, in words

ASSUME SequencesAssumption == MaxBody \in Nat /\ MaxBody >= 3

(* The names of bytes and of words. *)
Names == {"esc", "bel", "can", "[", "]", "\\", "P", "c", "h", "l", "x", "A", "semicolon",
          "133", "7501", "1049"}

Fresh == [state |-> "ground", escaped |-> FALSE, body |-> <<>>,
          discarded |-> FALSE, alternate |-> FALSE, event |-> "none"]

Observers == [state : {"ground", "escape", "osc", "csi", "string"}, escaped : BOOLEAN,
              body : Seq(Names), discarded : BOOLEAN, alternate : BOOLEAN,
              event : {"none", "reset", "screen", "prompt"}]

Start(o, state) ==
  [o EXCEPT !.state = state, !.escaped = FALSE, !.body = <<>>, !.discarded = FALSE]

(* Its callback lifecycle(reason), at the byte it is at. *)
Event(o, reason) == [o EXCEPT !.event = reason]

(* finishString: the regular expression is 133;A and then the end or a semicolon; *)
(* the word "133" stands for its first semicolon, too.                           *)
IsPrompt(body) == IsPrefix(<<"133", "A">>, body) /\ (Len(body) > 2 => body[3] = "semicolon")

FinishString(o) ==
  LET done == Start(o, "ground")
  IN IF o.state = "osc" /\ ~o.discarded /\ IsPrompt(o.body)
     THEN Event(done, "prompt") ELSE done

EscapeByte(o, b) ==
  CASE b = "]" -> Start(o, "osc")
    [] b = "[" -> Start(o, "csi")
    [] b = "P" -> Start(o, "string")
    [] b = "c" -> Event([Start(o, "ground") EXCEPT !.alternate = FALSE], "reset")
    [] OTHER -> Start(o, "ground")

(* In an OSC, whose text is collected, and in a DCS, APC, PM or SOS, whose is not. *)
Collect(o, b) ==
  IF o.state = "string" \/ o.discarded THEN o
  ELSE IF Len(o.body) >= MaxBody THEN [o EXCEPT !.discarded = TRUE, !.body = <<>>]
  ELSE [o EXCEPT !.body = Append(@, b)]

StringByte(o, b) ==
  IF o.escaped /\ b = "\\" THEN FinishString(o)
  ELSE IF o.escaped /\ o.state = "osc"
  THEN IF b = "esc" THEN Start(o, "escape") ELSE EscapeByte(Start(o, "escape"), b)
  ELSE IF b = "esc" THEN [o EXCEPT !.escaped = TRUE]
  ELSE IF b = "bel" /\ o.state = "osc" THEN FinishString(o)
  ELSE Collect([o EXCEPT !.escaped = FALSE], b)

IsParameter(b) == b \in {"1049", "133", "7501", "semicolon"}

CsiByte(o, b) ==
  IF b = "bel" THEN [o EXCEPT !.discarded = TRUE, !.body = <<>>]
  ELSE IF IsParameter(b) THEN Collect(o, b)
  ELSE IF ~o.discarded /\ b \in {"h", "l"} /\ o.body = <<"1049">> /\ (b = "h") # o.alternate
  THEN Event([Start(o, "ground") EXCEPT !.alternate = (b = "h")], "screen")
  ELSE Start(o, "ground")

Byte(observer, b) ==
  LET o == Event(observer, "none")
  IN IF b = "can" THEN Start(o, "ground")
     ELSE IF o.state \in {"osc", "string"} THEN StringByte(o, b)
     ELSE IF b = "esc" THEN Start(o, "escape")
     ELSE IF o.state = "escape" THEN EscapeByte(o, b)
     ELSE IF o.state = "csi" THEN CsiByte(o, b)
     ELSE o

(* Over a chunk: the observer, and the boundaries that it has reported. *)
Observed(observer, chunk) ==
  LET after[i \in 0 .. Len(chunk)] ==
        IF i = 0 THEN [observer |-> observer, found |-> <<>>]
        ELSE LET before == after[i - 1]
                 o == Byte(before.observer, chunk[i])
             IN [observer |-> o,
                 found |-> IF o.event = "none" THEN before.found
                           ELSE Append(before.found, [reason |-> o.event, end |-> i])]
  IN after[Len(chunk)]

Scan(observer, chunk) == Event(Observed(observer, chunk).observer, "none")
Boundaries(observer, chunk) == Observed(observer, chunk).found
=============================================================================
