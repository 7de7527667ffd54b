------------------------------ MODULE TypedInput ------------------------------
(***************************************************************************)
(* Typing, composing and pasting: the keyboard side of the engine's        *)
(* InputHandler (serve/static/ntwebterm/ntwebterm.js).  A browser may      *)
(* announce one thing the user does with several events, and the handler   *)
(* recognises the second by its text if it comes soon enough.  A paste is  *)
(* sent between brackets or plain, which makes no difference here.         *)
(***************************************************************************)
EXTENDS Naturals, Sequences

CONSTANTS
  Texts,  \* what can be typed, composed and pasted
  Window  \* BEFORE_INPUT_IGNORE_MS, in ticks

VARIABLES
  lastKeyDown, lastBeforeInput, lastComposition,
  lastPaste,   \* [text, from, age]; the others are [text, age]
  composing,   \* isComposing
  browser,     \* the events with which it announces what comes by each path
  pending,     \* its events for what the user does that are still to come
  doing,       \* what the user does: [text, path]; "doubtful" when the same
               \* text came by another path less than Window ago
  count,       \* how often its text has been sent to the program
  recent       \* when each text last came by each path: its age

records == <<lastKeyDown, lastBeforeInput, lastComposition, lastPaste>>
vars == <<records, composing, browser, pending, doing, count, recent>>

Enter == "enter"
Nothing == ""
Paths == {"key", "input", "composition", "paste"}

Blank == [text |-> Nothing, age |-> Window]

Fresh(r) == r.age < Window

(* The browser: the events with which it may announce what the user does. *)
Announcements ==
  [key : {<<"keydown">>, <<"keydown", "beforeinput">>},
   input : {<<"beforeinput">>},
   composition : {<<"compositionstart", "compositionend">>,
                  <<"compositionstart", "beforeinput", "compositionend">>,
                  <<"compositionstart", "compositionend", "beforeinput">>,
                  <<"beforeinput", "compositionend">>},
   paste : {<<"paste">>, <<"insertFromPaste">>,
            <<"ctrl-v", "paste", "insertFromPaste">>,
            <<"insertFromPaste", "paste">>}]

Init ==
  /\ lastKeyDown = Blank /\ lastBeforeInput = Blank /\ lastComposition = Blank
  /\ lastPaste = [text |-> Nothing, from |-> Nothing, age |-> Window]
  /\ composing = FALSE
  /\ browser \in Announcements
  /\ pending = <<>> /\ doing = [text |-> Enter, path |-> "key", doubtful |-> FALSE]
  /\ count = 1
  /\ recent = [k \in (Texts \cup {Enter}) \X Paths |-> Window]

-----------------------------------------------------------------------------
(* The handlers: what they send, and the records they change. *)

Sends == count' = count + 1
SendsNot == UNCHANGED count

Remember(t) == [text |-> t, age |-> 0]

(* handleKeyDown: nothing during a composition; a key that prints, or one of
   the table, is sent. *)
KeyDown(t) ==
  /\ IF composing THEN SendsNot /\ UNCHANGED lastKeyDown
     ELSE Sends /\ lastKeyDown' = Remember(t)
  /\ UNCHANGED <<lastBeforeInput, lastComposition, lastPaste, composing>>

(* Ctrl-V: the control character goes to the program and the paste comes as an
   event of its own. *)
KeyDownPaste == UNCHANGED <<records, composing, count>>

(* shouldIgnoreBeforeInput; whatever the answer, the key is forgotten. *)
EchoesKeyDown(t) == lastKeyDown.text = t /\ Fresh(lastKeyDown)

(* handleBeforeInput, insertText and insertLineBreak. *)
BeforeInput(t) ==
  /\ \/ composing /\ SendsNot /\ UNCHANGED records
     \/ /\ ~composing /\ EchoesKeyDown(t)
        /\ lastKeyDown' = Blank
        /\ SendsNot
        /\ UNCHANGED <<lastBeforeInput, lastComposition>>
     \/ /\ ~composing /\ ~EchoesKeyDown(t)
        /\ lastKeyDown' = Blank
        /\ IF t # Enter /\ lastComposition.text = t /\ Fresh(lastComposition)
           THEN /\ lastComposition' = Blank
                /\ SendsNot
                /\ UNCHANGED lastBeforeInput
           ELSE /\ Sends
                /\ lastBeforeInput' = IF t = Enter THEN lastBeforeInput
                                      ELSE Remember(t)
                /\ UNCHANGED lastComposition
  /\ UNCHANGED <<lastPaste, composing>>

CompositionStart == /\ composing' = TRUE
                    /\ UNCHANGED <<records, count>>

(* Fault: the end of a composition is not remembered. *)
CompositionEndForgets(t) ==
  /\ composing' = FALSE
  /\ IF lastBeforeInput.text = t /\ Fresh(lastBeforeInput)
     THEN lastBeforeInput' = Blank /\ SendsNot ELSE Sends /\ UNCHANGED lastBeforeInput
  /\ UNCHANGED <<lastKeyDown, lastComposition, lastPaste>>

CompositionEnd(t) ==
  /\ composing' = FALSE
  /\ IF lastBeforeInput.text = t /\ Fresh(lastBeforeInput)
     THEN /\ lastBeforeInput' = Blank
          /\ SendsNot
          /\ UNCHANGED lastComposition
     ELSE /\ Sends
          /\ lastComposition' = Remember(t)
          /\ UNCHANGED lastBeforeInput
  /\ UNCHANGED <<lastKeyDown, lastPaste>>

(* handlePaste and handleBeforeInput with insertFromPaste. *)
Paste(t, from) ==
  /\ IF lastPaste.text = t /\ lastPaste.from # from /\ Fresh(lastPaste)
     THEN /\ lastPaste' = [text |-> Nothing, from |-> Nothing, age |-> Window]
          /\ SendsNot
     ELSE /\ lastPaste' = [text |-> t, from |-> from, age |-> 0]
          /\ Sends
  /\ UNCHANGED <<lastKeyDown, lastBeforeInput, lastComposition, composing>>

Ignored == UNCHANGED <<records, composing, count>>

Handle(e, t) ==
  CASE e = "keydown" -> KeyDown(t)
    [] e = "ctrl-v" -> KeyDownPaste
    [] e = "beforeinput" -> BeforeInput(t)
    [] e = "compositionstart" -> CompositionStart
    [] e = "compositionend" -> CompositionEnd(t)
    [] e = "paste" -> Paste(t, "paste")
    [] e = "insertFromPaste" -> IF composing THEN Ignored ELSE Paste(t, "beforeinput")

-----------------------------------------------------------------------------
(* The user. *)

Do(t, p) ==
  /\ pending = <<>>
  /\ t = Enter => p \in {"key", "input"}
  /\ doing' = [text |-> t, path |-> p,
               doubtful |-> \E q \in Paths \ {p} : recent[<<t, q>>] < Window]
  /\ pending' = browser[p]
  /\ count' = 0
  /\ UNCHANGED <<records, composing, browser, recent>>

Event ==
  /\ pending # <<>>
  /\ Handle(Head(pending), doing.text)
  /\ pending' = Tail(pending)
  /\ recent' = [recent EXCEPT ![<<doing.text, doing.path>>] = 0]
  /\ UNCHANGED <<browser, doing>>

Older(r) == IF Fresh(r) THEN [r EXCEPT !.age = @ + 1] ELSE r

(* The events of one thing follow each other within a tick, but a composition
   may take its time. *)
Tick == /\ pending = <<>> \/ composing
        /\ lastKeyDown' = Older(lastKeyDown)
        /\ lastBeforeInput' = Older(lastBeforeInput)
        /\ lastComposition' = Older(lastComposition)
        /\ lastPaste' = Older(lastPaste)
        /\ recent' = [k \in DOMAIN recent |-> IF recent[k] < Window THEN recent[k] + 1
                                              ELSE Window]
        /\ UNCHANGED <<composing, browser, pending, doing, count>>

Next == \/ \E t \in Texts \cup {Enter}, p \in Paths : Do(t, p)
        \/ Event
        \/ Tick

Spec == Init /\ [][Next]_vars
-----------------------------------------------------------------------------
(* Everything the user did has been sent once, or was taken for a repetition. *)
OnceEach == pending = <<>> => \/ count = 1
                              \/ count = 0 /\ doing.doubtful
=============================================================================
