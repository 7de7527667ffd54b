------------------------------ MODULE UserInput -------------------------------
(***************************************************************************)
(* What the user of the page does, with fingers and a mouse (PointerInput) *)
(* or with keys, an input method and the clipboard (TypedInput).  Both     *)
(* reach the program through the terminal's onData; they share no other    *)
(* state, so a behaviour is about one of them.                             *)
(***************************************************************************)
EXTENDS PointerInput

CONSTANTS Texts, Window

VARIABLES
  device,  \* "pointer" or "keys"
  lastKeyDown, lastBeforeInput, lastComposition, lastPaste, composing, browser,
  pending, doing, count, recent

Keys == INSTANCE TypedInput

ASSUME KeysAssumption == /\ Window \in Nat \ {0}
                         /\ Keys!Enter \notin Texts /\ Keys!Nothing \notin Texts

keyVars == <<lastKeyDown, lastBeforeInput, lastComposition, lastPaste, composing,
             browser, pending, doing, count, recent>>

UserInit == /\ device \in {"pointer", "keys"}
            /\ PointerInit
            /\ Keys!Init
            /\ device = "pointer" =>
                 browser = CHOOSE b \in Keys!Announcements : TRUE

UserNext == /\ UNCHANGED device
            /\ \/ device = "pointer" /\ PointerNext /\ UNCHANGED keyVars
               \/ device = "keys" /\ Keys!Next /\ UNCHANGED pointerVars

UserSpec == UserInit /\ [][UserNext]_<<device, pointerVars, keyVars>>
-----------------------------------------------------------------------------
(* What the user types, composes or pastes reaches the program once, however
   the browser announces it.  Texts are all the handler has to tell a repeated
   announcement from the next input: one that comes by another path within the
   window may be taken for a repetition (ntwebterm.js:6327-6371). *)
SentOnce == Keys!OnceEach
=============================================================================
