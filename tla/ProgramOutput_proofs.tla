------------------------ MODULE ProgramOutput_proofs ------------------------
(***************************************************************************)
(* Proofs about a program's output: what the status bar shows, what the    *)
(* status records are, and that a program in the page itself is heard in   *)
(* order and to its end.                                                   *)
(*                                                                         *)
(* For the records: the observer's state says how far it is in a token (At *)
(* and Pending), so that it reports a boundary only at a token's last byte *)
(* (NextOfToken, Segment), and a chunk written in slices that end there    *)
(* has the effect that its tokens mean (SlicesMean).  The loops are        *)
(* recursive functions: that one exists, and what it has computed by its   *)
(* nth element, is proved from the smallest number that would refute it.   *)
(***************************************************************************)
EXTENDS ProgramOutput, WasmBridge, SequenceTheorems, FiniteSetTheorems, TLAPS

-----------------------------------------------------------------------------
(* The status bar. *)

(* An element of the bar, for its record and the records above it. *)
Element(s, id) ==
  [signature |-> Signature(s, RecordOf(s, id)), progress |-> RecordOf(s, id).progress,
   shows |-> Signature(s, RecordOf(s, id))]

BarInv ==
  /\ installed \in BOOLEAN
  /\ installed => bar = [id \in Ids(store) |-> Element(store, id)]

LEMMA RecordHasId ==
  ASSUME NEW s, NEW id \in Ids(s)
  PROVE  RecordOf(s, id).id = id
  BY DEF RecordOf, Ids

LEMMA ElementsAnew ==
  ASSUME NEW s, NEW t, NEW entries, entries = [id \in Ids(t) |-> Element(t, id)]
  PROVE  Render(entries, s) = [id \in Ids(s) |-> Element(s, id)]
<1> SUFFICES ASSUME NEW id \in Ids(s)
             PROVE  Render(entries, s)[id] = Element(s, id)
  BY Zenon DEF Render
<1> DEFINE r == RecordOf(s, id)
<1>1. r.id = id
  BY RecordHasId
<1>2. Signature(s, r) = <<r.state, EffectiveApp(s, id)>>
  BY <1>1 DEF Signature
<1>3. CASE id \in DOMAIN entries /\ entries[id].signature = Signature(s, r)
  <2>1. Render(entries, s)[id] = [entries[id] EXCEPT !.progress = r.progress]
    BY <1>3 DEF Render
  <2>2. entries[id] = Element(t, id)
    BY <1>3
  <2>3. entries[id].shows = entries[id].signature
    BY <2>2 DEF Element
  <2> QED
    BY <2>1, <2>2, <2>3, <1>3 DEF Element
<1>4. CASE ~(id \in DOMAIN entries /\ entries[id].signature = Signature(s, r))
  BY <1>4, <1>2 DEF Render, Element
<1> QED
  BY <1>3, <1>4

LEMMA FirstElements ==
  ASSUME NEW s
  PROVE  Render(Blank, s) = [id \in Ids(s) |-> Element(s, id)]
<1>1. Ids(<<>>) = {}
  BY DEF Ids
<1>2. Blank = [id \in Ids(<<>>) |-> Element(<<>>, id)]
  BY <1>1, Zenon DEF Blank
<1> QED
  BY <1>2, ElementsAnew

LEMMA BarSteps == ASSUME BarInv, [Next]_vars PROVE BarInv'
<1>1. ASSUME NEW s, Changes(s), installed' = installed
      PROVE  BarInv'
  BY <1>1, ElementsAnew DEF BarInv, Changes
<1>2. CASE Deliver
  BY <1>2, <1>1 DEF Deliver
<1>3. CASE Input
  BY <1>3, <1>1 DEF Input
<1>4. ASSUME NEW state \in {"connected", "disconnected"}, Adapter(state)
      PROVE  BarInv'
  BY <1>4, <1>1 DEF Adapter
<1>5. CASE Reset
  BY <1>5, <1>1 DEF Reset
<1>6. CASE Install
  BY <1>6, FirstElements DEF Install, BarInv
<1>7. CASE Dispose
  BY <1>7 DEF Dispose, BarInv
<1>8. CASE Tick \/ UNCHANGED vars
  BY <1>8 DEF Tick, BarInv, vars
<1> QED
  BY <1>2, <1>3, <1>4, <1>5, <1>6, <1>7, <1>8 DEF Next

LEMMA BarIsShown == BarInv => BarShowsRecords
<1> SUFFICES ASSUME BarInv, installed, NEW id \in Ids(store)
             PROVE  /\ bar[id].shows = <<RecordOf(store, id).state, EffectiveApp(store, id)>>
                    /\ bar[id].progress = RecordOf(store, id).progress
  BY DEF BarInv, BarShowsRecords
<1>1. bar[id] = Element(store, id)
  BY DEF BarInv
<1> QED
  BY <1>1, RecordHasId DEF Element, Signature

(* An installed bar shows the records of the store (installStatusBar's render),
   whatever the program reports and whenever the bar is installed: the elements it
   keeps for a record whose signature has not changed are what they would be if they
   were made anew. *)
THEOREM BarShown == Spec => []BarShowsRecords
<1>1. Init => BarInv
  BY DEF Init, BarInv
<1>2. BarInv /\ [Next]_vars => BarInv'
  BY BarSteps
<1> QED
  BY <1>1, <1>2, BarIsShown, PTL DEF Spec

-----------------------------------------------------------------------------
(* What a byte does to the observer, by its state. *)

Quiet(o) == o.event = "none"

LEMMA Starting ==
  ASSUME NEW o \in Observers, NEW s \in {"ground", "escape", "osc", "csi", "string"}
  PROVE  /\ Start(o, s) \in Observers /\ Start(o, s).state = s
         /\ ~Start(o, s).escaped /\ ~Start(o, s).discarded /\ Start(o, s).body = <<>>
         /\ Start(o, s).event = o.event
<1>1. Start(o, s) = [o EXCEPT !.state = s, !.escaped = FALSE, !.body = <<>>, !.discarded = FALSE]
  BY DEF Start
<1>2. <<>> \in Seq(Names)
  OBVIOUS
<1> QED
  BY <1>1, <1>2 DEF Observers

LEMMA Hushed ==
  ASSUME NEW o \in Observers, NEW r \in {"none", "reset", "screen", "prompt"}
  PROVE  /\ Event(o, r) \in Observers /\ Event(o, r).event = r
         /\ Event(o, r).state = o.state /\ Event(o, r).body = o.body
         /\ Event(o, r).escaped = o.escaped /\ Event(o, r).discarded = o.discarded
  BY DEF Event, Observers

LEMMA Finishing ==
  ASSUME NEW o \in Observers, Quiet(o)
  PROVE  /\ FinishString(o) \in Observers /\ FinishString(o).state = "ground"
         /\ FinishString(o).event
              = IF o.state = "osc" /\ ~o.discarded /\ IsPrompt(o.body) THEN "prompt" ELSE "none"
<1> DEFINE done == Start(o, "ground")
<1>1. done \in Observers /\ done.state = "ground" /\ done.event = "none"
  BY Starting DEF Quiet
<1>2. CASE o.state = "osc" /\ ~o.discarded /\ IsPrompt(o.body)
  <2>1. FinishString(o) = Event(done, "prompt")
    BY <1>2 DEF FinishString
  <2> HIDE DEF done
  <2> QED
    BY <2>1, <1>1, <1>2, Hushed
<1>3. CASE ~(o.state = "osc" /\ ~o.discarded /\ IsPrompt(o.body))
  <2>1. FinishString(o) = done
    BY <1>3 DEF FinishString
  <2> HIDE DEF done
  <2> QED
    BY <2>1, <1>1, <1>3
<1> QED
  BY <1>2, <1>3

LEMMA Collecting ==
  ASSUME NEW o \in Observers, NEW b \in Names
  PROVE  /\ Collect(o, b) \in Observers
         /\ Collect(o, b).state = o.state /\ Collect(o, b).escaped = o.escaped
         /\ Collect(o, b).event = o.event
         /\ o.state # "string" /\ ~o.discarded =>
              /\ Len(o.body) >= MaxBody => Collect(o, b).discarded
              /\ Len(o.body) < MaxBody => ~Collect(o, b).discarded
                                          /\ Collect(o, b).body = Append(o.body, b)
         /\ o.discarded => Collect(o, b).discarded
<1>0. Len(o.body) \in Nat
  BY DEF Observers
<1>1. CASE o.state = "string" \/ o.discarded
  <2>1. Collect(o, b) = o
    BY <1>1, Zenon DEF Collect
  <2> QED
    BY <2>1, <1>1
<1>2. CASE o.state # "string" /\ ~o.discarded /\ Len(o.body) >= MaxBody
  <2>1. Collect(o, b) = [o EXCEPT !.discarded = TRUE, !.body = <<>>]
    BY <1>2, Zenon DEF Collect
  <2> DEFINE c == [o EXCEPT !.discarded = TRUE, !.body = <<>>]
  <2>2. <<>> \in Seq(Names)
    OBVIOUS
  <2>3. c \in Observers /\ c.state = o.state /\ c.escaped = o.escaped /\ c.event = o.event
        /\ c.discarded
    BY <2>2 DEF Observers
  <2>4. ~(Len(o.body) < MaxBody)
    BY <1>2, <1>0, SequencesAssumption
  <2> HIDE DEF c
  <2> QED
    BY <2>1, <2>3, <2>4, <1>2, Zenon DEF c
<1>3. CASE o.state # "string" /\ ~o.discarded /\ ~(Len(o.body) >= MaxBody)
  <2>1. Collect(o, b) = [o EXCEPT !.body = Append(@, b)]
    BY <1>3, Zenon DEF Collect
  <2>2. Append(o.body, b) \in Seq(Names)
    BY DEF Observers
  <2> QED
    BY <2>1, <2>2, <1>3, SequencesAssumption DEF Observers
<1> QED
  BY <1>1, <1>2, <1>3

(* What a byte does, by the state. *)

LEMMA ByteCancels ==
  ASSUME NEW o \in Observers
  PROVE  Byte(o, "can") \in Observers /\ Byte(o, "can").state = "ground" /\ Quiet(Byte(o, "can"))
<1>1. Byte(o, "can") = Start(Event(o, "none"), "ground")
  BY Zenon DEF Byte
<1> QED
  BY <1>1, Hushed, Starting DEF Quiet

LEMMA ByteOnGround ==
  ASSUME NEW o \in Observers, o.state = "ground", NEW b \in Names, b # "can"
  PROVE  /\ Byte(o, b) \in Observers /\ Quiet(Byte(o, b))
         /\ Byte(o, b).state = IF b = "esc" THEN "escape" ELSE "ground"
<1> DEFINE e == Event(o, "none")
<1>1. e \in Observers /\ e.state = "ground" /\ Quiet(e)
  BY Hushed DEF Quiet
<1>2. Byte(o, b) = IF b = "esc" THEN Start(e, "escape") ELSE e
  BY <1>1 DEF Byte
<1> HIDE DEF e
<1> QED
  BY <1>1, <1>2, Starting DEF Quiet

LEMMA Escaping ==
  ASSUME NEW o \in Observers, Quiet(o), NEW b \in {"]", "[", "P", "c"}
  PROVE  /\ EscapeByte(o, b) \in Observers
         /\ EscapeByte(o, b).state = CASE b = "]" -> "osc" [] b = "[" -> "csi"
                                       [] b = "P" -> "string" [] b = "c" -> "ground"
         /\ EscapeByte(o, b).event = IF b = "c" THEN "reset" ELSE "none"
         /\ ~EscapeByte(o, b).escaped /\ ~EscapeByte(o, b).discarded
         /\ EscapeByte(o, b).body = <<>>
<1>1. CASE b = "]"
  BY <1>1, Starting DEF EscapeByte, Quiet
<1>2. CASE b = "["
  BY <1>2, Starting DEF EscapeByte, Quiet
<1>3. CASE b = "P"
  BY <1>3, Starting DEF EscapeByte, Quiet
<1>4. CASE b = "c"
  <2> DEFINE g == Start(o, "ground")
             r == [g EXCEPT !.alternate = FALSE]
  <2>1. g \in Observers /\ g.state = "ground" /\ ~g.escaped /\ ~g.discarded /\ g.body = <<>>
    BY Starting
  <2>2. EscapeByte(o, b) = Event(r, "reset")
    BY <1>4 DEF EscapeByte
  <2> HIDE DEF g
  <2>3. r \in Observers /\ r.state = "ground" /\ ~r.escaped /\ ~r.discarded /\ r.body = <<>>
    BY <2>1 DEF Observers
  <2> HIDE DEF r
  <2> QED
    BY <2>2, <2>3, <1>4, Hushed
<1> QED
  BY <1>1, <1>2, <1>3, <1>4

LEMMA ByteAfterEscape ==
  ASSUME NEW o \in Observers, o.state = "escape", NEW b \in {"]", "[", "P", "c"}
  PROVE  /\ Byte(o, b) \in Observers
         /\ Byte(o, b).state = CASE b = "]" -> "osc" [] b = "[" -> "csi"
                                 [] b = "P" -> "string" [] b = "c" -> "ground"
         /\ Byte(o, b).event = IF b = "c" THEN "reset" ELSE "none"
         /\ ~Byte(o, b).escaped /\ ~Byte(o, b).discarded /\ Byte(o, b).body = <<>>
<1> DEFINE e == Event(o, "none")
<1>1. e \in Observers /\ e.state = "escape" /\ Quiet(e)
  BY Hushed DEF Quiet
<1>2. b # "can" /\ b # "esc"
  OBVIOUS
<1>3. Byte(o, b) = EscapeByte(e, b)
  BY <1>1, <1>2, Zenon DEF Byte
<1> HIDE DEF e
<1> QED
  BY <1>1, <1>3, Escaping

(* A control string other than an OSC is opaque until its terminator. *)
LEMMA ByteInString ==
  ASSUME NEW o \in Observers, o.state = "string", NEW b \in Names, b # "can"
  PROVE  /\ Byte(o, b) \in Observers /\ Quiet(Byte(o, b))
         /\ Byte(o, b).state = IF o.escaped /\ b = "\\" THEN "ground" ELSE "string"
         /\ ~(o.escaped /\ b = "\\") => (Byte(o, b).escaped <=> b = "esc")
<1> DEFINE e == Event(o, "none")
<1>1. /\ e \in Observers /\ e.state = "string" /\ Quiet(e) /\ e.escaped = o.escaped
  BY Hushed DEF Quiet
<1>2. Byte(o, b) = StringByte(e, b)
  BY <1>1, Zenon DEF Byte
<1> HIDE DEF e
<1>3. CASE o.escaped /\ b = "\\"
  <2>1. Byte(o, b) = FinishString(e)
    BY <1>1, <1>2, <1>3, Zenon DEF StringByte
  <2> QED
    BY <2>1, <1>1, <1>3, Finishing DEF Quiet
<1>4. CASE ~(o.escaped /\ b = "\\") /\ b = "esc"
  <2>1. Byte(o, b) = [e EXCEPT !.escaped = TRUE]
    BY <1>1, <1>2, <1>4 DEF StringByte
  <2> QED
    BY <2>1, <1>1, <1>4 DEF Observers, Quiet
<1>5. CASE ~(o.escaped /\ b = "\\") /\ b # "esc"
  <2>1. Byte(o, b) = Collect([e EXCEPT !.escaped = FALSE], b)
    BY <1>1, <1>2, <1>5 DEF StringByte
  <2> DEFINE f == [e EXCEPT !.escaped = FALSE]
  <2>2. f \in Observers /\ f.state = "string" /\ ~f.escaped /\ f.event = "none"
    BY <1>1 DEF Observers, Quiet
  <2> HIDE DEF f
  <2>3. Byte(o, b) = Collect(f, b)
    BY <2>1 DEF f
  <2> QED
    BY <2>2, <2>3, <1>5, Collecting DEF Quiet
<1> QED
  BY <1>3, <1>4, <1>5

(* An OSC collects its words until it ends; an escape within it ends it, too. *)
LEMMA ByteInOSC ==
  ASSUME NEW o \in Observers, o.state = "osc", ~o.escaped,
         NEW b \in Names, b \notin {"can", "esc", "bel"}
  PROVE  /\ Byte(o, b) \in Observers /\ Quiet(Byte(o, b)) /\ Byte(o, b).state = "osc"
         /\ ~Byte(o, b).escaped
         /\ o.discarded => Byte(o, b).discarded
         /\ ~o.discarded =>
              /\ Len(o.body) >= MaxBody => Byte(o, b).discarded
              /\ Len(o.body) < MaxBody => ~Byte(o, b).discarded
                                          /\ Byte(o, b).body = Append(o.body, b)
<1> DEFINE e == Event(o, "none")
           f == [e EXCEPT !.escaped = FALSE]
<1>1. /\ e \in Observers /\ e.state = "osc" /\ Quiet(e) /\ e.escaped = o.escaped
      /\ e.body = o.body /\ e.discarded = o.discarded
  BY Hushed DEF Quiet
<1>2. Byte(o, b) = StringByte(e, b)
  BY <1>1, Zenon DEF Byte
<1>3. StringByte(e, b) = Collect(f, b)
  BY <1>1, Zenon DEF StringByte
<1> HIDE DEF e
<1>4. f \in Observers /\ f.state = "osc" /\ ~f.escaped /\ f.event = "none"
      /\ f.body = o.body /\ f.discarded = o.discarded
  BY <1>1 DEF Observers, Quiet
<1> HIDE DEF f
<1> QED
  BY <1>2, <1>3, <1>4, Collecting DEF Quiet

LEMMA EscapeInOSC ==
  ASSUME NEW o \in Observers, o.state = "osc", ~o.escaped
  PROVE  /\ Byte(o, "esc") \in Observers /\ Quiet(Byte(o, "esc"))
         /\ Byte(o, "esc").state = "osc" /\ Byte(o, "esc").escaped
         /\ Byte(o, "esc").body = o.body /\ Byte(o, "esc").discarded = o.discarded
<1> DEFINE e == Event(o, "none")
<1>1. /\ e \in Observers /\ e.state = "osc" /\ Quiet(e) /\ e.escaped = o.escaped
      /\ e.body = o.body /\ e.discarded = o.discarded
  BY Hushed DEF Quiet
<1>2. Byte(o, "esc") = StringByte(e, "esc")
  BY <1>1, Zenon DEF Byte
<1>3. StringByte(e, "esc") = [e EXCEPT !.escaped = TRUE]
  BY <1>1 DEF StringByte
<1> HIDE DEF e
<1> DEFINE q == [e EXCEPT !.escaped = TRUE]
<1>4. q \in Observers /\ q.escaped
  BY <1>1 DEF Observers
<1>5. q.event = e.event /\ q.state = e.state /\ q.body = e.body /\ q.discarded = e.discarded
  BY <1>1 DEF Observers
<1> HIDE DEF q
<1>6. Byte(o, "esc") = q
  BY <1>2, <1>3 DEF q
<1> QED
  BY <1>1, <1>4, <1>5, <1>6 DEF Quiet

LEMMA EndOfOSC ==
  ASSUME NEW o \in Observers, o.state = "osc",
         NEW b \in Names, IF o.escaped THEN b = "\\" ELSE b = "bel"
  PROVE  /\ Byte(o, b) \in Observers /\ Byte(o, b).state = "ground"
         /\ Byte(o, b).event = IF ~o.discarded /\ IsPrompt(o.body) THEN "prompt" ELSE "none"
<1> DEFINE e == Event(o, "none")
<1>1. /\ e \in Observers /\ e.state = "osc" /\ Quiet(e) /\ e.escaped = o.escaped
      /\ e.body = o.body /\ e.discarded = o.discarded
  BY Hushed DEF Quiet
<1>2. Byte(o, b) = StringByte(e, b)
  BY <1>1 DEF Byte
<1>3. StringByte(e, b) = FinishString(e)
  BY <1>1 DEF StringByte
<1> HIDE DEF e
<1> QED
  BY <1>1, <1>2, <1>3, Finishing

LEMMA ResetInOSC ==
  ASSUME NEW o \in Observers, o.state = "osc", o.escaped
  PROVE  /\ Byte(o, "c") \in Observers /\ Byte(o, "c").state = "ground"
         /\ Byte(o, "c").event = "reset"
<1> DEFINE e == Event(o, "none")
           f == Start(e, "escape")
<1>1. /\ e \in Observers /\ e.state = "osc" /\ Quiet(e) /\ e.escaped = o.escaped
  BY Hushed DEF Quiet
<1>2. Byte(o, "c") = StringByte(e, "c")
  BY <1>1, Zenon DEF Byte
<1>3. StringByte(e, "c") = EscapeByte(f, "c")
  BY <1>1 DEF StringByte
<1>4. f \in Observers /\ Quiet(f)
  BY <1>1, Starting DEF Quiet
<1> HIDE DEF e, f
<1> QED
  BY <1>2, <1>3, <1>4, Escaping

LEMMA ParameterInCSI ==
  ASSUME NEW o \in Observers, o.state = "csi", NEW b \in Names, IsParameter(b)
  PROVE  Byte(o, b) \in Observers /\ Quiet(Byte(o, b)) /\ Byte(o, b).state = "csi"
<1> DEFINE e == Event(o, "none")
<1>0. b # "can" /\ b # "esc" /\ b # "bel"
  BY DEF IsParameter
<1>1. e \in Observers /\ e.state = "csi" /\ Quiet(e)
  BY Hushed DEF Quiet
<1>2. Byte(o, b) = CsiByte(e, b)
  BY <1>0, <1>1, Zenon DEF Byte
<1>3. CsiByte(e, b) = Collect(e, b)
  BY <1>0, Zenon DEF CsiByte
<1> HIDE DEF e
<1>4. /\ Collect(e, b) \in Observers /\ Collect(e, b).state = e.state
      /\ Collect(e, b).event = e.event
  BY <1>1, Collecting
<1> QED
  BY <1>1, <1>2, <1>3, <1>4 DEF Quiet

LEMMA EndOfCSI ==
  ASSUME NEW o \in Observers, o.state = "csi", NEW b \in {"h", "l"}
  PROVE  /\ Byte(o, b) \in Observers /\ Byte(o, b).state = "ground"
         /\ Byte(o, b).event \in {"none", "screen"}
<1> DEFINE e == Event(o, "none")
           g == Start(e, "ground")
           a == [g EXCEPT !.alternate = (b = "h")]
<1>1. e \in Observers /\ e.state = "csi" /\ Quiet(e)
  BY Hushed DEF Quiet
<1>2. Byte(o, b) = CsiByte(e, b)
  BY <1>1 DEF Byte
<1>3. CsiByte(e, b) \in {g, Event(a, "screen")}
  BY DEF CsiByte, IsParameter
<1>4. g \in Observers /\ g.state = "ground" /\ Quiet(g)
  BY <1>1, Starting DEF Quiet
<1> HIDE DEF g
<1>5. a \in Observers /\ a.state = "ground"
  BY <1>4 DEF Observers
<1> HIDE DEF a
<1> QED
  BY <1>2, <1>3, <1>4, <1>5, Hushed DEF Quiet

-----------------------------------------------------------------------------
(* The tokens, by their shape. *)

LEMMA PairIsPrefix ==
  ASSUME NEW S, NEW a \in S, NEW b \in S, NEW s \in Seq(S)
  PROVE  IsPrefix(<<a, b>>, s) <=> Len(s) >= 2 /\ s[1] = a /\ s[2] = b
<1> DEFINE p == <<a, b>>
<1>1. p \in Seq(S) /\ Len(p) = 2 /\ p[1] = a /\ p[2] = b
  OBVIOUS
<1> HIDE DEF p
<1>2. CASE Len(s) >= 2
  <2> DEFINE c == SubSeq(p, 1, 2)
             d == SubSeq(s, 1, 2)
  <2>1. c \in Seq(S) /\ Len(c) = 2 /\ c[1] = p[1] /\ c[2] = p[2]
    BY <1>1
  <2>2. d \in Seq(S) /\ Len(d) = 2 /\ d[1] = s[1] /\ d[2] = s[2]
    BY <1>2
  <2>3. IsPrefix(p, s) <=> c = d
    BY <1>1, <1>2 DEF IsPrefix
  <2> HIDE DEF c, d
  <2>4. c = d <=> c[1] = d[1] /\ c[2] = d[2]
    BY <2>1, <2>2
  <2> QED
    BY <1>1, <1>2, <2>1, <2>2, <2>3, <2>4 DEF p
<1>3. CASE ~(Len(s) >= 2)
  <2>1. ~IsPrefix(p, s)
    BY <1>1, <1>3 DEF IsPrefix
  <2> QED
    BY <2>1, <1>3 DEF p
<1> QED
  BY <1>2, <1>3

(* 133;A, and nothing more or more after a semicolon. *)
LEMMA Prompts ==
  ASSUME NEW body \in Seq(Names)
  PROVE  IsPrompt(body) <=> /\ Len(body) >= 2 /\ body[1] = "133" /\ body[2] = "A"
                            /\ Len(body) > 2 => body[3] = "semicolon"
<1>1. "133" \in Names /\ "A" \in Names
  BY DEF Names
<1>2. IsPrefix(<<"133", "A">>, body) <=> Len(body) >= 2 /\ body[1] = "133" /\ body[2] = "A"
  BY <1>1, PairIsPrefix, Zenon
<1> QED
  BY <1>2 DEF IsPrompt

(* What a token's bytes are like: how they begin, go on and end. *)
Ends(t, ev) ==
  CASE t.means = "reset" -> ev = "reset"
    [] t.means = "prompt" -> ev = "prompt"
    [] OTHER -> ev \in {"none", "screen"}

PromptOf(bytes, words) ==
  /\ 2 <= words /\ words <= MaxBody
  /\ bytes[3] = "133" /\ bytes[4] = "A" /\ (words > 2 => bytes[5] = "semicolon")

Plain(bytes) == bytes = <<"x">>

Control(bytes) == bytes = <<"esc", "c">>

CSI(bytes) ==
  LET n == Len(bytes) IN
  /\ n >= 3 /\ bytes[1] = "esc" /\ bytes[2] = "[" /\ bytes[n] \in {"h", "l"}
  /\ \A i \in 3 .. n - 1 : IsParameter(bytes[i])

DCS(bytes) ==
  LET n == Len(bytes) IN
  /\ n >= 4 /\ bytes[1] = "esc" /\ bytes[2] = "P" /\ bytes[n - 1] = "esc" /\ bytes[n] = "\\"
  /\ \A i \in 3 .. n - 1 : bytes[i] # "can" /\ bytes[i] # "\\"

OSC(bytes) ==
  LET n == Len(bytes) IN
  /\ n >= 4 /\ bytes[1] = "esc" /\ bytes[2] = "]"
  /\ \A i \in 3 .. n - 2 : bytes[i] \notin {"can", "esc", "bel"}
  /\ \/ bytes[n] \in {"bel", "can"} /\ bytes[n - 1] \notin {"can", "esc", "bel"}
     \/ n >= 5 /\ bytes[n] \in {"\\", "c"} /\ bytes[n - 1] = "esc"

Shaped(t) ==
  LET n == Len(t.bytes)
      last == t.bytes[n]
  IN /\ t.bytes \in Seq(Names)
     /\ \/ (Plain(t.bytes) \/ CSI(t.bytes) \/ DCS(t.bytes)) /\ t.means \notin {"reset", "prompt"}
        \/ Control(t.bytes) /\ t.means = "reset"
        \/ /\ OSC(t.bytes)
           /\ t.means = "reset" <=> last = "c"
           /\ t.means = "prompt" <=> \/ last = "bel" /\ PromptOf(t.bytes, n - 3)
                                     \/ last = "\\" /\ PromptOf(t.bytes, n - 4)

LEMMA Named ==
  /\ "esc" \in Names
  /\ "bel" \in Names
  /\ "can" \in Names
  /\ "[" \in Names
  /\ "]" \in Names
  /\ "\\" \in Names
  /\ "P" \in Names
  /\ "c" \in Names
  /\ "h" \in Names
  /\ "l" \in Names
  /\ "x" \in Names
  /\ "A" \in Names
  /\ "semicolon" \in Names
  /\ "133" \in Names
  /\ "7501" \in Names
  /\ "1049" \in Names
  BY DEF Names

(* Each of the tokens, and the one whose text is too long. *)
LEMMA TokensShaped ==
  ASSUME NEW t \in Tokens
  PROVE  Shaped(t)
<1>1. ASSUME t.means = "report", t.bytes = <<"esc", "]", "7501", "bel">>
      PROVE  Shaped(t)
  <2> DEFINE b == t.bytes
  <2>1. b \in Seq(Names) /\ Len(b) = 4
    BY <1>1, Named
  <2>2. /\ b[1] = "esc" /\ b[2] = "]" /\ b[3] = "7501" /\ b[4] = "bel"
    BY <1>1
  <2> HIDE DEF b
  <2>3. OSC(b)
    BY <2>1, <2>2 DEF OSC
  <2>4. ~PromptOf(b, Len(b) - 3)
    BY <2>1, <2>2, SequencesAssumption DEF PromptOf
  <2> QED
    BY <1>1, <2>1, <2>2, <2>3, <2>4 DEF Shaped, b
<1>2. ASSUME t.means = "nothing", t.bytes = <<"x">>
      PROVE  Shaped(t)
  <2> DEFINE b == t.bytes
  <2>1. b \in Seq(Names) /\ Len(b) = 1
    BY <1>2, Named
  <2>2. /\ b[1] = "x"
    BY <1>2
  <2> HIDE DEF b
  <2>3. Plain(b)
    BY <1>2 DEF Plain, b
  <2> QED
    BY <1>2, <2>1, <2>3 DEF Shaped, b
<1>3. ASSUME t.means = "query", t.bytes = <<"esc", "[", "h">>
      PROVE  Shaped(t)
  <2> DEFINE b == t.bytes
  <2>1. b \in Seq(Names) /\ Len(b) = 3
    BY <1>3, Named
  <2>2. /\ b[1] = "esc" /\ b[2] = "[" /\ b[3] = "h"
    BY <1>3
  <2> HIDE DEF b
  <2>3. CSI(b)
    BY <2>1, <2>2 DEF CSI, IsParameter
  <2> QED
    BY <1>3, <2>1, <2>3 DEF Shaped, b
<1>4. ASSUME t.means = "reset", t.bytes = <<"esc", "c">>
      PROVE  Shaped(t)
  <2> DEFINE b == t.bytes
  <2>1. b \in Seq(Names) /\ Len(b) = 2
    BY <1>4, Named
  <2>2. /\ b[1] = "esc" /\ b[2] = "c"
    BY <1>4
  <2> HIDE DEF b
  <2>3. Control(b)
    BY <1>4 DEF Control, b
  <2> QED
    BY <1>4, <2>1, <2>3 DEF Shaped, b
<1>5. ASSUME t.means = "nothing", t.bytes = <<"esc", "[", "1049", "h">>
      PROVE  Shaped(t)
  <2> DEFINE b == t.bytes
  <2>1. b \in Seq(Names) /\ Len(b) = 4
    BY <1>5, Named
  <2>2. /\ b[1] = "esc" /\ b[2] = "[" /\ b[3] = "1049" /\ b[4] = "h"
    BY <1>5
  <2> HIDE DEF b
  <2>3. CSI(b)
    BY <2>1, <2>2 DEF CSI, IsParameter
  <2> QED
    BY <1>5, <2>1, <2>3 DEF Shaped, b
<1>6. ASSUME t.means = "nothing", t.bytes = <<"esc", "[", "1049", "l">>
      PROVE  Shaped(t)
  <2> DEFINE b == t.bytes
  <2>1. b \in Seq(Names) /\ Len(b) = 4
    BY <1>6, Named
  <2>2. /\ b[1] = "esc" /\ b[2] = "[" /\ b[3] = "1049" /\ b[4] = "l"
    BY <1>6
  <2> HIDE DEF b
  <2>3. CSI(b)
    BY <2>1, <2>2 DEF CSI, IsParameter
  <2> QED
    BY <1>6, <2>1, <2>3 DEF Shaped, b
<1>7. ASSUME t.means = "prompt", t.bytes = <<"esc", "]", "133", "A", "bel">>
      PROVE  Shaped(t)
  <2> DEFINE b == t.bytes
  <2>1. b \in Seq(Names) /\ Len(b) = 5
    BY <1>7, Named
  <2>2. /\ b[1] = "esc" /\ b[2] = "]" /\ b[3] = "133" /\ b[4] = "A"
        /\ b[5] = "bel"
    BY <1>7
  <2> HIDE DEF b
  <2>3. OSC(b)
    BY <2>1, <2>2 DEF OSC
  <2>4. PromptOf(b, Len(b) - 3)
    BY <2>1, <2>2, SequencesAssumption DEF PromptOf
  <2> QED
    BY <1>7, <2>1, <2>2, <2>3, <2>4 DEF Shaped, b
<1>8. ASSUME t.means = "prompt", t.bytes = <<"esc", "]", "133", "A", "semicolon", "esc", "\\">>
      PROVE  Shaped(t)
  <2> DEFINE b == t.bytes
  <2>1. b \in Seq(Names) /\ Len(b) = 7
    BY <1>8, Named
  <2>2. /\ b[1] = "esc" /\ b[2] = "]" /\ b[3] = "133" /\ b[4] = "A"
        /\ b[5] = "semicolon" /\ b[6] = "esc" /\ b[7] = "\\"
    BY <1>8
  <2> HIDE DEF b
  <2>3. OSC(b)
    BY <2>1, <2>2 DEF OSC
  <2>4. PromptOf(b, Len(b) - 4)
    BY <2>1, <2>2, SequencesAssumption DEF PromptOf
  <2> QED
    BY <1>8, <2>1, <2>2, <2>3, <2>4 DEF Shaped, b
<1>9. ASSUME t.means = "nothing", t.bytes = <<"esc", "]", "133", "A", "can">>
      PROVE  Shaped(t)
  <2> DEFINE b == t.bytes
  <2>1. b \in Seq(Names) /\ Len(b) = 5
    BY <1>9, Named
  <2>2. /\ b[1] = "esc" /\ b[2] = "]" /\ b[3] = "133" /\ b[4] = "A"
        /\ b[5] = "can"
    BY <1>9
  <2> HIDE DEF b
  <2>3. OSC(b)
    BY <2>1, <2>2 DEF OSC
  <2> QED
    BY <1>9, <2>1, <2>2, <2>3 DEF Shaped, b
<1>10. ASSUME t.means = "reset", t.bytes = <<"esc", "]", "133", "A", "esc", "c">>
      PROVE  Shaped(t)
  <2> DEFINE b == t.bytes
  <2>1. b \in Seq(Names) /\ Len(b) = 6
    BY <1>10, Named
  <2>2. /\ b[1] = "esc" /\ b[2] = "]" /\ b[3] = "133" /\ b[4] = "A"
        /\ b[5] = "esc" /\ b[6] = "c"
    BY <1>10
  <2> HIDE DEF b
  <2>3. OSC(b)
    BY <2>1, <2>2 DEF OSC
  <2> QED
    BY <1>10, <2>1, <2>2, <2>3 DEF Shaped, b
<1>11. ASSUME t.means = "nothing",
              t.bytes = <<"esc", "P", "esc", "]", "133", "A", "bel", "esc", "\\">>
      PROVE  Shaped(t)
  <2> DEFINE b == t.bytes
  <2>1. b \in Seq(Names) /\ Len(b) = 9
    BY <1>11, Named
  <2>2. /\ b[1] = "esc" /\ b[2] = "P" /\ b[3] = "esc" /\ b[4] = "]"
        /\ b[5] = "133" /\ b[6] = "A" /\ b[7] = "bel" /\ b[8] = "esc"
        /\ b[9] = "\\"
    BY <1>11
  <2> HIDE DEF b
  <2>3. DCS(b)
    BY <2>1, <2>2 DEF DCS
  <2> QED
    BY <1>11, <2>1, <2>3 DEF Shaped, b
<1>12. ASSUME t.means = "nothing",
              t.bytes = <<"esc", "]", "133", "A", "semicolon">>
                          \o [i \in 1 .. MaxBody - 2 |-> "x"] \o <<"bel">>
       PROVE  Shaped(t)
  <2> DEFINE b == t.bytes
             f == <<"esc", "]", "133", "A", "semicolon">>
             m == [i \in 1 .. MaxBody - 2 |-> "x"]
  <2>1. f \in Seq(Names) /\ Len(f) = 5 /\ f[1] = "esc" /\ f[2] = "]" /\ f[3] = "133"
        /\ f[4] = "A" /\ f[5] = "semicolon"
    BY Named
  <2>2. m \in Seq(Names) /\ Len(m) = MaxBody - 2 /\ \A i \in 1 .. MaxBody - 2 : m[i] = "x"
    BY Named, SequencesAssumption
  <2>3. b = f \o m \o <<"bel">>
    BY <1>12
  <2> HIDE DEF f, m, b
  <2> DEFINE g == f \o m
  <2>f. f \in Seq(Names)
    BY <2>1
  <2>m. m \in Seq(Names)
    BY <2>2
  <2>4. /\ g \in Seq(Names) /\ Len(g) = Len(f) + Len(m)
        /\ \A i \in 1 .. Len(f) + Len(m) : g[i] = IF i <= Len(f) THEN f[i] ELSE m[i - Len(f)]
    BY <2>f, <2>m, ConcatProperties
  <2> HIDE DEF g
  <2>4b. Len(g) = MaxBody + 3
    BY <2>4, <2>1, <2>2, SequencesAssumption
  <2>5. \A i \in 1 .. 5 : g[i] = f[i]
    BY <2>1, <2>2, <2>4, SequencesAssumption
  <2>5a. ASSUME NEW i \in 6 .. MaxBody + 3
         PROVE  g[i] = "x"
    <3>1. i - 5 \in 1 .. MaxBody - 2 /\ (i - 5) + 5 = i
      BY SequencesAssumption
    <3> QED
      BY <2>1, <2>2, <2>4, <3>1, SequencesAssumption
  <2>6. b \in Seq(Names) /\ Len(b) = MaxBody + 4
    BY <2>3, <2>4, <2>4b, Named, SequencesAssumption DEF g
  <2>7. /\ \A i \in 1 .. MaxBody + 3 : b[i] = g[i]
        /\ b[MaxBody + 4] = "bel"
    BY <2>3, <2>4, <2>4b, Named, SequencesAssumption DEF g
  <2>8. OSC(b)
    BY <2>1, <2>5, <2>5a, <2>6, <2>7, SequencesAssumption DEF OSC
  <2>9. ~PromptOf(b, Len(b) - 3)
    BY <2>6, SequencesAssumption DEF PromptOf
  <2> QED
    BY <1>12, <2>6, <2>7, <2>8, <2>9, SequencesAssumption DEF Shaped, b
<1>13. (\E r \in Reports : t = Report(r)) \/ t \in Tokens \ {Report(r) : r \in Reports}
  BY DEF Tokens
<1>14. CASE \E r \in Reports : t = Report(r)
  BY <1>14, <1>1 DEF Report
<1>15. CASE t \in Tokens \ {Report(r) : r \in Reports}
  <2>1. \/ t = Other("nothing", <<"x">>)
        \/ t = Other("query", <<"esc", "[", "h">>)
        \/ t = Other("reset", <<"esc", "c">>)
        \/ t = Other("nothing", <<"esc", "[", "1049", "h">>)
        \/ t = Other("nothing", <<"esc", "[", "1049", "l">>)
        \/ t = Other("prompt", <<"esc", "]", "133", "A", "bel">>)
        \/ t = Other("prompt", <<"esc", "]", "133", "A", "semicolon", "esc", "\\">>)
        \/ t = Other("nothing", <<"esc", "]", "133", "A", "can">>)
        \/ t = Other("reset", <<"esc", "]", "133", "A", "esc", "c">>)
        \/ t = Other("nothing", <<"esc", "]", "133", "A", "semicolon">>
                               \o [i \in 1 .. MaxBody - 2 |-> "x"] \o <<"bel">>)
        \/ t = Other("nothing", <<"esc", "P", "esc", "]", "133", "A", "bel", "esc", "\\">>)
    BY <1>15 DEF Tokens
  <2>2. CASE t = Other("nothing", <<"x">>)
    BY <2>2, <1>2 DEF Other
  <2>3. CASE t = Other("query", <<"esc", "[", "h">>)
    BY <2>3, <1>3 DEF Other
  <2>4. CASE t = Other("reset", <<"esc", "c">>)
    BY <2>4, <1>4 DEF Other
  <2>5. CASE t = Other("nothing", <<"esc", "[", "1049", "h">>)
    BY <2>5, <1>5 DEF Other
  <2>6. CASE t = Other("nothing", <<"esc", "[", "1049", "l">>)
    BY <2>6, <1>6 DEF Other
  <2>7. CASE t = Other("prompt", <<"esc", "]", "133", "A", "bel">>)
    BY <2>7, <1>7 DEF Other
  <2>8. CASE t = Other("prompt", <<"esc", "]", "133", "A", "semicolon", "esc", "\\">>)
    BY <2>8, <1>8 DEF Other
  <2>9. CASE t = Other("nothing", <<"esc", "]", "133", "A", "can">>)
    BY <2>9, <1>9 DEF Other
  <2>10. CASE t = Other("reset", <<"esc", "]", "133", "A", "esc", "c">>)
    BY <2>10, <1>10 DEF Other
  <2>11. CASE t = Other("nothing", <<"esc", "]", "133", "A", "semicolon">>
                                   \o [i \in 1 .. MaxBody - 2 |-> "x"] \o <<"bel">>)
    BY <2>11, <1>12 DEF Other
  <2>12. CASE t = Other("nothing", <<"esc", "P", "esc", "]", "133", "A", "bel", "esc", "\\">>)
    BY <2>12, <1>11 DEF Other
  <2> QED
    BY <2>1, <2>2, <2>3, <2>4, <2>5, <2>6, <2>7, <2>8, <2>9, <2>10, <2>11, <2>12
<1> QED
  BY <1>13, <1>14, <1>15

-----------------------------------------------------------------------------
(* A token's bytes, one after the other. *)

(* The words that an OSC has collected when k of its bytes have come. *)
Words(bytes, k) == IF bytes[k] = "esc" THEN k - 3 ELSE k - 2

(* The observer when k bytes of a token have come, not all of them. *)
At(o, bytes, k) ==
  /\ o \in Observers
  /\ k = 0 => o.state = "ground"
  /\ k = 1 => o.state = "escape"
  /\ k >= 2 /\ bytes[2] = "[" => o.state = "csi"
  /\ k >= 2 /\ bytes[2] = "P" => o.state = "string" /\ (k >= 3 => (o.escaped <=> bytes[k] = "esc"))
  /\ k >= 2 /\ bytes[2] = "]" =>
       /\ o.state = "osc"
       /\ o.escaped <=> bytes[k] = "esc"
       /\ o.discarded <=> Words(bytes, k) > MaxBody
       /\ ~o.discarded => /\ Len(o.body) = Words(bytes, k)
                          /\ \A j \in 1 .. Words(bytes, k) : o.body[j] = bytes[j + 2]

(* What has become of it after the next one. *)
Goes(o, t, k) ==
  /\ o \in Observers
  /\ IF k = Len(t.bytes) THEN o.state = "ground" /\ Ends(t, o.event)
     ELSE Quiet(o) /\ At(o, t.bytes, k)

LEMMA BodyOfPrompt ==
  ASSUME NEW bytes, NEW k \in Nat, k >= 2, NEW o, At(o, bytes, k), bytes[2] = "]",
         Words(bytes, k) \in Nat
  PROVE  ~o.discarded /\ IsPrompt(o.body) <=> PromptOf(bytes, Words(bytes, k))
<1> DEFINE w == Words(bytes, k)
<1>1. /\ o.body \in Seq(Names) /\ o.discarded \in BOOLEAN
      /\ o.discarded <=> w > MaxBody
      /\ ~o.discarded => Len(o.body) = w /\ \A j \in 1 .. w : o.body[j] = bytes[j + 2]
  BY DEF At, Observers
<1>2. IsPrompt(o.body) <=> /\ Len(o.body) >= 2 /\ o.body[1] = "133" /\ o.body[2] = "A"
                           /\ Len(o.body) > 2 => o.body[3] = "semicolon"
  BY <1>1, Prompts
<1>3. w \in Nat
  OBVIOUS
<1> HIDE DEF w
<1>4. CASE o.discarded
  BY <1>1, <1>3, <1>4, SequencesAssumption DEF PromptOf, w
<1>5. CASE ~o.discarded /\ w < 2
  BY <1>1, <1>2, <1>3, <1>5 DEF PromptOf, w
<1>6. CASE ~o.discarded /\ w >= 2
  <2>1. o.body[1] = bytes[3] /\ o.body[2] = bytes[4] /\ (w > 2 => o.body[3] = bytes[5])
    BY <1>1, <1>3, <1>6
  <2>2. w <= MaxBody
    BY <1>1, <1>3, <1>6, SequencesAssumption
  <2>3. PromptOf(bytes, w)
          <=> bytes[3] = "133" /\ bytes[4] = "A" /\ (w > 2 => bytes[5] = "semicolon")
    BY <2>2, <1>6 DEF PromptOf
  <2> QED
    BY <2>1, <2>3, <1>1, <1>2, <1>6 DEF w
<1> QED
  BY <1>3, <1>4, <1>5, <1>6

LEMMA NextOfPlain ==
  ASSUME NEW t, Shaped(t), Plain(t.bytes), NEW k \in 0 .. Len(t.bytes) - 1,
         NEW o, At(o, t.bytes, k)
  PROVE  Goes(Byte(o, t.bytes[k + 1]), t, k + 1)
<1>1. Len(t.bytes) = 1 /\ t.bytes[1] = "x"
  BY DEF Plain
<1>2. k = 0 /\ o \in Observers /\ o.state = "ground"
  BY <1>1 DEF At
<1>3. t.means # "reset" /\ t.means # "prompt"
  BY <1>1 DEF Shaped, Control, OSC
<1>4. /\ Byte(o, "x") \in Observers /\ Byte(o, "x").state = "ground" /\ Byte(o, "x").event = "none"
  BY <1>2, ByteOnGround, Named DEF Quiet
<1> QED
  BY <1>1, <1>2, <1>3, <1>4 DEF Goes, Ends

(* The others begin with an escape. *)
LEMMA NextOfEscape ==
  ASSUME NEW t, Shaped(t), ~Plain(t.bytes), NEW o, At(o, t.bytes, 0)
  PROVE  Goes(Byte(o, t.bytes[1]), t, 1)
<1>1. t.bytes[1] = "esc" /\ Len(t.bytes) # 1
  <2>1. CASE Control(t.bytes)
    BY <2>1 DEF Control
  <2>2. CASE ~Control(t.bytes)
    BY <2>2 DEF Shaped, CSI, DCS, OSC
  <2> QED
    BY <2>1, <2>2
<1>2. /\ Byte(o, "esc") \in Observers /\ Byte(o, "esc").state = "escape" /\ Quiet(Byte(o, "esc"))
  BY ByteOnGround, Named DEF At
<1>3. At(Byte(o, "esc"), t.bytes, 1)
  BY <1>2 DEF At
<1> QED
  BY <1>1, <1>2, <1>3, Zenon DEF Goes

LEMMA NextOfControl ==
  ASSUME NEW t, Shaped(t), Control(t.bytes), NEW o, At(o, t.bytes, 1)
  PROVE  Goes(Byte(o, t.bytes[2]), t, 2)
<1>1. Len(t.bytes) = 2 /\ t.bytes[2] = "c"
  BY DEF Control
<1>2. t.means = "reset"
  BY <1>1 DEF Shaped, Control, Plain, CSI, DCS, OSC
<1>3. Byte(o, "c") \in Observers /\ Byte(o, "c").state = "ground" /\ Byte(o, "c").event = "reset"
  BY ByteAfterEscape DEF At
<1> QED
  BY <1>1, <1>2, <1>3 DEF Goes, Ends

(* Its second byte says which kind it is. *)
LEMMA Introducing ==
  ASSUME NEW t, Shaped(t), CSI(t.bytes) \/ DCS(t.bytes) \/ OSC(t.bytes), NEW o, At(o, t.bytes, 1)
  PROVE  Goes(Byte(o, t.bytes[2]), t, 2)
<1> DEFINE b == t.bytes[2]
           n == Byte(o, b)
<1>1. b \in {"[", "P", "]"} /\ Len(t.bytes) # 2
  BY DEF Shaped, CSI, DCS, OSC
<1>2. o \in Observers /\ o.state = "escape"
  BY DEF At
<1>3. /\ n \in Observers /\ n.event = "none" /\ ~n.escaped /\ ~n.discarded /\ n.body = <<>>
      /\ b = "]" => n.state = "osc"
      /\ b = "[" => n.state = "csi"
      /\ b = "P" => n.state = "string"
  BY <1>1, <1>2, ByteAfterEscape
<1>4. b # "esc"
  BY <1>1
<1>5. Words(t.bytes, 2) = 0
  BY <1>4 DEF Words
<1> HIDE DEF n
<1>6. n.escaped \in BOOLEAN /\ n.discarded \in BOOLEAN
  BY <1>3 DEF Observers
<1>7. At(n, t.bytes, 2)
  BY <1>1, <1>3, <1>4, <1>5, <1>6, SequencesAssumption DEF At
<1> QED
  BY <1>1, <1>3, <1>7, Zenon DEF Goes, Quiet, n

LEMMA NextOfCSI ==
  ASSUME NEW t, Shaped(t), CSI(t.bytes), NEW k \in 2 .. Len(t.bytes) - 1, NEW o, At(o, t.bytes, k)
  PROVE  Goes(Byte(o, t.bytes[k + 1]), t, k + 1)
<1> DEFINE b == t.bytes[k + 1]
           n == Byte(o, b)
<1>1. Len(t.bytes) \in Nat /\ t.bytes \in Seq(Names) /\ t.bytes[2] = "["
      /\ k \in Nat /\ k + 1 \in 1 .. Len(t.bytes)
  BY DEF Shaped, CSI
<1>2. o \in Observers /\ o.state = "csi" /\ b \in Names
  BY <1>1 DEF At
<1>3. CASE k + 1 = Len(t.bytes)
  <2>1. b \in {"h", "l"}
    BY <1>3 DEF CSI
  <2>2. n \in Observers /\ n.state = "ground" /\ n.event \in {"none", "screen"}
    BY <2>1, <1>2, EndOfCSI
  <2>3. t.means # "reset" /\ t.means # "prompt"
    BY <1>1, <1>3, <2>1 DEF Shaped, Control, OSC
  <2> HIDE DEF n
  <2> QED
    BY <1>3, <2>2, <2>3 DEF Goes, Ends, n
<1>4. CASE k + 1 # Len(t.bytes)
  <2>1. IsParameter(b)
    BY <1>1, <1>4 DEF CSI
  <2>2. n \in Observers /\ Quiet(n) /\ n.state = "csi"
    BY <2>1, <1>2, ParameterInCSI
  <2> HIDE DEF n
  <2>3. At(n, t.bytes, k + 1)
    BY <2>2, <1>1 DEF At
  <2> QED
    BY <1>4, <2>2, <2>3 DEF Goes, n
<1> QED
  BY <1>3, <1>4

LEMMA NextOfDCS ==
  ASSUME NEW t, Shaped(t), DCS(t.bytes), NEW k \in 2 .. Len(t.bytes) - 1, NEW o, At(o, t.bytes, k)
  PROVE  Goes(Byte(o, t.bytes[k + 1]), t, k + 1)
<1> DEFINE b == t.bytes[k + 1]
           n == Byte(o, b)
<1>1. Len(t.bytes) \in Nat /\ t.bytes \in Seq(Names) /\ t.bytes[2] = "P" /\ Len(t.bytes) >= 4
      /\ k \in Nat /\ k + 1 \in 1 .. Len(t.bytes)
  BY DEF Shaped, DCS
<1>2. o \in Observers /\ o.state = "string" /\ b \in Names
      /\ (k >= 3 => (o.escaped <=> t.bytes[k] = "esc"))
  BY <1>1 DEF At
<1>3. CASE k + 1 = Len(t.bytes)
  <2>1. b = "\\" /\ t.bytes[k] = "esc" /\ k >= 3
    <3>1. k = Len(t.bytes) - 1 /\ k >= 3
      BY <1>1, <1>3
    <3>2. t.bytes[Len(t.bytes) - 1] = "esc" /\ t.bytes[Len(t.bytes)] = "\\"
      BY DEF DCS
    <3> QED
      BY <3>1, <3>2, <1>3, Zenon
  <2>2. n \in Observers /\ n.state = "ground" /\ n.event = "none"
    BY <2>1, <1>2, ByteInString DEF Quiet
  <2>3. t.means # "reset" /\ t.means # "prompt"
    BY <1>1, <1>3, <2>1 DEF Shaped, Control, OSC
  <2> HIDE DEF n
  <2> QED
    BY <1>3, <2>2, <2>3 DEF Goes, Ends, n
<1>4. CASE k + 1 # Len(t.bytes)
  <2>1. b # "can" /\ b # "\\"
    BY <1>1, <1>4 DEF DCS
  <2>2. n \in Observers /\ Quiet(n) /\ n.state = "string" /\ (n.escaped <=> b = "esc")
    BY <2>1, <1>2, ByteInString
  <2> HIDE DEF n
  <2>3. At(n, t.bytes, k + 1)
    BY <2>2, <1>1 DEF At
  <2> QED
    BY <1>4, <2>2, <2>3 DEF Goes, n
<1> QED
  BY <1>3, <1>4

LEMMA NextOfOSC ==
  ASSUME NEW t, Shaped(t), OSC(t.bytes), NEW k \in 2 .. Len(t.bytes) - 1, NEW o, At(o, t.bytes, k)
  PROVE  Goes(Byte(o, t.bytes[k + 1]), t, k + 1)
<1> DEFINE b == t.bytes[k + 1]
           n == Byte(o, b)
           l == Len(t.bytes)
           w == Words(t.bytes, k)
<1>1. l \in Nat /\ t.bytes \in Seq(Names) /\ t.bytes[2] = "]" /\ l >= 4
      /\ k \in Nat /\ k + 1 \in 1 .. l /\ k >= 2
  BY DEF Shaped, OSC
<1>2. /\ o \in Observers /\ o.state = "osc" /\ b \in Names
      /\ o.escaped <=> t.bytes[k] = "esc"
      /\ o.discarded <=> w > MaxBody
      /\ ~o.discarded => Len(o.body) = w /\ \A j \in 1 .. w : o.body[j] = t.bytes[j + 2]
  BY <1>1 DEF At
<1>3. /\ t.means = "reset" <=> t.bytes[l] = "c"
      /\ t.means = "prompt" <=> \/ t.bytes[l] = "bel" /\ PromptOf(t.bytes, l - 3)
                                \/ t.bytes[l] = "\\" /\ PromptOf(t.bytes, l - 4)
  BY <1>1 DEF Shaped, Control, OSC, Plain, CSI, DCS
<1>4. /\ \A i \in 3 .. l - 2 : t.bytes[i] \notin {"can", "esc", "bel"}
      /\ \/ t.bytes[l] \in {"bel", "can"} /\ t.bytes[l - 1] \notin {"can", "esc", "bel"}
         \/ l >= 5 /\ t.bytes[l] \in {"\\", "c"} /\ t.bytes[l - 1] = "esc"
  BY DEF OSC
<1>5. t.bytes[k] = "esc" => k >= 4 /\ k = l - 1
  BY <1>1, <1>4
<1>6. w \in Nat
  BY <1>1, <1>5 DEF Words
<1>7. ~o.discarded /\ IsPrompt(o.body) <=> PromptOf(t.bytes, w)
  BY <1>1, <1>6, BodyOfPrompt
<1>8. CASE k + 1 = l
  <2>0. k = l - 1 /\ b = t.bytes[l]
    BY <1>1, <1>8
  <2>1. CASE b = "can"
    <3>1. n \in Observers /\ n.state = "ground" /\ n.event = "none"
      BY <2>1, <1>2, ByteCancels DEF Quiet
    <3>2. t.means # "reset" /\ t.means # "prompt"
      BY <2>0, <2>1, <1>3
    <3> HIDE DEF n
    <3> QED
      BY <1>8, <3>1, <3>2 DEF Goes, Ends, n
  <2>2. CASE b = "c"
    <3>1. o.escaped
      BY <2>0, <2>2, <1>2, <1>4
    <3>2. n \in Observers /\ n.state = "ground" /\ n.event = "reset"
      BY <2>2, <3>1, <1>2, ResetInOSC
    <3>3. t.means = "reset"
      BY <2>0, <2>2, <1>3
    <3> HIDE DEF n
    <3> QED
      BY <1>8, <3>2, <3>3 DEF Goes, Ends, n
  <2>3. CASE b \in {"bel", "\\"}
    <3>1. IF o.escaped THEN b = "\\" ELSE b = "bel"
      BY <2>0, <2>3, <1>2, <1>4
    <3>2. w = IF b = "\\" THEN l - 4 ELSE l - 3
      BY <2>0, <3>1, <2>3, <1>1, <1>2 DEF Words
    <3>3. t.means = "prompt" <=> PromptOf(t.bytes, w)
      BY <2>0, <2>3, <3>2, <1>3
    <3>4. /\ n \in Observers /\ n.state = "ground"
          /\ n.event = IF ~o.discarded /\ IsPrompt(o.body) THEN "prompt" ELSE "none"
      BY <1>2, <3>1, EndOfOSC
    <3>5. t.means # "reset"
      BY <2>0, <2>3, <1>3
    <3> HIDE DEF n
    <3> QED
      BY <1>8, <3>3, <3>4, <3>5, <1>7, Zenon DEF Goes, Ends, n
  <2> QED
    BY <2>0, <2>1, <2>2, <2>3, <1>4
<1>9. CASE k + 1 # l
  <2>0. k + 1 <= l - 1 /\ t.bytes[k] # "esc" /\ ~o.escaped /\ w = k - 2
    BY <1>1, <1>2, <1>5, <1>9 DEF Words
  <2>1. CASE b = "esc"
    <3>1. Words(t.bytes, k + 1) = w
      BY <2>0, <2>1, <1>1 DEF Words
    <3>2. /\ n \in Observers /\ Quiet(n) /\ n.state = "osc" /\ n.escaped
          /\ n.body = o.body /\ n.discarded = o.discarded
      BY <2>0, <2>1, <1>2, EscapeInOSC
    <3> HIDE DEF n, w
    <3>3. At(n, t.bytes, k + 1)
      BY <2>1, <3>1, <3>2, <1>1, <1>2 DEF At
    <3> QED
      BY <1>9, <3>2, <3>3, Zenon DEF Goes, n
  <2>2. CASE b # "esc"
    <3>1. Words(t.bytes, k + 1) = w + 1
      BY <2>0, <2>2, <1>1 DEF Words
    <3>2. b \notin {"can", "esc", "bel"}
      <4>1. CASE k + 1 = l - 1
        BY <4>1, <2>2, <1>4
      <4>2. CASE k + 1 # l - 1
        <5>1. k + 1 \in 3 .. l - 2
          BY <4>2, <2>0, <1>1
        <5> QED
          BY <5>1, <1>4
      <4> QED
        BY <4>1, <4>2
    <3>3. /\ n \in Observers /\ Quiet(n) /\ n.state = "osc" /\ ~n.escaped
          /\ o.discarded => n.discarded
          /\ ~o.discarded =>
               /\ Len(o.body) >= MaxBody => n.discarded
               /\ Len(o.body) < MaxBody => ~n.discarded /\ n.body = Append(o.body, b)
      BY <2>0, <3>2, <1>2, ByteInOSC
    <3>4. o.body \in Seq(Names) /\ o.discarded \in BOOLEAN /\ n.discarded \in BOOLEAN
      BY <1>2, <3>3 DEF Observers
    <3>5. w = k - 2 /\ b = t.bytes[k + 1]
      BY <2>0
    <3> HIDE DEF n, w, b
    <3>6. n.discarded <=> w + 1 > MaxBody
      BY <3>3, <3>4, <1>2, <1>6, SequencesAssumption
    <3>7. ~n.discarded => /\ Len(n.body) = w + 1
                          /\ \A j \in 1 .. w + 1 : n.body[j] = t.bytes[j + 2]
      <4> SUFFICES ASSUME ~n.discarded
                   PROVE  /\ Len(n.body) = w + 1
                          /\ \A j \in 1 .. w + 1 : n.body[j] = t.bytes[j + 2]
        OBVIOUS
      <4>1. ~o.discarded /\ Len(o.body) = w /\ Len(o.body) < MaxBody
        BY <3>3, <3>4, <3>6, <1>2, <1>6, SequencesAssumption
      <4>2. n.body = Append(o.body, b)
        BY <4>1, <3>3
      <4>3. Len(n.body) = w + 1 /\ n.body[w + 1] = b /\ \A j \in 1 .. w : n.body[j] = o.body[j]
        BY <4>1, <4>2, <3>4, <1>2
      <4>4. \A j \in 1 .. w : n.body[j] = t.bytes[j + 2]
        BY <4>1, <4>3, <1>2
      <4>5. n.body[w + 1] = t.bytes[(w + 1) + 2]
        BY <4>3, <3>5, <1>1
      <4>6. \A j \in 1 .. w + 1 : j \in 1 .. w \/ j = w + 1
        BY <1>6
      <4> QED
        BY <4>3, <4>4, <4>5, <4>6, Zenon
    <3>8. At(n, t.bytes, k + 1)
      <4>1. k + 1 # 0 /\ k + 1 # 1 /\ t.bytes[2] # "[" /\ t.bytes[2] # "P"
        BY <1>1
      <4>2. n.escaped <=> t.bytes[k + 1] = "esc"
        BY <3>2, <3>3, <3>5
      <4>3. n.discarded <=> Words(t.bytes, k + 1) > MaxBody
        BY <3>1, <3>6
      <4> QED
        BY <3>1, <3>3, <3>7, <4>1, <4>2, <4>3, Zenon DEF At
    <3> QED
      BY <1>9, <3>3, <3>8, Zenon DEF Goes, n, b
  <2> QED
    BY <2>1, <2>2
<1> QED
  BY <1>8, <1>9

(* A token leaves the observer where it was, and tells what it means at its last byte. *)
LEMMA NextOfToken ==
  ASSUME NEW t, Shaped(t), NEW k \in 0 .. Len(t.bytes) - 1, NEW o, At(o, t.bytes, k)
  PROVE  Goes(Byte(o, t.bytes[k + 1]), t, k + 1)
<1>0. Len(t.bytes) \in Nat
  BY DEF Shaped
<1>1. CASE Plain(t.bytes)
  BY <1>1, NextOfPlain
<1>2. CASE k = 0 /\ ~Plain(t.bytes)
  BY <1>2, NextOfEscape
<1>3. CASE k > 0 /\ Control(t.bytes)
  <2>1. Len(t.bytes) = 2
    BY <1>3 DEF Control
  <2>2. k = 1
    BY <2>1, <1>3
  <2> QED
    BY <2>2, <1>3, NextOfControl
<1>4. CASE k = 1 /\ ~Plain(t.bytes) /\ ~Control(t.bytes)
  <2>1. CSI(t.bytes) \/ DCS(t.bytes) \/ OSC(t.bytes)
    BY <1>4 DEF Shaped
  <2> QED
    BY <2>1, <1>4, Introducing
<1>5. CASE k > 1 /\ ~Plain(t.bytes) /\ ~Control(t.bytes)
  <2>1. CSI(t.bytes) \/ DCS(t.bytes) \/ OSC(t.bytes)
    BY <1>5 DEF Shaped
  <2>2. k \in 2 .. Len(t.bytes) - 1
    BY <1>0, <1>5
  <2> QED
    BY <2>1, <2>2, NextOfCSI, NextOfDCS, NextOfOSC
<1> QED
  BY <1>0, <1>1, <1>2, <1>3, <1>4, <1>5

-----------------------------------------------------------------------------
(* The loop over the bytes of a chunk. *)

LEMMA Smallest ==
  ASSUME NEW T \in SUBSET Nat, T # {}
  PROVE  \E n \in T : \A m \in T : n <= m
<1> SUFFICES ASSUME \A n \in T : \E m \in T : m < n
             PROVE  FALSE
  OBVIOUS
<1> DEFINE B == {n \in Nat : \A m \in T : n < m}
           next == [n \in B |-> n + 1]
<1>1. PICK t \in T : TRUE
  OBVIOUS
<1>2. IsFiniteSet(B)
  <2>1. IsFiniteSet(0 .. t)
    BY FS_Interval
  <2>2. B \subseteq 0 .. t
    BY <1>1
  <2> QED
    BY <2>1, <2>2, FS_Subset
<1>3. \A n \in B : n + 1 \in B
  <2> SUFFICES ASSUME NEW n \in B, NEW m \in T, ~(n + 1 < m) PROVE FALSE
    OBVIOUS
  <2>1. n + 1 = m
    OBVIOUS
  <2>2. PICK k \in T : k < m
    OBVIOUS
  <2> QED
    BY <2>1, <2>2
<1>4. 0 \in B
  <2> SUFFICES ASSUME NEW m \in T, ~(0 < m) PROVE FALSE
    OBVIOUS
  <2>1. m = 0
    OBVIOUS
  <2>2. PICK k \in T : k < m
    OBVIOUS
  <2> QED
    BY <2>1, <2>2
<1>5. next \in Injection(B, B)
  BY <1>3 DEF Injection, IsInjective
<1>6. next \in Surjection(B, B)
  BY <1>2, <1>5, FS_Injection, FS_CardinalityType
<1>7. \A n \in B : next[n] # 0
  OBVIOUS
<1> QED
  BY <1>4, <1>6, <1>7 DEF Surjection

(* A step of the loop of Observed, and the function that it computes. *)
Noted(before, b, i) ==
  LET o == Byte(before.observer, b)
  IN [observer |-> o,
      found |-> IF o.event = "none" THEN before.found
                ELSE Append(before.found, [reason |-> o.event, end |-> i])]

Runs(f, first, chunk, n) ==
  f = [i \in 0 .. n |-> IF i = 0 THEN [observer |-> first, found |-> <<>>]
                        ELSE Noted(f[i - 1], chunk[i], i)]

LEMMA RunsExist ==
  ASSUME NEW first, NEW chunk, NEW n \in Nat
  PROVE  \E f : Runs(f, first, chunk, n)
<1> DEFINE C == {m \in Nat : ~\E f : Runs(f, first, chunk, m)}
<1> SUFFICES ASSUME C # {} PROVE FALSE
  OBVIOUS
<1>1. PICK m \in C : \A k \in C : m <= k
  BY Smallest
<1>2. CASE m = 0
  <2> DEFINE f == [i \in 0 .. 0 |-> [observer |-> first, found |-> <<>>]]
  <2>1. Runs(f, first, chunk, 0)
    BY DEF Runs
  <2> QED
    BY <2>1, <1>1, <1>2
<1>3. CASE m # 0
  <2>1. m \in Nat /\ m - 1 \in Nat /\ m - 1 \notin C
    BY <1>1, <1>3
  <2>2. PICK f : Runs(f, first, chunk, m - 1)
    BY <2>1
  <2> DEFINE g == [i \in 0 .. m |-> IF i = m THEN Noted(f[m - 1], chunk[m], m) ELSE f[i]]
  <2>3. ASSUME NEW i \in 0 .. m
        PROVE  g[i] = IF i = 0 THEN [observer |-> first, found |-> <<>>]
                      ELSE Noted(g[i - 1], chunk[i], i)
    <3>1. CASE i = 0
      <4>1. g[i] = f[0]
        BY <3>1, <2>1, <1>3
      <4>2. f[0] = [observer |-> first, found |-> <<>>]
        BY <2>1, <2>2 DEF Runs
      <4> QED
        BY <4>1, <4>2, <3>1
    <3>2. CASE i # 0 /\ i # m
      <4>1. i \in 0 .. m - 1 /\ i - 1 \in 0 .. m /\ i - 1 # m
        BY <3>2, <2>1
      <4>2. g[i] = f[i] /\ g[i - 1] = f[i - 1]
        BY <4>1, <3>2
      <4>3. f[i] = Noted(f[i - 1], chunk[i], i)
        BY <4>1, <3>2, <2>2 DEF Runs
      <4> QED
        BY <4>2, <4>3, <3>2, Zenon
    <3>3. CASE i # 0 /\ i = m
      <4>1. m - 1 \in 0 .. m /\ m - 1 # m
        BY <2>1
      <4>2. g[m - 1] = f[m - 1] /\ g[m] = Noted(f[m - 1], chunk[m], m)
        BY <4>1, <2>1, <3>3
      <4> QED
        BY <4>2, <3>3, Zenon
    <3> QED
      BY <3>1, <3>2, <3>3
  <2>4. Runs(g, first, chunk, m)
    BY <2>3, Zenon DEF Runs
  <2> QED
    BY <2>4, <1>1
<1> QED
  BY <1>2, <1>3

LEMMA ObservedIs ==
  ASSUME NEW first, NEW chunk, NEW n \in Nat, Len(chunk) = n
  PROVE  \E f : Runs(f, first, chunk, n) /\ Observed(first, chunk) = f[n]
<1> DEFINE after == CHOOSE f : Runs(f, first, chunk, n)
<1>1. Runs(after, first, chunk, n)
  BY RunsExist, Zenon
<1>2. Observed(first, chunk) = after[n]
  BY Zenon DEF Observed, Runs, Noted
<1> QED
  BY <1>1, <1>2, Zenon

(* The bytes of a token that follow one another in a chunk. *)
Flows(f, first, chunk, n, t, k, base) ==
  /\ n \in Nat /\ Runs(f, first, chunk, n) /\ Shaped(t)
  /\ k \in 0 .. Len(t.bytes) - 1 /\ base \in Nat /\ base <= n
  /\ At(f[base].observer, t.bytes, k)
  /\ \A m \in 1 .. Len(t.bytes) - k : base + m <= n => chunk[base + m] = t.bytes[k + m]

LEMMA Segment ==
  ASSUME NEW f, NEW first, NEW chunk, NEW n, NEW t, NEW k, NEW base,
         Flows(f, first, chunk, n, t, k, base),
         NEW m \in 1 .. Len(t.bytes) - k, base + m <= n
  PROVE  /\ Goes(f[base + m].observer, t, k + m)
         /\ f[base + m].found = IF f[base + m].observer.event = "none" THEN f[base].found
                                ELSE Append(f[base].found, [reason |-> f[base + m].observer.event,
                                                            end |-> base + m])
<1>0. /\ n \in Nat /\ Shaped(t) /\ Len(t.bytes) \in Nat /\ base \in Nat /\ base <= n
      /\ k \in 0 .. Len(t.bytes) - 1 /\ k \in Nat
  BY DEF Flows, Shaped
<1>f. /\ Runs(f, first, chunk, n)
      /\ At(f[base].observer, t.bytes, k)
      /\ \A i \in 1 .. Len(t.bytes) - k : base + i <= n => chunk[base + i] = t.bytes[k + i]
  BY DEF Flows
<1> DEFINE L == Len(t.bytes)
           Good(j) == /\ Goes(f[base + j].observer, t, k + j)
                      /\ f[base + j].found
                           = IF f[base + j].observer.event = "none" THEN f[base].found
                             ELSE Append(f[base].found,
                                         [reason |-> f[base + j].observer.event, end |-> base + j])
           C == {j \in 1 .. L - k : base + j <= n /\ ~Good(j)}
<1>1. ASSUME NEW j \in 1 .. L - k, base + j <= n, j > 1 => Good(j - 1)
      PROVE  Good(j)
  <2>1. base + j \in 1 .. n /\ (base + j) - 1 = base + (j - 1) /\ base + j # 0
    BY <1>0, <1>1
  <2>2. f[base + j] = Noted(f[base + (j - 1)], chunk[base + j], base + j)
    BY <1>f, <2>1 DEF Runs
  <2>3. chunk[base + j] = t.bytes[k + j]
    BY <1>f, <1>1
  <2> DEFINE before == f[base + (j - 1)]
  <2>4. At(before.observer, t.bytes, k + (j - 1)) /\ before.found = f[base].found
    <3>1. CASE j = 1
      BY <3>1, <1>0, <1>f
    <3>2. CASE j > 1
      <4>1. k + (j - 1) # Len(t.bytes)
        BY <1>0, <1>1
      <4>2. Goes(before.observer, t, k + (j - 1))
        BY <3>2, <1>1
      <4>3. Quiet(before.observer) /\ At(before.observer, t.bytes, k + (j - 1))
        BY <4>1, <4>2, Zenon DEF Goes
      <4> QED
        BY <4>3, <3>2, <1>1 DEF Quiet
    <3> QED
      BY <3>1, <3>2
  <2>5. Goes(Byte(before.observer, t.bytes[k + j]), t, k + j)
    <3>1. k + (j - 1) \in 0 .. Len(t.bytes) - 1 /\ (k + (j - 1)) + 1 = k + j
      BY <1>0, <1>1
    <3> HIDE DEF before
    <3>2. Goes(Byte(before.observer, t.bytes[(k + (j - 1)) + 1]), t, (k + (j - 1)) + 1)
      BY <1>0, <2>4, <3>1, NextOfToken
    <3> QED
      BY <3>1, <3>2
  <2>6. /\ f[base + j].observer = Byte(before.observer, t.bytes[k + j])
        /\ f[base + j].found = IF Byte(before.observer, t.bytes[k + j]).event = "none"
                               THEN before.found
                               ELSE Append(before.found,
                                           [reason |-> Byte(before.observer, t.bytes[k + j]).event,
                                            end |-> base + j])
    BY <2>2, <2>3 DEF Noted
  <2> HIDE DEF before
  <2> QED
    BY <2>4, <2>5, <2>6, Zenon
<1> HIDE DEF Good
<1> SUFFICES ASSUME C # {} PROVE FALSE
  BY DEF Good
<1>2. C \in SUBSET Nat
  BY <1>0
<1>3. PICK j \in C : \A i \in C : j <= i
  BY <1>2, Smallest
<1>4. j \in 1 .. L - k /\ base + j <= n /\ ~Good(j)
  BY <1>3
<1>5. j > 1 => j - 1 \in 1 .. L - k /\ base + (j - 1) <= n /\ j - 1 \notin C
  BY <1>0, <1>2, <1>3, <1>4
<1>6. j > 1 => Good(j - 1)
  BY <1>5
<1> QED
  BY <1>1, <1>4, <1>6

-----------------------------------------------------------------------------
(* The loop over the boundaries of a chunk. *)

(* Where the slice after k boundaries begins. *)
Begins(boundaries, k) == IF k = 0 THEN 0 ELSE boundaries[k].end

(* The records when k boundaries have been dealt with. *)
Cleared(c, s, marks, boundaries, n) ==
  c = [k \in 0 .. n |->
         IF k = 0 THEN s
         ELSE Clears(WriteTerminal(c[k - 1], marks, IF k - 1 = 0 THEN 0 ELSE boundaries[k - 1].end,
                                   boundaries[k].end),
                     boundaries[k].reason)]

LEMMA ClearedExists ==
  ASSUME NEW s, NEW marks, NEW boundaries, NEW n \in Nat
  PROVE  \E c : Cleared(c, s, marks, boundaries, n)
<1> DEFINE C == {m \in Nat : ~\E c : Cleared(c, s, marks, boundaries, m)}
           Next1(t, k) ==
             Clears(WriteTerminal(t, marks, IF k - 1 = 0 THEN 0 ELSE boundaries[k - 1].end,
                                  boundaries[k].end),
                    boundaries[k].reason)
<1> SUFFICES ASSUME C # {} PROVE FALSE
  OBVIOUS
<1>0. ASSUME NEW c, NEW m
      PROVE  Cleared(c, s, marks, boundaries, m)
               <=> c = [k \in 0 .. m |-> IF k = 0 THEN s ELSE Next1(c[k - 1], k)]
  BY Zenon DEF Cleared
<1> HIDE DEF Next1
<1>1. PICK m \in C : \A k \in C : m <= k
  BY Smallest
<1>2. CASE m = 0
  <2> DEFINE f == [i \in 0 .. 0 |-> s]
  <2>1. f = [k \in 0 .. 0 |-> IF k = 0 THEN s ELSE Next1(f[k - 1], k)]
    OBVIOUS
  <2> QED
    BY <2>1, <1>0, <1>1, <1>2
<1>3. CASE m # 0
  <2>1. m \in Nat /\ m - 1 \in Nat /\ m - 1 \notin C
    BY <1>1, <1>3
  <2>2. PICK f : f = [k \in 0 .. m - 1 |-> IF k = 0 THEN s ELSE Next1(f[k - 1], k)]
    BY <2>1, <1>0
  <2> DEFINE g == [i \in 0 .. m |-> IF i = m THEN Next1(f[m - 1], m) ELSE f[i]]
  <2>3. ASSUME NEW i \in 0 .. m
        PROVE  g[i] = IF i = 0 THEN s ELSE Next1(g[i - 1], i)
    <3>1. CASE i = 0
      BY <3>1, <2>1, <2>2, <1>3
    <3>2. CASE i # 0 /\ i # m
      <4>1. i \in 0 .. m - 1 /\ i - 1 \in 0 .. m /\ i - 1 # m
        BY <3>2, <2>1
      <4>2. g[i] = f[i] /\ g[i - 1] = f[i - 1]
        BY <4>1, <3>2
      <4>3. f[i] = Next1(f[i - 1], i)
        BY <4>1, <3>2, <2>2
      <4> QED
        BY <4>2, <4>3, <3>2, Zenon
    <3>3. CASE i # 0 /\ i = m
      <4>1. m - 1 \in 0 .. m /\ m - 1 # m
        BY <2>1
      <4>2. g[m - 1] = f[m - 1] /\ g[m] = Next1(f[m - 1], m)
        BY <4>1, <2>1, <3>3
      <4> QED
        BY <4>2, <3>3, Zenon
    <3> QED
      BY <3>1, <3>2, <3>3
  <2>4. g = [k \in 0 .. m |-> IF k = 0 THEN s ELSE Next1(g[k - 1], k)]
    BY <2>3, Zenon
  <2>5. Cleared(g, s, marks, boundaries, m)
    BY <2>4, <1>0, Zenon
  <2> QED
    BY <2>5, <1>1
<1> QED
  BY <1>2, <1>3

LEMMA WriteSlicesIs ==
  ASSUME NEW s, NEW marks, NEW length, NEW boundaries, Len(boundaries) \in Nat
  PROVE  \E c : /\ Cleared(c, s, marks, boundaries, Len(boundaries))
                /\ WriteSlices(s, marks, length, boundaries)
                     = WriteTerminal(c[Len(boundaries)], marks,
                                     Begins(boundaries, Len(boundaries)), length)
<1> DEFINE n == Len(boundaries)
           cleared == CHOOSE c : Cleared(c, s, marks, boundaries, n)
<1>1. Cleared(cleared, s, marks, boundaries, n)
  BY ClearedExists, Zenon
<1>2. WriteSlices(s, marks, length, boundaries)
        = WriteTerminal(cleared[n], marks, Begins(boundaries, n), length)
  BY Zenon DEF WriteSlices, Cleared, Begins
<1> QED
  BY <1>1, <1>2, Zenon

LEMMA SlicesNone ==
  ASSUME NEW s, NEW marks, NEW length
  PROVE  WriteSlices(s, marks, length, <<>>) = WriteTerminal(s, marks, 0, length)
<1> DEFINE b == <<>>
<1>1. Len(b) = 0
  OBVIOUS
<1>n. Len(b) \in Nat /\ Len(b) = 0
  BY <1>1
<1> HIDE DEF b
<1>m. PICK c : /\ Cleared(c, s, marks, b, Len(b))
               /\ WriteSlices(s, marks, length, b)
                    = WriteTerminal(c[Len(b)], marks, Begins(b, Len(b)), length)
  <2>1. Len(b) \in Nat
    BY <1>n
  <2> QED
    BY <2>1, WriteSlicesIs
<1>2. /\ Cleared(c, s, marks, b, 0)
      /\ WriteSlices(s, marks, length, b) = WriteTerminal(c[0], marks, Begins(b, 0), length)
  BY <1>m, <1>n, Zenon
<1>3. c[0] = s
  BY <1>2 DEF Cleared
<1> QED
  BY <1>2, <1>3, Zenon DEF b, Begins

LEMMA SlicesOne ==
  ASSUME NEW s, NEW marks, NEW length, NEW one
  PROVE  WriteSlices(s, marks, length, <<one>>)
           = WriteTerminal(Clears(WriteTerminal(s, marks, 0, one.end), one.reason),
                           marks, one.end, length)
<1> DEFINE b == <<one>>
<1>1. Len(b) = 1 /\ b[1] = one
  OBVIOUS
<1>n. Len(b) \in Nat /\ Len(b) = 1
  BY <1>1
<1> HIDE DEF b
<1>m. PICK c : /\ Cleared(c, s, marks, b, Len(b))
               /\ WriteSlices(s, marks, length, b)
                    = WriteTerminal(c[Len(b)], marks, Begins(b, Len(b)), length)
  <2>1. Len(b) \in Nat
    BY <1>n
  <2> QED
    BY <2>1, WriteSlicesIs
<1>2. /\ Cleared(c, s, marks, b, 1)
      /\ WriteSlices(s, marks, length, b) = WriteTerminal(c[1], marks, Begins(b, 1), length)
  BY <1>m, <1>n, Zenon
<1>3. c[0] = s
  BY <1>2 DEF Cleared
<1>4. c[1] = Clears(WriteTerminal(c[1 - 1], marks, IF 1 - 1 = 0 THEN 0 ELSE b[1 - 1].end, b[1].end),
                    b[1].reason)
  BY <1>2 DEF Cleared
<1>5. 1 - 1 = 0 /\ 1 # 0
  OBVIOUS
<1>6. c[1] = Clears(WriteTerminal(s, marks, 0, one.end), one.reason)
  BY <1>1, <1>3, <1>4, <1>5, Zenon
<1> QED
  BY <1>1, <1>2, <1>5, <1>6, Zenon DEF b, Begins

LEMMA SlicesTwo ==
  ASSUME NEW s, NEW marks, NEW length, NEW one, NEW two
  PROVE  WriteSlices(s, marks, length, <<one, two>>)
           = WriteTerminal(
               Clears(WriteTerminal(Clears(WriteTerminal(s, marks, 0, one.end), one.reason),
                                    marks, one.end, two.end), two.reason),
               marks, two.end, length)
<1> DEFINE b == <<one, two>>
<1>1. Len(b) = 2 /\ b[1] = one /\ b[2] = two
  OBVIOUS
<1>n. Len(b) \in Nat /\ Len(b) = 2
  BY <1>1
<1> HIDE DEF b
<1>m. PICK c : /\ Cleared(c, s, marks, b, Len(b))
               /\ WriteSlices(s, marks, length, b)
                    = WriteTerminal(c[Len(b)], marks, Begins(b, Len(b)), length)
  <2>1. Len(b) \in Nat
    BY <1>n
  <2> QED
    BY <2>1, WriteSlicesIs
<1>2. /\ Cleared(c, s, marks, b, 2)
      /\ WriteSlices(s, marks, length, b) = WriteTerminal(c[2], marks, Begins(b, 2), length)
  BY <1>m, <1>n, Zenon
<1>3. c[0] = s
  BY <1>2 DEF Cleared
<1>4. /\ c[1] = Clears(WriteTerminal(c[1 - 1], marks,
                                     IF 1 - 1 = 0 THEN 0 ELSE b[1 - 1].end, b[1].end),
                       b[1].reason)
      /\ c[2] = Clears(WriteTerminal(c[2 - 1], marks,
                                     IF 2 - 1 = 0 THEN 0 ELSE b[2 - 1].end, b[2].end),
                       b[2].reason)
  BY <1>2 DEF Cleared
<1>5. 1 - 1 = 0 /\ 1 # 0 /\ 2 - 1 = 1 /\ 2 # 0
  OBVIOUS
<1>6. c[1] = Clears(WriteTerminal(s, marks, 0, one.end), one.reason)
  BY <1>1, <1>3, <1>4, <1>5, Zenon
<1>7. c[2] = Clears(WriteTerminal(c[1], marks, one.end, two.end), two.reason)
  BY <1>1, <1>4, <1>5, Zenon
<1> QED
  BY <1>1, <1>2, <1>5, <1>6, <1>7, Zenon DEF b, Begins

(* What is done at the end of a token is what it means. *)

LEMMA Heard ==
  ASSUME Consumes, NEW s, NEW t, NEW ev, Ends(t, ev)
  PROVE  /\ Clears(Acts(s, t), ev) = Meaning(s, t)
         /\ ev = "none" => Acts(s, t) = Meaning(s, t)
<1>1. CASE t.means = "report"
  <2>1. Acts(s, t) = Apply(s, t.report, clock) /\ Meaning(s, t) = Apply(s, t.report, clock)
    BY <1>1, Zenon DEF Acts, Meaning
  <2>2. ev \in {"none", "screen"}
    BY <1>1 DEF Ends
  <2>3. ASSUME NEW u PROVE Clears(u, ev) = u
    BY <2>2 DEF Clears
  <2> QED
    BY <2>1, <2>3, Zenon
<1>2. CASE t.means = "reset"
  <2>1. Meaning(s, t) = <<>> /\ ev = "reset"
    BY <1>2 DEF Meaning, Ends
  <2> QED
    BY <2>1 DEF Clears
<1>3. CASE t.means = "prompt"
  <2>1. Acts(s, t) = s /\ Meaning(s, t) = Prompt(s) /\ ev = "prompt"
    BY <1>3 DEF Acts, Meaning, Ends
  <2> QED
    BY <2>1 DEF Clears
<1>4. CASE t.means \notin {"report", "reset", "prompt"}
  <2>1. Acts(s, t) = s
    BY <1>4 DEF Acts, ForwardInput
  <2>2. Meaning(s, t) = s /\ ev \in {"none", "screen"}
    BY <1>4 DEF Meaning, Ends
  <2>3. Clears(s, ev) = s
    BY <2>2 DEF Clears
  <2> QED
    BY <2>1, <2>2, <2>3, Zenon
<1> QED
  BY <1>1, <1>2, <1>3, <1>4

LEMMA Unheard ==
  ASSUME ~Consumes, NEW s, NEW t
  PROVE  Acts(s, t) = s /\ Meaning(s, t) = s
<1>1. Meaning(s, t) = s
  BY DEF Meaning
<1>2. CASE t.means = "query"
  <2>1. Acts(s, t) = ForwardInput(s, 1)
    BY <1>2 DEF Acts
  <2> QED
    BY <2>1, <1>1 DEF ForwardInput
<1>3. CASE t.means # "query"
  BY <1>1, <1>3 DEF Acts
<1> QED
  BY <1>2, <1>3

(* Of nothing, nothing is heard. *)
LEMMA Nothing ==
  ASSUME NEW s, NEW t, t.means = "nothing"
  PROVE  Acts(s, t) = s /\ Meaning(s, t) = s
  BY DEF Acts, Meaning

LEMMA Writing ==
  ASSUME NEW s, NEW one, NEW two, NEW a \in Nat, NEW b \in Nat, NEW first \in Nat, NEW last \in Nat
  PROVE  LET marks == <<[token |-> one, at |-> a], [token |-> two, at |-> b]>>
             t == IF first < a /\ a <= last THEN Acts(s, one) ELSE s
         IN WriteTerminal(s, marks, first, last)
              = IF first < b /\ b <= last THEN Acts(t, two) ELSE t
<1> DEFINE p == [token |-> one, at |-> a]
           q == [token |-> two, at |-> b]
           marks == <<p, q>>
<1>1. marks[1] = p /\ marks[2] = q
  OBVIOUS
<1>2. p.token = one /\ p.at = a /\ q.token = two /\ q.at = b
  OBVIOUS
<1> HIDE DEF p, q, marks
<1> QED
  BY <1>1, <1>2, Zenon DEF WriteTerminal, marks, p, q

LEMMA Telling ==
  ASSUME NEW s, NEW one, NEW two, NEW a \in Nat, NEW b \in Nat, NEW last \in Nat
  PROVE  LET marks == <<[token |-> one, at |-> a], [token |-> two, at |-> b]>>
             t == IF a <= last THEN Meaning(s, one) ELSE s
         IN Means(s, marks, last) = IF b <= last THEN Meaning(t, two) ELSE t
<1> DEFINE p == [token |-> one, at |-> a]
           q == [token |-> two, at |-> b]
           marks == <<p, q>>
<1>1. marks[1] = p /\ marks[2] = q
  OBVIOUS
<1>2. p.token = one /\ p.at = a /\ q.token = two /\ q.at = b
  OBVIOUS
<1> HIDE DEF p, q, marks
<1> QED
  BY <1>1, <1>2, Zenon DEF Means, marks, p, q

-----------------------------------------------------------------------------
(* A chunk has the effect that its tokens mean. *)

(* The boundaries of a chunk in which one token ends, and perhaps another one. *)
Found(ev1, old, ev2, all) ==
  IF ev1 = "none"
  THEN IF ev2 = "none" THEN <<>> ELSE <<[reason |-> ev2, end |-> all]>>
  ELSE IF ev2 = "none" THEN <<[reason |-> ev1, end |-> old]>>
       ELSE <<[reason |-> ev1, end |-> old], [reason |-> ev2, end |-> all]>>

Both(one, old, two, all) == <<[token |-> one, at |-> old], [token |-> two, at |-> all]>>

(* Written in slices, a chunk has the effect that its tokens mean. *)
LEMMA SlicesMean ==
  ASSUME Consumes, NEW s, NEW one, NEW two, NEW old \in Nat, NEW all \in Nat, NEW n \in Nat,
         NEW ev1, NEW ev2, old <= all, n <= all,
         old = 0 => one.means = "nothing" /\ ev1 = "none",
         all = old => two.means = "nothing" /\ ev2 = "none",
         old <= n => Ends(one, ev1), n < old => ev1 = "none",
         all <= n => Ends(two, ev2), n < all => ev2 = "none"
  PROVE  WriteSlices(s, Both(one, old, two, all), n, Found(ev1, old, ev2, all))
           = Means(s, Both(one, old, two, all), n)
<1> DEFINE marks == Both(one, old, two, all)
           m1 == IF old <= n THEN Meaning(s, one) ELSE s
           m2 == IF all <= n THEN Meaning(m1, two) ELSE m1
           b1 == [reason |-> ev1, end |-> old]
           b2 == [reason |-> ev2, end |-> all]
<1>1. Means(s, marks, n) = m2
  BY Telling DEF Both
<1>2. ASSUME NEW u, NEW first \in Nat, NEW last \in Nat
      PROVE  LET t == IF first < old /\ old <= last THEN Acts(u, one) ELSE u
             IN WriteTerminal(u, marks, first, last)
                  = IF first < all /\ all <= last THEN Acts(t, two) ELSE t
  BY Writing DEF Both
<1>3. b1.reason = ev1 /\ b1.end = old /\ b2.reason = ev2 /\ b2.end = all
  OBVIOUS
<1>4. /\ old = 0 => \A u : Acts(u, one) = u /\ Meaning(u, one) = u
      /\ all = old => \A u : Acts(u, two) = u /\ Meaning(u, two) = u
  BY Nothing
<1>5. /\ old <= n => \A u : /\ Clears(Acts(u, one), ev1) = Meaning(u, one)
                            /\ ev1 = "none" => Acts(u, one) = Meaning(u, one)
      /\ all <= n => \A u : /\ Clears(Acts(u, two), ev2) = Meaning(u, two)
                            /\ ev2 = "none" => Acts(u, two) = Meaning(u, two)
  BY Heard
<1> HIDE DEF marks, b1, b2
<1>6. CASE ev1 = "none" /\ ev2 = "none"
  <2>1. WriteSlices(s, marks, n, Found(ev1, old, ev2, all)) = WriteTerminal(s, marks, 0, n)
    BY <1>6, SlicesNone DEF Found
  <2>2. (IF 0 < old /\ old <= n THEN Acts(s, one) ELSE s) = m1
    BY <1>4, <1>5, <1>6
  <2> HIDE DEF m1
  <2>3. WriteTerminal(s, marks, 0, n) = IF 0 < all /\ all <= n THEN Acts(m1, two) ELSE m1
    BY <1>2, <2>2
  <2>4. (IF 0 < all /\ all <= n THEN Acts(m1, two) ELSE m1) = m2
    BY <1>4, <1>5, <1>6
  <2> QED
    BY <1>1, <2>1, <2>3, <2>4, Zenon DEF marks
<1>7. CASE ev1 = "none" /\ ev2 # "none"
  <2>0. n = all /\ old < all
    BY <1>7
  <2>1. WriteSlices(s, marks, n, Found(ev1, old, ev2, all))
          = WriteTerminal(Clears(WriteTerminal(s, marks, 0, all), ev2), marks, all, n)
    <3>1. Found(ev1, old, ev2, all) = <<b2>>
      BY <1>7 DEF Found, b2
    <3>2. WriteSlices(s, marks, n, <<b2>>)
            = WriteTerminal(Clears(WriteTerminal(s, marks, 0, b2.end), b2.reason), marks, b2.end, n)
      BY SlicesOne
    <3> QED
      BY <1>3, <3>1, <3>2, Zenon
  <2>2. (IF 0 < old /\ old <= all THEN Acts(s, one) ELSE s) = m1
    BY <1>4, <1>5, <1>7, <2>0
  <2> HIDE DEF m1
  <2>3. WriteTerminal(s, marks, 0, all) = Acts(m1, two)
    BY <1>2, <2>0, <2>2
  <2>4. Clears(Acts(m1, two), ev2) = m2
    BY <1>5, <2>0
  <2> HIDE DEF m2
  <2>5. WriteTerminal(m2, marks, all, n) = m2
    BY <1>2, <2>0
  <2> QED
    BY <1>1, <2>1, <2>3, <2>4, <2>5, Zenon DEF marks
<1>8. CASE ev1 # "none" /\ ev2 = "none"
  <2>0. old <= n /\ 0 < old /\ m1 = Meaning(s, one)
    BY <1>8
  <2>1. WriteSlices(s, marks, n, Found(ev1, old, ev2, all))
          = WriteTerminal(Clears(WriteTerminal(s, marks, 0, old), ev1), marks, old, n)
    <3>1. Found(ev1, old, ev2, all) = <<b1>>
      BY <1>8 DEF Found, b1
    <3>2. WriteSlices(s, marks, n, <<b1>>)
            = WriteTerminal(Clears(WriteTerminal(s, marks, 0, b1.end), b1.reason), marks, b1.end, n)
      BY SlicesOne
    <3> QED
      BY <1>3, <3>1, <3>2, Zenon
  <2>2. WriteTerminal(s, marks, 0, old) = Acts(s, one)
    BY <1>2, <1>4, <2>0
  <2>3. Clears(Acts(s, one), ev1) = m1
    BY <1>5, <2>0
  <2> HIDE DEF m1
  <2>4. WriteTerminal(m1, marks, old, n) = IF old < all /\ all <= n THEN Acts(m1, two) ELSE m1
    BY <1>2, <2>0
  <2>5. (IF old < all /\ all <= n THEN Acts(m1, two) ELSE m1) = m2
    BY <1>4, <1>5, <1>8
  <2> QED
    BY <1>1, <2>1, <2>2, <2>3, <2>4, <2>5, Zenon DEF marks
<1>9. CASE ev1 # "none" /\ ev2 # "none"
  <2>0. n = all /\ 0 < old /\ old < all /\ m1 = Meaning(s, one)
    BY <1>9
  <2>1. WriteSlices(s, marks, n, Found(ev1, old, ev2, all))
          = WriteTerminal(Clears(WriteTerminal(Clears(WriteTerminal(s, marks, 0, old), ev1),
                                               marks, old, all), ev2), marks, all, n)
    <3>1. Found(ev1, old, ev2, all) = <<b1, b2>>
      BY <1>9 DEF Found, b1, b2
    <3>2. WriteSlices(s, marks, n, <<b1, b2>>)
            = WriteTerminal(
                Clears(WriteTerminal(Clears(WriteTerminal(s, marks, 0, b1.end), b1.reason),
                                     marks, b1.end, b2.end), b2.reason),
                marks, b2.end, n)
      BY SlicesTwo
    <3> QED
      BY <1>3, <3>1, <3>2, Zenon
  <2>2. WriteTerminal(s, marks, 0, old) = Acts(s, one)
    BY <1>2, <2>0
  <2>3. Clears(Acts(s, one), ev1) = m1
    BY <1>5, <2>0
  <2> HIDE DEF m1
  <2>4. WriteTerminal(m1, marks, old, all) = Acts(m1, two)
    <3>1. ~(old < old) /\ old < all /\ all <= all
      BY <2>0
    <3> QED
      BY <1>2, <3>1, Zenon
  <2>5. Clears(Acts(m1, two), ev2) = m2
    BY <1>5, <2>0
  <2> HIDE DEF m2
  <2>6. WriteTerminal(m2, marks, all, n) = m2
    BY <1>2, <2>0
  <2> QED
    BY <1>1, <2>1, <2>2, <2>3, <2>4, <2>5, <2>6, Zenon DEF marks
<1> QED
  BY <1>6, <1>7, <1>8, <1>9 DEF marks

(* Where the observer is: between two tokens, or in one of them. *)
Pending(o, r) ==
  /\ o \in Observers
  /\ \/ r.means = "nothing" /\ r.bytes = <<>> /\ o.state = "ground"
     \/ \E t \in Tokens : \E k \in 1 .. Len(t.bytes) - 1 :
          /\ r.means = t.means
          /\ r.bytes = SubSeq(t.bytes, k + 1, Len(t.bytes))
          /\ At(o, t.bytes, k)

LEMMA HushedAt ==
  ASSUME NEW o, NEW bytes, NEW k, At(o, bytes, k)
  PROVE  At(Event(o, "none"), bytes, k)
<1>1. o \in Observers
  BY DEF At
<1> DEFINE e == Event(o, "none")
<1>2. /\ e \in Observers /\ e.state = o.state /\ e.body = o.body
      /\ e.escaped = o.escaped /\ e.discarded = o.discarded
  BY <1>1, Hushed
<1> HIDE DEF e
<1> QED
  BY <1>2 DEF At, e

LEMMA ChunkOfTwo ==
  ASSUME NEW one \in Seq(Names), NEW two \in Seq(Names), NEW n \in Nat, n <= Len(one) + Len(two)
  PROVE  LET chunk == SubSeq(one \o two, 1, n)
         IN /\ Len(chunk) = n
            /\ \A i \in 1 .. n : i <= Len(one) => chunk[i] = one[i]
            /\ \A i \in 1 .. Len(two) : Len(one) + i <= n => chunk[Len(one) + i] = two[i]
<1> DEFINE both == one \o two
<1>1. /\ both \in Seq(Names) /\ Len(both) = Len(one) + Len(two)
      /\ \A i \in 1 .. Len(one) + Len(two) :
           both[i] = IF i <= Len(one) THEN one[i] ELSE two[i - Len(one)]
  BY ConcatProperties
<1> HIDE DEF both
<1> DEFINE chunk == SubSeq(both, 1, n)
<1>2. Len(chunk) = n /\ \A i \in 1 .. n : chunk[i] = both[i]
  BY <1>1
<1> HIDE DEF chunk
<1>3. Len(one) \in Nat /\ Len(two) \in Nat
  OBVIOUS
<1>4. \A i \in 1 .. n : i <= Len(one) => chunk[i] = one[i]
  BY <1>1, <1>2, <1>3
<1>5. ASSUME NEW i \in 1 .. Len(two), Len(one) + i <= n
      PROVE  chunk[Len(one) + i] = two[i]
  <2>1. /\ Len(one) + i \in 1 .. n /\ Len(one) + i \in 1 .. Len(one) + Len(two)
        /\ ~(Len(one) + i <= Len(one)) /\ (Len(one) + i) - Len(one) = i
    BY <1>3, <1>5
  <2> QED
    BY <1>1, <1>2, <2>1
<1> QED
  BY <1>2, <1>4, <1>5 DEF chunk, both

LEMMA TokenLength ==
  ASSUME NEW t \in Tokens
  PROVE  Shaped(t) /\ t.bytes \in Seq(Names) /\ Len(t.bytes) \in Nat /\ Len(t.bytes) >= 1
<1>1. Shaped(t)
  BY TokensShaped
<1>2. CASE Plain(t.bytes) \/ Control(t.bytes)
  <2>1. t.bytes \in Seq(Names)
    BY <1>1 DEF Shaped
  <2>2. Len(t.bytes) = 1 \/ Len(t.bytes) = 2
    BY <1>2 DEF Plain, Control
  <2>3. Len(t.bytes) \in Nat /\ Len(t.bytes) >= 1
    BY <2>2
  <2> QED
    BY <1>1, <2>1, <2>3, Zenon
<1>3. CASE ~(Plain(t.bytes) \/ Control(t.bytes))
  BY <1>1, <1>3 DEF Shaped, CSI, DCS, OSC
<1> QED
  BY <1>1, <1>2, <1>3

(* What is left of a token, and how far the observer is then. *)
LEMMA RestOfToken ==
  ASSUME NEW t \in Tokens, NEW k \in 1 .. Len(t.bytes) - 1, NEW bytes,
         bytes = SubSeq(t.bytes, k + 1, Len(t.bytes))
  PROVE  /\ bytes \in Seq(Names) /\ Len(bytes) = Len(t.bytes) - k
         /\ \A m \in 1 .. Len(t.bytes) - k : bytes[m] = t.bytes[k + m]
<1>1. t.bytes \in Seq(Names) /\ Len(t.bytes) \in Nat
  BY TokenLength
<1> DEFINE b == t.bytes
<1> HIDE DEF b
<1>2. /\ b \in Seq(Names) /\ Len(b) \in Nat /\ k \in 1 .. Len(b) - 1
      /\ bytes = SubSeq(b, k + 1, Len(b))
  BY <1>1 DEF b
<1>3. bytes \in Seq(Names) /\ Len(bytes) = Len(b) - k
  BY <1>2
<1>4. \A m \in 1 .. Len(b) - k : bytes[m] = b[k + m]
  BY <1>2
<1> QED
  BY <1>3, <1>4 DEF b

LEMMA PendingBytes ==
  ASSUME NEW o, NEW r, Pending(o, r)
  PROVE  r.bytes \in Seq(Names) /\ Len(r.bytes) \in Nat /\ (Len(r.bytes) = 0 => r.means = "nothing")
<1>1. CASE r.means = "nothing" /\ r.bytes = <<>>
  BY <1>1
<1>2. CASE \E t \in Tokens : \E k \in 1 .. Len(t.bytes) - 1 :
              r.bytes = SubSeq(t.bytes, k + 1, Len(t.bytes))
  <2>1. PICK t \in Tokens : \E k \in 1 .. Len(t.bytes) - 1 :
             r.bytes = SubSeq(t.bytes, k + 1, Len(t.bytes))
    BY <1>2
  <2>1a. PICK k \in 1 .. Len(t.bytes) - 1 : r.bytes = SubSeq(t.bytes, k + 1, Len(t.bytes))
    BY <2>1
  <2>2. Len(t.bytes) \in Nat
    BY TokenLength
  <2>3. r.bytes \in Seq(Names) /\ Len(r.bytes) = Len(t.bytes) - k
    BY <2>1a, RestOfToken
  <2> QED
    BY <2>2, <2>3
<1> QED
  BY <1>1, <1>2 DEF Pending

(* The chunk has all of what is left of a token. *)
LEMMA FirstEnds ==
  ASSUME NEW o, NEW r, Pending(o, r), NEW f, NEW chunk, NEW n \in Nat, Runs(f, o, chunk, n),
         Len(r.bytes) <= n, \A i \in 1 .. n : i <= Len(r.bytes) => chunk[i] = r.bytes[i]
  PROVE  LET old == Len(r.bytes)
             g == f[old]
         IN /\ g.observer \in Observers /\ g.observer.state = "ground"
            /\ \E ev : /\ Ends(r, ev) /\ (old = 0 => ev = "none")
                       /\ g.found = IF ev = "none" THEN <<>> ELSE <<[reason |-> ev, end |-> old]>>
<1>1. f[0] = [observer |-> o, found |-> <<>>]
  BY DEF Runs
<1>2. CASE r.means = "nothing" /\ r.bytes = <<>> /\ o.state = "ground"
  <2>1. Len(r.bytes) = 0
    BY <1>2
  <2>2. Ends(r, "none")
    BY <1>2 DEF Ends
  <2>3. o \in Observers
    BY DEF Pending
  <2> QED
    BY <1>1, <1>2, <2>1, <2>2, <2>3
<1>3. CASE \E t \in Tokens : \E k \in 1 .. Len(t.bytes) - 1 :
              /\ r.means = t.means
              /\ r.bytes = SubSeq(t.bytes, k + 1, Len(t.bytes))
              /\ At(o, t.bytes, k)
  <2>1. PICK t \in Tokens : \E k \in 1 .. Len(t.bytes) - 1 :
              /\ r.means = t.means
              /\ r.bytes = SubSeq(t.bytes, k + 1, Len(t.bytes))
              /\ At(o, t.bytes, k)
    BY <1>3
  <2>1a. PICK k \in 1 .. Len(t.bytes) - 1 :
              /\ r.means = t.means
              /\ r.bytes = SubSeq(t.bytes, k + 1, Len(t.bytes))
              /\ At(o, t.bytes, k)
    BY <2>1
  <2>2. Shaped(t) /\ Len(t.bytes) \in Nat
    BY TokenLength
  <2> DEFINE old == Len(r.bytes)
             e == f[old].observer
  <2>3. /\ old = Len(t.bytes) - k /\ old \in Nat /\ old >= 1
        /\ \A m \in 1 .. Len(t.bytes) - k : r.bytes[m] = t.bytes[k + m]
    BY <2>1a, <2>2, RestOfToken
  <2>4. \A m \in 1 .. Len(t.bytes) - k : 0 + m <= n => chunk[0 + m] = t.bytes[k + m]
    BY <2>3
  <2>5. At(f[0].observer, t.bytes, k)
    BY <1>1, <2>1a
  <2>6. /\ Goes(f[0 + old].observer, t, k + old)
        /\ f[0 + old].found = IF f[0 + old].observer.event = "none" THEN f[0].found
                              ELSE Append(f[0].found, [reason |-> f[0 + old].observer.event,
                                                       end |-> 0 + old])
    <3>1. /\ old \in 1 .. Len(t.bytes) - k /\ 0 + old <= n /\ 0 \in Nat /\ 0 <= n
          /\ k \in 0 .. Len(t.bytes) - 1
      BY <2>2, <2>3
    <3>2. \A m \in 1 .. Len(t.bytes) - k : 0 + m <= n =>
            /\ Goes(f[0 + m].observer, t, k + m)
            /\ f[0 + m].found = IF f[0 + m].observer.event = "none" THEN f[0].found
                                ELSE Append(f[0].found, [reason |-> f[0 + m].observer.event,
                                                         end |-> 0 + m])
      <4>1. Flows(f, o, chunk, n, t, k, 0)
        BY <2>2, <2>4, <2>5, <3>1 DEF Flows
      <4> QED
        BY <4>1, Segment
    <3> HIDE DEF old
    <3> QED
      BY <3>1, <3>2, Zenon
  <2>7. 0 + old = old /\ k + old = Len(t.bytes)
    BY <2>2, <2>3
  <2>8. /\ e \in Observers /\ e.state = "ground" /\ Ends(t, e.event)
    BY <2>6, <2>7, Zenon DEF Goes
  <2>9. f[old].found = IF e.event = "none" THEN <<>> ELSE <<[reason |-> e.event, end |-> old]>>
    <3> DEFINE x == [reason |-> e.event, end |-> old]
    <3>1. f[old].found = IF e.event = "none" THEN f[0].found ELSE Append(f[0].found, x)
      BY <2>6, <2>7, Zenon
    <3>2. f[0].found = <<>>
      BY <1>1
    <3> HIDE DEF x, e
    <3>3. Append(<<>>, x) = <<x>>
      OBVIOUS
    <3> QED
      BY <3>1, <3>2, <3>3, Zenon DEF x
  <2>10. Ends(r, e.event)
    BY <2>1a, <2>8 DEF Ends
  <2> HIDE DEF e
  <2> QED
    BY <2>3, <2>8, <2>9, <2>10 DEF e
<1> QED
  BY <1>2, <1>3 DEF Pending

(* It ends before that. *)
LEMMA FirstGoesOn ==
  ASSUME NEW o, NEW t \in Tokens, NEW k \in 1 .. Len(t.bytes) - 1, At(o, t.bytes, k),
         NEW f, NEW chunk, NEW n \in Nat, n >= 1, Runs(f, o, chunk, n), n < Len(t.bytes) - k,
         \A i \in 1 .. n : chunk[i] = t.bytes[k + i]
  PROVE  At(f[n].observer, t.bytes, k + n) /\ f[n].found = <<>>
<1>1. Shaped(t) /\ Len(t.bytes) \in Nat
  BY TokenLength
<1>2. f[0] = [observer |-> o, found |-> <<>>]
  BY DEF Runs
<1>3. \A m \in 1 .. Len(t.bytes) - k : 0 + m <= n => chunk[0 + m] = t.bytes[k + m]
  BY <1>1
<1>4. At(f[0].observer, t.bytes, k)
  BY <1>2
<1>5. /\ n \in 1 .. Len(t.bytes) - k /\ 0 + n <= n /\ 0 \in Nat /\ 0 <= n
      /\ k \in 0 .. Len(t.bytes) - 1 /\ 0 + n = n /\ k + n # Len(t.bytes)
  BY <1>1
<1>6. /\ Goes(f[0 + n].observer, t, k + n)
      /\ f[0 + n].found = IF f[0 + n].observer.event = "none" THEN f[0].found
                          ELSE Append(f[0].found, [reason |-> f[0 + n].observer.event,
                                                   end |-> 0 + n])
  <2>1. Flows(f, o, chunk, n, t, k, 0)
    BY <1>1, <1>3, <1>4, <1>5 DEF Flows
  <2> QED
    BY <1>5, <2>1, Segment
<1>7. Quiet(f[n].observer) /\ At(f[n].observer, t.bytes, k + n)
  BY <1>5, <1>6, Zenon DEF Goes
<1>8. f[n].found = f[0].found
  BY <1>5, <1>6, <1>7, Zenon DEF Quiet
<1> QED
  BY <1>2, <1>7, <1>8

(* The next token's bytes, all of them or some. *)
Comes(o, t, f, chunk, n, old) ==
  /\ t \in Tokens /\ n \in Nat /\ old \in Nat /\ Runs(f, o, chunk, n)
  /\ old < n /\ n <= old + Len(t.bytes)
  /\ f[old].observer \in Observers /\ f[old].observer.state = "ground"
  /\ \A i \in 1 .. Len(t.bytes) : old + i <= n => chunk[old + i] = t.bytes[i]

LEMMA SecondComes ==
  ASSUME NEW o, NEW t, NEW f, NEW chunk, NEW n, NEW old, Comes(o, t, f, chunk, n, old)
  PROVE  /\ Goes(f[n].observer, t, n - old)
         /\ f[n].found = IF f[n].observer.event = "none" THEN f[old].found
                         ELSE Append(f[old].found, [reason |-> f[n].observer.event, end |-> n])
<1>0. /\ t \in Tokens /\ n \in Nat /\ old \in Nat /\ Runs(f, o, chunk, n)
      /\ old < n /\ n <= old + Len(t.bytes)
      /\ f[old].observer \in Observers /\ f[old].observer.state = "ground"
      /\ \A i \in 1 .. Len(t.bytes) : old + i <= n => chunk[old + i] = t.bytes[i]
  BY DEF Comes
<1>1. Shaped(t) /\ Len(t.bytes) \in Nat
  BY <1>0, TokenLength
<1>2. At(f[old].observer, t.bytes, 0)
  BY <1>0 DEF At
<1> DEFINE m == n - old
<1>3. m \in 1 .. Len(t.bytes) - 0 /\ old + m = n /\ old + m <= n /\ 0 + m = n - old
      /\ 0 \in 0 .. Len(t.bytes) - 1 /\ old <= n
  BY <1>0, <1>1
<1>4. \A i \in 1 .. Len(t.bytes) - 0 : old + i <= n => chunk[old + i] = t.bytes[0 + i]
  BY <1>0, <1>1
<1> HIDE DEF m
<1>5. /\ Goes(f[old + m].observer, t, 0 + m)
      /\ f[old + m].found = IF f[old + m].observer.event = "none" THEN f[old].found
                            ELSE Append(f[old].found, [reason |-> f[old + m].observer.event,
                                                       end |-> old + m])
  <2>1. Flows(f, o, chunk, n, t, 0, old)
    BY <1>0, <1>1, <1>2, <1>3, <1>4 DEF Flows
  <2> QED
    BY <1>3, <2>1, Segment
<1> QED
  BY <1>3, <1>5, Zenon

(* A token, or what is left of one, is a record. *)
Typed(r) == /\ r = [x \in DOMAIN r |-> r[x]]
            /\ "means" \in DOMAIN r /\ "bytes" \in DOMAIN r

LEMMA SameElements ==
  ASSUME NEW s \in Seq(Names), NEW t \in Seq(Names), Len(s) = Len(t),
         \A i \in 1 .. Len(s) : s[i] = t[i]
  PROVE  s = t
  BY SeqEqual

LEMMA TokensTyped ==
  ASSUME NEW t \in Tokens \cup {Done}
  PROVE  Typed(t)
<1>1. (\E r : t = Report(r)) \/ (\E m, b : t = Other(m, b))
  BY DEF Tokens, Done
<1>2. ASSUME NEW r, t = Report(r)
      PROVE  Typed(t)
  BY <1>2 DEF Typed, Report
<1>3. ASSUME NEW m, NEW b, t = Other(m, b)
      PROVE  Typed(t)
  BY <1>3 DEF Typed, Other
<1> QED
  BY <1>1, <1>2, <1>3

LEMMA Shortened ==
  ASSUME NEW r, Typed(r), NEW b
  PROVE  LET q == [r EXCEPT !.bytes = b]
         IN Typed(q) /\ q.bytes = b /\ q.means = r.means
  BY DEF Typed

LEMMA RestOfTwo ==
  ASSUME NEW one \in Seq(Names), NEW two \in Seq(Names), NEW n \in Nat,
         Len(one) <= n, n <= Len(one) + Len(two)
  PROVE  SubSeq(one \o two, n + 1, Len(one \o two)) = SubSeq(two, (n - Len(one)) + 1, Len(two))
<1> DEFINE both == one \o two
           l == SubSeq(both, n + 1, Len(both))
           r == SubSeq(two, (n - Len(one)) + 1, Len(two))
<1>0. Len(one) \in Nat /\ Len(two) \in Nat
  OBVIOUS
<1>1. /\ both \in Seq(Names) /\ Len(both) = Len(one) + Len(two)
      /\ \A i \in 1 .. Len(one) + Len(two) :
           both[i] = IF i <= Len(one) THEN one[i] ELSE two[i - Len(one)]
  BY ConcatProperties
<1> HIDE DEF both
<1>2. /\ l \in Seq(Names) /\ Len(l) = Len(both) - n
      /\ \A i \in 1 .. Len(both) - n : l[i] = both[n + i]
  BY <1>0, <1>1
<1>3. /\ r \in Seq(Names) /\ Len(r) = Len(two) - (n - Len(one))
      /\ \A i \in 1 .. Len(two) - (n - Len(one)) : r[i] = two[(n - Len(one)) + i]
  BY <1>0
<1> HIDE DEF l, r
<1>4. Len(l) = Len(r)
  BY <1>0, <1>1, <1>2, <1>3
<1>5. ASSUME NEW i \in 1 .. Len(l)
      PROVE  l[i] = r[i]
  <2>1. /\ i \in 1 .. Len(both) - n /\ i \in 1 .. Len(two) - (n - Len(one))
        /\ n + i \in 1 .. Len(one) + Len(two) /\ ~(n + i <= Len(one))
        /\ (n + i) - Len(one) = (n - Len(one)) + i
    BY <1>0, <1>1, <1>2
  <2> QED
    BY <2>1, <1>1, <1>2, <1>3
<1> QED
  BY <1>2, <1>3, <1>4, <1>5, SameElements DEF l, r, both

LEMMA RestOfRest ==
  ASSUME NEW t \in Seq(Names), NEW k \in Nat, NEW n \in Nat, k + n <= Len(t), NEW rest1,
         rest1 = SubSeq(t, k + 1, Len(t))
  PROVE  SubSeq(rest1, n + 1, Len(rest1)) = SubSeq(t, (k + n) + 1, Len(t))
<1> DEFINE l == SubSeq(rest1, n + 1, Len(rest1))
           r == SubSeq(t, (k + n) + 1, Len(t))
<1>0. Len(t) \in Nat
  OBVIOUS
<1>1. /\ rest1 \in Seq(Names) /\ Len(rest1) = Len(t) - k
      /\ \A i \in 1 .. Len(t) - k : rest1[i] = t[k + i]
  BY <1>0
<1>2. /\ l \in Seq(Names) /\ Len(l) = Len(rest1) - n
      /\ \A i \in 1 .. Len(rest1) - n : l[i] = rest1[n + i]
  <2>1. Len(rest1) \in Nat /\ n <= Len(rest1) /\ rest1 \in Seq(Names)
    BY <1>0, <1>1
  <2>2. l \in Seq(Names) /\ Len(l) = Len(rest1) - n
    BY <2>1
  <2>3. \A i \in 1 .. Len(rest1) - n : l[i] = rest1[n + i]
    BY <2>1
  <2> QED
    BY <2>2, <2>3
<1>3. /\ r \in Seq(Names) /\ Len(r) = Len(t) - (k + n)
      /\ \A i \in 1 .. Len(t) - (k + n) : r[i] = t[(k + n) + i]
  BY <1>0
<1> HIDE DEF l, r
<1>4. Len(l) = Len(r)
  BY <1>0, <1>1, <1>2, <1>3
<1>5. ASSUME NEW i \in 1 .. Len(l)
      PROVE  l[i] = r[i]
  <2>1. /\ i \in 1 .. Len(rest1) - n /\ i \in 1 .. Len(t) - (k + n)
        /\ n + i \in 1 .. Len(t) - k /\ k + (n + i) = (k + n) + i
    BY <1>0, <1>1, <1>2
  <2> QED
    BY <2>1, <1>1, <1>2, <1>3
<1> QED
  BY <1>2, <1>3, <1>4, <1>5, SameElements DEF l, r

(* What the chunk ends in: a token, or what is left of one. *)
Divides(one, two, n) ==
  /\ Typed(one) /\ Typed(two) /\ one.bytes \in Seq(Names) /\ two.bytes \in Seq(Names)
  /\ n \in Nat /\ n <= Len(one.bytes) + Len(two.bytes)

IsLeft(left, one, two, n) ==
  /\ n = Len(one.bytes) + Len(two.bytes) => left = Done
  /\ n < Len(one.bytes) /\ two.bytes = <<>> =>
       /\ Typed(left) /\ left.means = one.means
       /\ left.bytes = SubSeq(one.bytes, n + 1, Len(one.bytes))
  /\ Len(one.bytes) <= n /\ n < Len(one.bytes) + Len(two.bytes) =>
       /\ Typed(left) /\ left.means = two.means
       /\ left.bytes = SubSeq(two.bytes, (n - Len(one.bytes)) + 1, Len(two.bytes))

LEMMA LeftIs ==
  ASSUME NEW one, NEW two, NEW n, Divides(one, two, n)
  PROVE  IsLeft(Left(one, two, n), one, two, n)
<1> DEFINE b == one.bytes \o two.bytes
           left == Left(one, two, n)
           s == SubSeq(b, n + 1, Len(b))
<1>0. /\ Typed(one) /\ Typed(two) /\ one.bytes \in Seq(Names) /\ two.bytes \in Seq(Names)
      /\ n \in Nat /\ n <= Len(one.bytes) + Len(two.bytes)
  BY DEF Divides
<1>00. Len(one.bytes) \in Nat /\ Len(two.bytes) \in Nat
  BY <1>0
<1>1. Len(b) = Len(one.bytes) + Len(two.bytes)
  BY <1>0, ConcatProperties
<1>2. left = IF n = Len(b) THEN Done
             ELSE [(IF n < Len(one.bytes) THEN one ELSE two) EXCEPT !.bytes = s]
  BY Zenon DEF Left
<1> HIDE DEF b
<1>3. CASE n = Len(b)
  <2>1. left = Done
    BY <1>2, <1>3
  <2>2. ~(n < Len(one.bytes)) /\ ~(n < Len(one.bytes) + Len(two.bytes))
    <3> DEFINE x == Len(one.bytes)
               y == Len(two.bytes)
    <3>1. x \in Nat /\ y \in Nat /\ n \in Nat /\ n = x + y
      BY <1>0, <1>00, <1>1, <1>3
    <3> HIDE DEF x, y
    <3>2. ~(n < x) /\ ~(n < x + y)
      BY <3>1
    <3> QED
      BY <3>2 DEF x, y
  <2> HIDE DEF left
  <2> QED
    BY <2>1, <2>2 DEF left, IsLeft
<1>4. CASE n # Len(b) /\ n < Len(one.bytes)
  <2>1. left = [one EXCEPT !.bytes = s]
    BY <1>2, <1>4
  <2>2. two.bytes = <<>> => b = one.bytes
    BY <1>0, ConcatEmptySeq DEF b
  <2> HIDE DEF s, left
  <2>3. Typed(left) /\ left.means = one.means /\ left.bytes = s
    BY <1>0, <2>1, Shortened
  <2> QED
    <3>1. n # Len(one.bytes) + Len(two.bytes) /\ ~(Len(one.bytes) <= n)
      <4> DEFINE x == Len(one.bytes)
                 y == Len(two.bytes)
      <4>1. x \in Nat /\ y \in Nat /\ n \in Nat /\ n # x + y /\ n < x
        BY <1>0, <1>00, <1>1, <1>4
      <4> HIDE DEF x, y
      <4>2. n # x + y /\ ~(x <= n)
        BY <4>1
      <4> QED
        BY <4>2 DEF x, y
    <3>2. two.bytes = <<>> => s = SubSeq(one.bytes, n + 1, Len(one.bytes))
      BY <2>2 DEF s
    <3> QED
      BY <2>3, <3>1, <3>2 DEF left, IsLeft
<1>5. CASE n # Len(b) /\ ~(n < Len(one.bytes))
  <2>1. left = [two EXCEPT !.bytes = s]
    BY <1>2, <1>5
  <2>2. s = SubSeq(two.bytes, (n - Len(one.bytes)) + 1, Len(two.bytes))
    <3>1. Len(one.bytes) <= n
      BY <1>0, <1>00, <1>5
    <3> QED
      BY <1>0, <3>1, RestOfTwo DEF b
  <2> HIDE DEF s, left
  <2>3. Typed(left) /\ left.means = two.means /\ left.bytes = s
    BY <1>0, <2>1, Shortened
  <2> QED
    BY <1>0, <1>00, <1>1, <1>5, <2>2, <2>3 DEF left, IsLeft
<1> QED
  BY <1>3, <1>4, <1>5

LEMMA Appends ==
  ASSUME NEW x, NEW y
  PROVE  Append(<<>>, y) = <<y>> /\ Append(<<x>>, y) = <<x, y>>
<1> DEFINE S == {x, y}
           a == Append(<<x>>, y)
           b == <<x, y>>
<1>1. a \in Seq(S) /\ Len(a) = 2 /\ a[1] = x /\ a[2] = y
  <2> DEFINE c == <<x>>
  <2>1. c \in Seq(S) /\ Len(c) = 1 /\ c[1] = x
    OBVIOUS
  <2> HIDE DEF c
  <2>2. y \in S
    OBVIOUS
  <2> HIDE DEF S
  <2> QED
    BY <2>1, <2>2 DEF c
<1>2. b \in Seq(S) /\ Len(b) = 2 /\ b[1] = x /\ b[2] = y
  OBVIOUS
<1> HIDE DEF a, b, S
<1>3. \A i \in 1 .. Len(a) : a[i] = b[i]
  <2>1. \A i \in 1 .. 2 : i = 1 \/ i = 2
    OBVIOUS
  <2> QED
    BY <2>1, <1>1, <1>2
<1>4. a = b
  BY <1>1, <1>2, <1>3, SeqEqual
<1>5. Append(<<>>, y) = <<y>>
  OBVIOUS
<1> QED
  BY <1>4, <1>5 DEF a, b

(* The chunk that Deliver may take of what is left of a token and of the next one. *)
Arrives(one, token, old, all, n, chunk) ==
  /\ old = Len(one.bytes) /\ all = Len(one.bytes \o token.bytes)
  /\ n \in (IF token = Done THEN 1 ELSE old + 1) .. all
  /\ chunk = SubSeq(one.bytes \o token.bytes, 1, n)

(* A chunk: the records become what it means, and the observer stays with the token. *)
LEMMA ChunkHeeded ==
  ASSUME Consumes, NEW o, NEW one, Pending(o, one), Typed(one), NEW token \in Tokens \cup {Done},
         NEW old, NEW all, NEW n, NEW chunk, Arrives(one, token, old, all, n, chunk), NEW s
  PROVE  /\ WriteSlices(s, Both(one, old, token, all), n, Boundaries(o, chunk))
              = Means(s, Both(one, old, token, all), n)
         /\ Pending(Scan(o, chunk), Left(one, token, n))
<1> DEFINE two == Len(token.bytes)
<1>1. /\ one.bytes \in Seq(Names) /\ old \in Nat /\ (old = 0 => one.means = "nothing")
      /\ old = Len(one.bytes)
  BY PendingBytes DEF Arrives
<1>2. /\ token.bytes \in Seq(Names) /\ two \in Nat /\ Typed(token)
      /\ token = Done => two = 0 /\ token.means = "nothing" /\ token.bytes = <<>>
      /\ token # Done => token \in Tokens /\ two >= 1
  <2>1. CASE token \in Tokens
    BY <2>1, TokenLength, TokensTyped DEF Done, Other
  <2>2. CASE token = Done
    BY <2>2, TokensTyped DEF Done, Other
  <2> QED
    BY <2>1, <2>2
<1> HIDE DEF two
<1>3. all = old + two
  <2>1. all = Len(one.bytes \o token.bytes)
    BY DEF Arrives
  <2>2. Len(one.bytes \o token.bytes) = Len(one.bytes) + Len(token.bytes)
    BY <1>1, <1>2, ConcatProperties
  <2> QED
    BY <2>1, <2>2, <1>1 DEF two
<1>4. /\ n \in Nat /\ n >= 1 /\ n <= all
      /\ token # Done => n > old
      /\ all \in Nat /\ old <= all /\ (all = old => token.means = "nothing")
  <2>1. n \in (IF token = Done THEN 1 ELSE old + 1) .. all
    BY DEF Arrives
  <2>2. all \in Nat /\ old <= all /\ (all = old => two = 0)
    BY <1>1, <1>2, <1>3
  <2> QED
    BY <2>1, <2>2, <1>1, <1>2
<1>5. /\ Len(chunk) = n
      /\ \A i \in 1 .. n : i <= old => chunk[i] = one.bytes[i]
      /\ \A i \in 1 .. two : old + i <= n => chunk[old + i] = token.bytes[i]
  <2>1. n <= Len(one.bytes) + Len(token.bytes)
    BY <1>1, <1>3, <1>4 DEF two
  <2>2. chunk = SubSeq(one.bytes \o token.bytes, 1, n)
    BY DEF Arrives
  <2>3. one.bytes \in Seq(Names) /\ token.bytes \in Seq(Names) /\ n \in Nat
    BY <1>1, <1>2, <1>4
  <2>4. LET c == SubSeq(one.bytes \o token.bytes, 1, n)
        IN /\ Len(c) = n
           /\ \A i \in 1 .. n : i <= Len(one.bytes) => c[i] = one.bytes[i]
           /\ \A i \in 1 .. Len(token.bytes) :
                Len(one.bytes) + i <= n => c[Len(one.bytes) + i] = token.bytes[i]
    BY <2>1, <2>3, ChunkOfTwo
  <2>5. Len(one.bytes) = old /\ Len(token.bytes) = two
    BY <1>1 DEF two
  <2> QED
    BY <2>2, <2>4, <2>5, Zenon
<1>6. PICK f : Runs(f, o, chunk, n) /\ Observed(o, chunk) = f[n]
  BY <1>4, <1>5, ObservedIs
<1> DEFINE p == f[n].observer
<1>7. Scan(o, chunk) = Event(p, "none") /\ Boundaries(o, chunk) = f[n].found
  BY <1>6 DEF Scan, Boundaries
<1>8. /\ n = all => Left(one, token, n) = Done
      /\ n < old /\ token.bytes = <<>> =>
           /\ Left(one, token, n).means = one.means
           /\ Left(one, token, n).bytes = SubSeq(one.bytes, n + 1, old)
      /\ old <= n /\ n < all =>
           /\ Left(one, token, n).means = token.means
           /\ Left(one, token, n).bytes = SubSeq(token.bytes, (n - old) + 1, two)
  <2>1. Len(one.bytes) = old /\ Len(token.bytes) = two
    BY <1>1 DEF two
  <2>2. n \in Nat /\ n <= Len(one.bytes) + Len(token.bytes)
    BY <2>1, <1>3, <1>4
  <2>3. one.bytes \in Seq(Names) /\ token.bytes \in Seq(Names) /\ Typed(token)
    BY <1>1, <1>2
  <2>4. LET left == Left(one, token, n)
        IN /\ n = Len(one.bytes) + Len(token.bytes) => left = Done
           /\ n < Len(one.bytes) /\ token.bytes = <<>> =>
                /\ Typed(left) /\ left.means = one.means
                /\ left.bytes = SubSeq(one.bytes, n + 1, Len(one.bytes))
           /\ Len(one.bytes) <= n /\ n < Len(one.bytes) + Len(token.bytes) =>
                /\ Typed(left) /\ left.means = token.means
                /\ left.bytes = SubSeq(token.bytes, (n - Len(one.bytes)) + 1, Len(token.bytes))
    <3>1. Divides(one, token, n)
      BY <2>2, <2>3 DEF Divides
    <3>2. IsLeft(Left(one, token, n), one, token, n)
      BY <3>1, LeftIs
    <3> QED
      BY <3>2, Zenon DEF IsLeft
  <2> QED
    BY <2>1, <2>4, <1>3, Zenon
<1>9. CASE n < old
  <2>1. token = Done
    BY <1>1, <1>4, <1>9
  <2>2. PICK t \in Tokens : \E k \in 1 .. Len(t.bytes) - 1 :
              /\ one.means = t.means
              /\ one.bytes = SubSeq(t.bytes, k + 1, Len(t.bytes))
              /\ At(o, t.bytes, k)
    <3>1. one.bytes # <<>>
      BY <1>1, <1>4, <1>9
    <3> QED
      BY <3>1 DEF Pending
  <2>3. PICK k \in 1 .. Len(t.bytes) - 1 :
              /\ one.means = t.means
              /\ one.bytes = SubSeq(t.bytes, k + 1, Len(t.bytes))
              /\ At(o, t.bytes, k)
    BY <2>2
  <2>4. t.bytes \in Seq(Names) /\ Len(t.bytes) \in Nat
    BY TokenLength
  <2>5. old = Len(t.bytes) - k /\ \A m \in 1 .. old : one.bytes[m] = t.bytes[k + m]
    <3>1. /\ Len(one.bytes) = Len(t.bytes) - k
          /\ \A m \in 1 .. Len(t.bytes) - k : one.bytes[m] = t.bytes[k + m]
      BY <2>3, RestOfToken
    <3>2. old = Len(one.bytes)
      BY <1>1
    <3> QED
      BY <3>1, <3>2, Zenon
  <2>6. n < Len(t.bytes) - k /\ \A i \in 1 .. n : chunk[i] = t.bytes[k + i]
    <3>1. n < Len(t.bytes) - k
      BY <1>9, <2>5, Zenon
    <3>2. \A i \in 1 .. n : i <= old /\ i \in 1 .. old
      BY <1>1, <1>4, <1>9
    <3> QED
      BY <3>1, <3>2, <1>5, <2>5, Zenon
  <2>7. At(p, t.bytes, k + n) /\ f[n].found = <<>>
    BY <1>4, <1>6, <2>3, <2>6, FirstGoesOn
  <2>8. WriteSlices(s, Both(one, old, token, all), n, Found("none", old, "none", all))
          = Means(s, Both(one, old, token, all), n)
    <3>1. two = 0 /\ all = old /\ token.means = "nothing"
      BY <1>1, <1>2, <1>3, <2>1
    <3>2. ~(old <= n) /\ ~(all <= n) /\ old # 0
      BY <1>1, <1>4, <1>9, <3>1
    <3> QED
      BY <1>1, <1>4, <3>1, <3>2, SlicesMean
  <2>9. Found("none", old, "none", all) = <<>>
    BY DEF Found
  <2>10. Pending(Event(p, "none"), Left(one, token, n))
    <3>1. /\ k + n \in 1 .. Len(t.bytes) - 1 /\ k \in Nat /\ k + n <= Len(t.bytes)
      BY <1>4, <2>4, <2>6
    <3>2. SubSeq(one.bytes, n + 1, old) = SubSeq(t.bytes, (k + n) + 1, Len(t.bytes))
      <4>1. SubSeq(one.bytes, n + 1, Len(one.bytes)) = SubSeq(t.bytes, (k + n) + 1, Len(t.bytes))
        BY <1>4, <2>3, <2>4, <3>1, RestOfRest
      <4> QED
        BY <1>1, <4>1, Zenon
    <3>3. token.bytes = <<>>
      BY <1>2, <2>1
    <3>4. At(Event(p, "none"), t.bytes, k + n)
      BY <2>7, HushedAt
    <3>5. Event(p, "none") \in Observers
      BY <3>4 DEF At
    <3>6. /\ Left(one, token, n).means = t.means
          /\ Left(one, token, n).bytes = SubSeq(t.bytes, (k + n) + 1, Len(t.bytes))
      BY <1>8, <1>9, <2>3, <3>2, <3>3
    <3> DEFINE q == Left(one, token, n)
               j == k + n
    <3> HIDE DEF q, j, p
    <3> QED
      BY <3>1, <3>4, <3>5, <3>6 DEF Pending, q, j
  <2> QED
    BY <1>7, <2>7, <2>8, <2>9, <2>10
<1>10. CASE old <= n
  <2>1. /\ f[old].observer \in Observers /\ f[old].observer.state = "ground"
        /\ \E ev : /\ Ends(one, ev) /\ (old = 0 => ev = "none")
                   /\ f[old].found = IF ev = "none" THEN <<>> ELSE <<[reason |-> ev, end |-> old]>>
    <3>1. old = Len(one.bytes)
      BY <1>1
    <3>2. Len(one.bytes) <= n /\ \A i \in 1 .. n : i <= Len(one.bytes) => chunk[i] = one.bytes[i]
      BY <3>1, <1>5, <1>10, Zenon
    <3>3. n \in Nat /\ Runs(f, o, chunk, n)
      BY <1>4, <1>6
    <3>4. LET g == f[Len(one.bytes)]
          IN /\ g.observer \in Observers /\ g.observer.state = "ground"
             /\ \E ev : /\ Ends(one, ev) /\ (Len(one.bytes) = 0 => ev = "none")
                        /\ g.found = IF ev = "none" THEN <<>>
                                     ELSE <<[reason |-> ev, end |-> Len(one.bytes)]>>
      BY <3>2, <3>3, FirstEnds
    <3> QED
      BY <3>1, <3>4, Zenon
  <2>2. PICK ev1 : /\ Ends(one, ev1) /\ (old = 0 => ev1 = "none")
                   /\ f[old].found = IF ev1 = "none" THEN <<>>
                                     ELSE <<[reason |-> ev1, end |-> old]>>
    BY <2>1
  <2>3. f[old].found = Found(ev1, old, "none", all)
    BY <2>2 DEF Found
  <2>4. ASSUME NEW ev2, all <= n => Ends(token, ev2),
               n < all => ev2 = "none", all = old => ev2 = "none"
        PROVE  WriteSlices(s, Both(one, old, token, all), n, Found(ev1, old, ev2, all))
                 = Means(s, Both(one, old, token, all), n)
    <3>1. ~(n < old)
      BY <1>1, <1>4, <1>10
    <3> QED
      BY <1>1, <1>4, <1>10, <2>2, <2>4, <3>1, SlicesMean
  <2>5. ASSUME NEW e \in Observers, e.state = "ground", n = all
        PROVE  Pending(Event(e, "none"), Left(one, token, n))
    <3>1. Event(e, "none") \in Observers /\ Event(e, "none").state = "ground"
      BY <2>5, Hushed
    <3>2. Left(one, token, n) = Done
      BY <1>8, <2>5
    <3> QED
      BY <3>1, <3>2 DEF Pending, Done, Other
  <2>6. CASE n = old
    <3>1. token = Done /\ all = old /\ token.means = "nothing"
      BY <1>1, <1>2, <1>3, <1>4, <2>6
    <3>2. Ends(token, "none")
      BY <3>1 DEF Ends
    <3>3. f[n].found = Found(ev1, old, "none", all) /\ p \in Observers /\ p.state = "ground"
      BY <2>1, <2>3, <2>6
    <3>4. WriteSlices(s, Both(one, old, token, all), n, Found(ev1, old, "none", all))
            = Means(s, Both(one, old, token, all), n)
      BY <2>4, <3>2
    <3>5. Pending(Event(p, "none"), Left(one, token, n))
      BY <2>5, <2>6, <3>1, <3>3
    <3> QED
      BY <1>7, <3>3, <3>4, <3>5
  <2>7. CASE n # old
    <3>1. token # Done /\ token \in Tokens /\ old < n /\ n <= old + Len(token.bytes) /\ all # old
      <4>1. two = Len(token.bytes)
        BY DEF two
      <4>2. token # Done /\ old < n /\ n <= old + two /\ all # old
        BY <1>1, <1>2, <1>3, <1>4, <1>10, <2>7
      <4> QED
        BY <4>1, <4>2, <1>2, Zenon
    <3>2. /\ Goes(p, token, n - old)
          /\ f[n].found = IF p.event = "none" THEN f[old].found
                          ELSE Append(f[old].found, [reason |-> p.event, end |-> n])
      <4>1. \A i \in 1 .. Len(token.bytes) : old + i <= n => chunk[old + i] = token.bytes[i]
        BY <1>5 DEF two
      <4>2. n \in Nat /\ old \in Nat /\ Runs(f, o, chunk, n)
        BY <1>1, <1>4, <1>6
      <4>3. f[old].observer \in Observers /\ f[old].observer.state = "ground"
        BY <2>1
      <4> QED
        <5>1. Comes(o, token, f, chunk, n, old)
          BY <3>1, <4>1, <4>2, <4>3 DEF Comes
        <5> QED
          BY <5>1, SecondComes
    <3>3. CASE n < all
      <4>1. n - old # Len(token.bytes) /\ n - old \in 1 .. Len(token.bytes) - 1
        <5>1. two = Len(token.bytes)
          BY DEF two
        <5>2. n - old # two /\ n - old \in 1 .. two - 1
          BY <1>1, <1>2, <1>3, <1>4, <3>1, <3>3
        <5> QED
          BY <5>1, <5>2, Zenon
      <4>2. Quiet(p) /\ At(p, token.bytes, n - old)
        BY <3>2, <4>1, Zenon DEF Goes
      <4>3. f[n].found = Found(ev1, old, "none", all)
        BY <2>3, <3>2, <4>2, Zenon DEF Quiet
      <4>4. ~(all <= n)
        BY <1>4, <3>3
      <4>5. WriteSlices(s, Both(one, old, token, all), n, Found(ev1, old, "none", all))
              = Means(s, Both(one, old, token, all), n)
        BY <2>4, <4>4
      <4>6. At(Event(p, "none"), token.bytes, n - old)
        BY <4>2, HushedAt
      <4>7. Event(p, "none") \in Observers
        BY <4>6 DEF At
      <4>8. /\ Left(one, token, n).means = token.means
            /\ Left(one, token, n).bytes = SubSeq(token.bytes, (n - old) + 1, Len(token.bytes))
        BY <1>8, <1>10, <3>3 DEF two
      <4>9. Pending(Event(p, "none"), Left(one, token, n))
        <5> DEFINE q == Left(one, token, n)
                   j == n - old
        <5> HIDE DEF q, j, p
        <5> QED
          BY <3>1, <4>1, <4>6, <4>7, <4>8 DEF Pending, q, j
      <4> QED
        BY <1>7, <4>3, <4>5, <4>9
    <3>4. CASE n = all
      <4>1. n - old = Len(token.bytes)
        BY <1>1, <1>2, <1>3, <3>4 DEF two
      <4>2. p \in Observers /\ p.state = "ground" /\ Ends(token, p.event)
        BY <3>2, <4>1, Zenon DEF Goes
      <4>3. f[n].found = Found(ev1, old, p.event, all)
        <5> DEFINE e2 == p.event
                   x == [reason |-> ev1, end |-> old]
                   y == [reason |-> e2, end |-> all]
        <5>1. f[n].found = IF e2 = "none" THEN f[old].found ELSE Append(f[old].found, y)
          BY <3>2, <3>4
        <5>2. f[old].found = IF ev1 = "none" THEN <<>> ELSE <<x>>
          BY <2>2
        <5>3. Found(ev1, old, e2, all)
                = IF ev1 = "none" THEN IF e2 = "none" THEN <<>> ELSE <<y>>
                  ELSE IF e2 = "none" THEN <<x>> ELSE <<x, y>>
          BY DEF Found
        <5> HIDE DEF e2, x, y
        <5>4. Append(<<>>, y) = <<y>> /\ Append(<<x>>, y) = <<x, y>>
          BY Appends, Zenon
        <5> QED
          BY <5>1, <5>2, <5>3, <5>4, Zenon DEF e2
      <4>4. ~(n < all)
        BY <1>4, <3>4
      <4>5. WriteSlices(s, Both(one, old, token, all), n, Found(ev1, old, p.event, all))
              = Means(s, Both(one, old, token, all), n)
        BY <2>4, <3>1, <4>2, <4>4
      <4>6. Pending(Event(p, "none"), Left(one, token, n))
        BY <2>5, <3>4, <4>2
      <4> QED
        BY <1>7, <4>3, <4>5, <4>6
    <3> QED
      BY <1>4, <3>3, <3>4
  <2> QED
    BY <2>6, <2>7
<1> QED
  BY <1>1, <1>4, <1>9, <1>10

-----------------------------------------------------------------------------
(* The invariant. *)

LEMMA LeftTyped ==
  ASSUME NEW one, NEW two, Typed(one), Typed(two), NEW n
  PROVE  Typed(Left(one, two, n))
<1> DEFINE b == one.bytes \o two.bytes
           s == SubSeq(b, n + 1, Len(b))
           x == IF n < Len(one.bytes) THEN one ELSE two
<1>1. Left(one, two, n) = IF n = Len(b) THEN Done ELSE [x EXCEPT !.bytes = s]
  BY Zenon DEF Left
<1>2. Typed(x)
  OBVIOUS
<1>3. Typed(Done)
  BY TokensTyped
<1> HIDE DEF x, s, b
<1>4. Typed([x EXCEPT !.bytes = s])
  BY <1>2, Shortened
<1> QED
  BY <1>1, <1>3, <1>4

(* Where the records, the observer and what is undelivered of a token stand. *)
StreamInv ==
  /\ observer \in Observers
  /\ store = meant
  /\ IF Consumes THEN Typed(rest) /\ Pending(observer, rest) ELSE observer.state = "ground"

LEMMA FreshObserver == Fresh \in Observers /\ Fresh.state = "ground"
<1>1. <<>> \in Seq(Names)
  OBVIOUS
<1> QED
  BY <1>1 DEF Fresh, Observers

LEMMA PendingDone ==
  ASSUME NEW o \in Observers
  PROVE  Pending(o, Done) <=> o.state = "ground"
<1>1. Done.means = "nothing" /\ Done.bytes = <<>>
  BY DEF Done, Other
<1>2. ASSUME NEW t \in Tokens, NEW k \in 1 .. Len(t.bytes) - 1
      PROVE  Done.bytes # SubSeq(t.bytes, k + 1, Len(t.bytes))
  <2> SUFFICES ASSUME Done.bytes = SubSeq(t.bytes, k + 1, Len(t.bytes)) PROVE FALSE
    OBVIOUS
  <2>1. Len(Done.bytes) = Len(t.bytes) - k /\ Len(t.bytes) \in Nat
    BY RestOfToken, TokenLength
  <2>2. Len(Done.bytes) = 0
    BY <1>1
  <2> HIDE DEF Done
  <2> QED
    BY <2>1, <2>2
<1>3. Pending(o, Done) => o.state = "ground"
  BY <1>2 DEF Pending
<1> QED
  BY <1>1, <1>3 DEF Pending

LEMMA InitStream == Init => StreamInv
<1> SUFFICES ASSUME Init PROVE StreamInv
  OBVIOUS
<1>1. rest = Done /\ observer = Fresh /\ store = <<>> /\ meant = <<>>
  BY DEF Init
<1> QED
  BY <1>1, FreshObserver, PendingDone, TokensTyped DEF StreamInv

LEMMA NextStream ==
  ASSUME StreamInv, [Next]_vars
  PROVE  StreamInv'
<1>0. observer \in Observers /\ store = meant
  BY DEF StreamInv
<1>1. CASE Deliver
  <2>1. PICK token \in Tokens \cup {Done} :
           LET bytes == rest.bytes \o token.bytes
               old == Len(rest.bytes)
           IN \E n \in (IF token = Done THEN 1 ELSE old + 1) .. Len(bytes) :
                LET chunk == SubSeq(bytes, 1, n)
                    marks == <<[token |-> rest, at |-> old], [token |-> token, at |-> Len(bytes)]>>
                IN /\ rest' = Left(rest, token, n)
                   /\ observer' = IF Consumes THEN Scan(observer, chunk) ELSE observer
                   /\ Changes(IF Consumes
                              THEN WriteSlices(store, marks, n, Boundaries(observer, chunk))
                              ELSE WriteTerminal(store, marks, 0, n))
                   /\ meant' = Means(meant, marks, n)
                   /\ UNCHANGED <<clock, installed, callback>>
    BY <1>1, Zenon DEF Deliver
  <2> DEFINE bytes == rest.bytes \o token.bytes
             old == Len(rest.bytes)
             all == Len(bytes)
             marks == Both(rest, old, token, all)
  <2>2. PICK n \in (IF token = Done THEN 1 ELSE old + 1) .. all :
          LET chunk == SubSeq(bytes, 1, n)
          IN /\ rest' = Left(rest, token, n)
             /\ observer' = IF Consumes THEN Scan(observer, chunk) ELSE observer
             /\ store' = IF Consumes THEN WriteSlices(store, marks, n, Boundaries(observer, chunk))
                         ELSE WriteTerminal(store, marks, 0, n)
             /\ meant' = Means(meant, marks, n)
             /\ UNCHANGED <<clock, installed, callback>>
    BY <2>1, Zenon DEF Changes, Both
  <2> DEFINE chunk == SubSeq(bytes, 1, n)
  <2>3. Consumes' = Consumes
    BY <2>2 DEF Consumes
  <2>4. CASE Consumes
    <3>1. Typed(rest) /\ Pending(observer, rest)
      BY <2>4 DEF StreamInv
    <3>2. Arrives(rest, token, old, all, n, chunk)
      BY DEF Arrives
    <3>3. /\ rest' = Left(rest, token, n) /\ observer' = Scan(observer, chunk)
          /\ store' = WriteSlices(store, marks, n, Boundaries(observer, chunk))
          /\ meant' = Means(meant, marks, n)
      BY <2>2, <2>4
    <3> HIDE DEF old, all, chunk, bytes
    <3>4. /\ WriteSlices(store, marks, n, Boundaries(observer, chunk)) = Means(store, marks, n)
          /\ Pending(Scan(observer, chunk), Left(rest, token, n))
      BY <2>4, <3>1, <3>2, ChunkHeeded
    <3> HIDE DEF marks
    <3>5. Typed(rest')
      BY <3>1, <3>3, TokensTyped, LeftTyped
    <3>6. Pending(observer', rest')
      BY <3>3, <3>4
    <3>7. observer' \in Observers
      BY <3>6 DEF Pending
    <3>8. store' = meant'
      BY <1>0, <3>3, <3>4
    <3> QED
      BY <2>3, <2>4, <3>5, <3>6, <3>7, <3>8 DEF StreamInv
  <2>5. CASE ~Consumes
    <3>1. /\ observer' = observer /\ store' = WriteTerminal(store, marks, 0, n)
          /\ meant' = Means(meant, marks, n)
      BY <2>2, <2>5
    <3> HIDE DEF marks
    <3>2. WriteTerminal(store, marks, 0, n) = store
      BY <2>5, Unheard DEF WriteTerminal
    <3>3. Means(meant, marks, n) = meant
      BY <2>5, Unheard DEF Means
    <3>4. observer.state = "ground"
      BY <2>5 DEF StreamInv
    <3> QED
      BY <1>0, <2>3, <2>5, <3>1, <3>2, <3>3, <3>4 DEF StreamInv
  <2> QED
    BY <2>4, <2>5
<1>2. CASE Input
  <2>1. /\ store' = DismissSettled(store) /\ meant' = DismissSettled(meant)
        /\ UNCHANGED <<rest, observer, installed, callback>>
    BY <1>2 DEF Input, Changes, ForwardInput
  <2>2. Consumes' = Consumes
    BY <2>1 DEF Consumes
  <2> QED
    BY <1>0, <2>1, <2>2 DEF StreamInv
<1>3. CASE Tick \/ UNCHANGED vars
  <2>1. UNCHANGED <<rest, observer, store, meant, installed, callback>>
    BY <1>3 DEF Tick, vars
  <2>2. Consumes' = Consumes
    BY <2>1 DEF Consumes
  <2> QED
    BY <2>1, <2>2 DEF StreamInv
<1>4. ASSUME NEW state \in {"connected", "disconnected"}, Adapter(state)
      PROVE  StreamInv'
  <2>1. /\ observer' = Fresh /\ rest' = Done
        /\ store' = IF state = "connected" THEN <<>> ELSE Exit(store)
        /\ meant' = IF state = "connected" THEN <<>> ELSE Exit(meant)
    BY <1>4 DEF Adapter, Changes
  <2> QED
    BY <1>0, <2>1, FreshObserver, PendingDone, TokensTyped DEF StreamInv
<1>5. CASE Reset
  <2>1. /\ observer' = Fresh /\ rest' = Done /\ store' = <<>> /\ meant' = <<>>
    BY <1>5 DEF Reset, Changes
  <2> QED
    BY <2>1, FreshObserver, PendingDone, TokensTyped DEF StreamInv
<1>6. CASE Install \/ Dispose
  <2>1. rest = Done /\ UNCHANGED <<rest, observer, store, meant>>
    BY <1>6 DEF Install, Dispose
  <2>2. observer.state = "ground"
    BY <1>0, <2>1, PendingDone DEF StreamInv
  <2> QED
    BY <1>0, <2>1, <2>2, PendingDone, TokensTyped DEF StreamInv
<1> QED
  BY <1>1, <1>2, <1>3, <1>4, <1>5, <1>6 DEF Next

(* The status records are what the program's tokens mean, in their order, wherever the  *)
(* chunks of its output end (writeLiveOutput, TerminalSequenceObserver): for every set  *)
(* of reports, every limit of an OSC of three words or more, and of a store.            *)
THEOREM RecordsKept == Spec => []RecordsMatchStream
<1>1. Init => StreamInv
  BY InitStream
<1>2. StreamInv /\ [Next]_vars => StreamInv'
  BY NextStream
<1>3. StreamInv => RecordsMatchStream
  BY DEF StreamInv, RecordsMatchStream
<1> QED
  BY <1>1, <1>2, <1>3, PTL DEF Spec

-----------------------------------------------------------------------------
(* A program in the page (WasmBridge). *)

Fields == [polling : BOOLEAN, waiting : BOOLEAN, attempts : Nat, exited : BOOLEAN,
           wired : BOOLEAN, late : BOOLEAN]

Shows == [program : Programs, frame : Nat]

BridgeTyped ==
  /\ made \in 0 .. MaxPrograms
  /\ life \in [Programs -> {"off", "running", "exited", "crashed"}]
  /\ written \in [Programs -> Nat] /\ read \in [Programs -> Nat]
  /\ exited \in BOOLEAN /\ final \in Seq(Shows)
  /\ bridge \in [Adapters -> Fields]
  /\ tries \in 0 .. MaxConnects /\ adapter \in 0 .. tries
  /\ shown \in Seq(Shows) /\ ends \in Nat

(* Programs come one after another, and only the last one says that it ended. *)
ProgramsInTurn ==
  /\ \A p \in Programs : read[p] <= written[p]
  /\ \A p \in Programs : p > made => life[p] = "off" /\ read[p] = 0 /\ written[p] = 0
  /\ \A p \in Programs : p <= made => life[p] # "off"
  /\ made > 0 => (exited <=> life[made] = "exited")
  /\ ~exited => final = <<>>
  /\ made = 0 => ~exited
  /\ made > 0 /\ life[made] = "running" => ends = 0
  /\ made > 0 => Len(final) <= read[made]
  /\ \A i \in DOMAIN final : final[i].program = made

(* An adapter that polls and has not strayed is the terminal's. *)
Wired ==
  \A a \in Adapters :
    /\ bridge[a].wired => adapter = a
    /\ bridge[a].polling => made > 0 /\ (bridge[a].late \/ bridge[a].wired)
    /\ bridge[a].waiting => ~bridge[a].late /\ ~bridge[a].polling
    /\ a > tries => /\ ~bridge[a].polling /\ ~bridge[a].waiting
                    /\ ~bridge[a].wired /\ ~bridge[a].late

(* Nothing is shown of a program that is yet to come. *)
Shown == \A i \in DOMAIN shown : shown[i].program <= made

Once == read[made] - Len(final)
Earlier == Len(shown) - (Once + ends * Len(final))

Ordered ==
  made > 0 /\ ~Strays =>
    /\ Earlier >= 0 /\ \A i \in 1 .. Earlier : shown[i].program # made
    /\ \A i \in 1 .. Once : shown[Earlier + i] = [program |-> made, frame |-> i]
    /\ \A n \in 0 .. ends - 1, i \in 1 .. Len(final) :
         shown[Earlier + Once + n * Len(final) + i] = final[i]

WasmInv == BridgeTyped /\ ProgramsInTurn /\ Wired /\ Shown /\ Ordered

-----------------------------------------------------------------------------
LEMMA NothingShown == <<>> \in Seq(Shows)
  OBVIOUS

LEMMA ShownTyped ==
  ASSUME BridgeTyped
  PROVE  /\ DOMAIN shown = 1 .. Len(shown)
         /\ \A i \in DOMAIN shown : shown[i] \in Shows /\ shown[i].program \in Nat
<1>1. shown \in Seq(Shows)
  BY DEF BridgeTyped
<1>2. DOMAIN shown = 1 .. Len(shown) /\ \A i \in DOMAIN shown : shown[i] \in Shows
  BY <1>1
<1>3. \A f \in Shows : f.program \in Nat
  BY WasmAssumption DEF Shows, Programs
<1> QED
  BY <1>2, <1>3

LEMMA WasmStarts == WasmInit => WasmInv
<1> SUFFICES ASSUME WasmInit PROVE WasmInv
  OBVIOUS
<1> USE WasmAssumption DEF WasmInit, Adapters, Programs
<1>1. BridgeTyped
  <2>1. made = 0 /\ tries = 0 /\ adapter = 0 /\ ends = 0 /\ exited = FALSE
    OBVIOUS
  <2>2. final \in Seq(Shows) /\ shown \in Seq(Shows)
    BY NothingShown
  <2>6. exited \in BOOLEAN
    BY Zenon
  <2>3. bridge \in [Adapters -> Fields]
    BY DEF Fields
  <2>4. made \in 0 .. MaxPrograms /\ tries \in 0 .. MaxConnects /\ adapter \in 0 .. tries
        /\ ends \in Nat
    BY <2>1
  <2>5. /\ life \in [Programs -> {"off", "running", "exited", "crashed"}]
        /\ written \in [Programs -> Nat] /\ read \in [Programs -> Nat]
    OBVIOUS
  <2> QED
    BY <2>1, <2>2, <2>3, <2>4, <2>5, <2>6, Zenon DEF BridgeTyped
<1>2. ProgramsInTurn
  <2>1. /\ \A p \in Programs : read[p] = 0 /\ written[p] = 0 /\ life[p] = "off" /\ p > made
        /\ made = 0 /\ ~exited /\ final = <<>>
    OBVIOUS
  <2> QED
    BY <2>1 DEF ProgramsInTurn
<1>3. Wired
  BY DEF Wired
<1>4. Shown /\ Ordered
  BY DEF Shown, Ordered
<1> QED
  BY <1>1, <1>2, <1>3, <1>4 DEF WasmInv

(* What is unread. *)
LEMMA UnreadFrames ==
  ASSUME BridgeTyped, ProgramsInTurn, NEW p \in Programs
  PROVE  /\ Unread(p) \in Seq(Shows)
         /\ Len(Unread(p)) = written[p] - read[p]
         /\ \A i \in 1 .. Len(Unread(p)) :
              Unread(p)[i] = [program |-> p, frame |-> read[p] + i]
<1> DEFINE n == written[p] - read[p]
<1>1. n \in Nat /\ read[p] \in Nat
  BY DEF BridgeTyped, ProgramsInTurn
<1> HIDE DEF n
<1>2. Unread(p) = [i \in 1 .. n |-> [program |-> p, frame |-> read[p] + i]]
  BY DEF Unread, Frames, n
<1>3. \A i \in 1 .. n : [program |-> p, frame |-> read[p] + i] \in Shows
  BY <1>1 DEF Shows
<1>4. Unread(p) \in Seq(Shows) /\ Len(Unread(p)) = n
  BY <1>1, <1>2, <1>3
<1> QED
  BY <1>2, <1>4 DEF n

(* Steps that leave alone what is shown and what is read. *)
LEMMA OrderedStays ==
  ASSUME Ordered, UNCHANGED <<made, read, final, shown, ends>>, ~Strays' => ~Strays
  PROVE  Ordered'
BY DEF Ordered, Once, Earlier


LEMMA TimesLonger ==
  ASSUME NEW n \in Nat, NEW e \in Nat, NEW l \in Nat, n < e
  PROVE  n * l + l <= e * l /\ n * l \in Nat /\ e * l \in Nat
<1>1. PICK d \in Nat : e = n + 1 + d
  <2>1. e - (n + 1) \in Nat /\ e = n + 1 + (e - (n + 1))
    OBVIOUS
  <2> QED
    BY <2>1
<1>2. e * l = n * l + l + d * l
  BY <1>1
<1>3. d * l \in Nat /\ n * l \in Nat /\ e * l \in Nat
  OBVIOUS
<1> QED
  BY <1>2, <1>3

LEMMA NewProgramKeeps == ASSUME WasmInv, NewProgram PROVE WasmInv'
<1> USE WasmAssumption DEF WasmInv, NewProgram, Adapters, Programs
<1>1. BridgeTyped'
  <2>1. final' \in Seq(Shows) /\ shown' \in Seq(Shows)
    BY NothingShown DEF BridgeTyped
  <2>2. exited' \in BOOLEAN
    BY Zenon
  <2>3. /\ made' \in 0 .. MaxPrograms /\ ends' \in Nat
        /\ life' \in [Programs -> {"off", "running", "exited", "crashed"}]
        /\ UNCHANGED <<written, read, bridge, tries, adapter>>
    BY DEF BridgeTyped
  <2> QED
    BY <2>1, <2>2, <2>3 DEF BridgeTyped
<1>2. ProgramsInTurn'
  <2>1. /\ made \in Nat /\ made' = made + 1 /\ made + 1 \in Programs
        /\ life'[made + 1] = "running"
        /\ \A p \in Programs : p # made + 1 => life'[p] = life[p]
    BY DEF BridgeTyped
  <2>2. final' = <<>> /\ ~exited' /\ ends' = 0 /\ read' = read /\ written' = written
    OBVIOUS
  <2>3. \A p \in Programs : p \in Nat /\ read[p] \in Nat /\ (p > made + 1 => p > made)
                            /\ (p <= made + 1 /\ p # made + 1 => p <= made)
    BY <2>1 DEF BridgeTyped
  <2>4. Len(final') = 0 /\ DOMAIN final' = {}
    BY <2>2
  <2> QED
    BY <2>1, <2>2, <2>3, <2>4 DEF ProgramsInTurn
<1>3. Wired'
  BY DEF Wired, BridgeTyped
<1>4. Shown'
  <2>1. \A i \in DOMAIN shown : shown[i].program \in Nat /\ made \in Nat
    BY ShownTyped DEF BridgeTyped
  <2> QED
    BY <2>1 DEF Shown
<1>5. Ordered'
  <2>1. /\ made' = made + 1 /\ made \in Nat /\ shown' = shown /\ final' = <<>> /\ ends' = 0
        /\ read' = read /\ read[made'] = 0 /\ Len(shown) \in Nat
    <3>1. made \in Nat /\ Len(shown) \in Nat
      BY DEF BridgeTyped
    <3>2. made + 1 \in Programs /\ made + 1 > made
      BY <3>1
    <3>3. read[made + 1] = 0
      BY <3>2 DEF ProgramsInTurn
    <3> QED
      BY <3>1, <3>3
  <2>2. Once' = 0 /\ Earlier' = Len(shown)
    <3>1. Len(final') = 0 /\ ends' * Len(final') = 0
      BY <2>1
    <3>2. Once' = 0
      <4>1. read'[made'] = 0 /\ 0 - 0 = 0
        BY <2>1
      <4> HIDE DEF NewProgram
      <4> QED
        BY <3>1, <4>1 DEF Once
    <3> QED
      BY <2>1, <3>1, <3>2 DEF Earlier
  <2>3. \A i \in 1 .. Len(shown) : shown[i].program # made'
    <3>1. \A i \in 1 .. Len(shown) : i \in DOMAIN shown /\ shown[i].program \in Nat
      BY ShownTyped
    <3> QED
      BY <2>1, <3>1 DEF Shown
  <2> QED
    BY <2>1, <2>2, <2>3 DEF Ordered
<1> QED
  BY <1>1, <1>2, <1>3, <1>4, <1>5

LEMMA WriteKeeps == ASSUME WasmInv, NEW p \in Programs, Write(p) PROVE WasmInv'
<1> USE WasmAssumption DEF WasmInv, Write, Adapters, Programs
<1>1. BridgeTyped'
  BY DEF BridgeTyped
<1>2. ProgramsInTurn'
  <2>1. /\ written'[p] = written[p] + 1 /\ written[p] \in Nat /\ read[p] \in Nat
        /\ \A q \in Programs : q # p => written'[q] = written[q]
    BY DEF BridgeTyped
  <2>2. ~(p > made)
    BY DEF ProgramsInTurn
  <2>3. UNCHANGED <<made, life, read, exited, final, ends>>
    OBVIOUS
  <2>4. \A q \in Programs : read'[q] <= written'[q]
    BY <2>1, <2>3 DEF ProgramsInTurn
  <2> QED
    BY <2>1, <2>2, <2>3, <2>4 DEF ProgramsInTurn
<1>3. Wired'
  BY DEF Wired, BridgeTyped
<1>4. Shown'
  BY DEF Shown
<1>5. Ordered'
  BY OrderedStays DEF Strays
<1> QED
  BY <1>1, <1>2, <1>3, <1>4, <1>5

LEMMA CrashKeeps == ASSUME WasmInv, NEW p \in Programs, Crash(p) PROVE WasmInv'
<1> USE WasmAssumption DEF WasmInv, Crash, Adapters, Programs
<1>1. BridgeTyped'
  BY DEF BridgeTyped
<1>2. ProgramsInTurn'
  <2>1. /\ life[p] = "running" /\ life'[p] = "crashed"
        /\ \A q \in Programs : q # p => life'[q] = life[q]
    BY DEF BridgeTyped
  <2>2. UNCHANGED <<made, written, read, exited, final, ends>>
    OBVIOUS
  <2>3. made > 0 => made \in Programs
    BY DEF BridgeTyped
  <2> QED
    BY <2>1, <2>2, <2>3 DEF ProgramsInTurn
<1>3. Wired'
  BY DEF Wired, BridgeTyped
<1>4. Shown'
  BY DEF Shown
<1>5. Ordered'
  BY OrderedStays DEF Strays
<1> QED
  BY <1>1, <1>2, <1>3, <1>4, <1>5

(* A program that ends leaves what is unread in its final output. *)
LEMMA ReturnKeeps == ASSUME WasmInv, NEW p \in Programs, Return(p) PROVE WasmInv'
<1> USE WasmAssumption DEF WasmInv
<1>1. CASE p # made
  <2> USE <1>1 DEF Return, Adapters, Programs
  <2>1. BridgeTyped'
    BY DEF BridgeTyped
  <2>2. ProgramsInTurn'
    <3>1. /\ life[p] = "running" /\ life'[p] = "exited"
          /\ \A q \in Programs : q # p => life'[q] = life[q]
      BY DEF BridgeTyped
    <3>2. UNCHANGED <<made, written, read, exited, final, ends>>
      OBVIOUS
    <3>3. made > 0 => made \in Programs
      BY DEF BridgeTyped
    <3> QED
      BY <1>1, <3>1, <3>2, <3>3 DEF ProgramsInTurn
  <2>3. Wired'
    BY DEF Wired, BridgeTyped
  <2>4. Shown'
    BY DEF Shown
  <2>5. Ordered'
    BY OrderedStays DEF Strays
  <2> QED
    BY <2>1, <2>2, <2>3, <2>4, <2>5
<1>2. CASE p = made
  <2>0. /\ Unread(p) \in Seq(Shows) /\ Len(Unread(p)) = written[p] - read[p]
        /\ \A i \in 1 .. Len(Unread(p)) : Unread(p)[i].program = p
        /\ DOMAIN Unread(p) = 1 .. Len(Unread(p))
    <3>1. /\ Unread(p) \in Seq(Shows) /\ Len(Unread(p)) = written[p] - read[p]
          /\ \A i \in 1 .. Len(Unread(p)) :
               Unread(p)[i] = [program |-> p, frame |-> read[p] + i]
      BY UnreadFrames
    <3> QED
      BY <3>1
  <2>1. /\ final' = Unread(p) /\ exited' = TRUE
        /\ read' = [read EXCEPT ![p] = written[p]] /\ life' = [life EXCEPT ![p] = "exited"]
        /\ life[p] = "running"
        /\ UNCHANGED <<made, written, bridge, tries, adapter, status, shown, ends>>
    BY <1>2 DEF Return
  <2>2. made \in Nat /\ made > 0 /\ ends = 0 /\ final = <<>> /\ made \in Programs
    BY <1>2, <2>1 DEF BridgeTyped, ProgramsInTurn, Programs
  <2>3. BridgeTyped'
    BY <2>0, <2>1 DEF BridgeTyped
  <2>4. /\ \A q \in Programs : read'[q] <= written[q] /\ (q # p => read'[q] = read[q])
        /\ read'[p] = written[p] /\ read[p] <= written[p]
        /\ written[p] \in Nat /\ read[p] \in Nat
    BY <2>1 DEF BridgeTyped, ProgramsInTurn
  <2>5. ProgramsInTurn'
    BY <1>2, <2>0, <2>1, <2>2, <2>4 DEF ProgramsInTurn, BridgeTyped, Programs
  <2>6. Wired' /\ Shown'
    BY <2>1 DEF Wired, Shown
  <2>7. Once' = Once /\ Earlier' = Earlier
    <3>1. Len(final') = written[p] - read[p] /\ Len(final) = 0
      BY <2>0, <2>1, <2>2
    <3>2. Once' = read[p] /\ Once = read[p]
      BY <1>2, <2>1, <2>4, <3>1 DEF Once
    <3>3. ends' * Len(final') = 0 /\ ends * Len(final) = 0
      BY <2>1, <2>2, <2>4, <3>1
    <3> QED
      BY <2>1, <3>2, <3>3 DEF Earlier
  <2>8. Ordered'
    BY <2>1, <2>2, <2>7 DEF Ordered, Strays
  <2> QED
    BY <2>3, <2>5, <2>6, <2>8
<1> QED
  BY <1>1, <1>2

(* What a poll gives to the terminal, when it comes from the terminal's adapter. *)
LEMMA DataShown ==
  ASSUME BridgeTyped, NEW a \in Adapters, NEW frames \in Seq(Shows), Data(a, frames)
  PROVE  /\ bridge[a].wired /\ adapter = a =>
              /\ Len(shown') = Len(shown) + Len(frames)
              /\ \A i \in 1 .. Len(shown) : shown'[i] = shown[i]
              /\ \A i \in 1 .. Len(frames) : shown'[Len(shown) + i] = frames[i]
         /\ ~(bridge[a].wired /\ adapter = a) => shown' = shown
         /\ shown' \in Seq(Shows)
<1>1. shown \in Seq(Shows)
  BY DEF BridgeTyped
<1>2. shown \o frames \in Seq(Shows) /\ Len(shown \o frames) = Len(shown) + Len(frames)
  BY <1>1
<1>3. /\ \A i \in 1 .. Len(shown) : (shown \o frames)[i] = shown[i]
      /\ \A i \in 1 .. Len(frames) : (shown \o frames)[Len(shown) + i] = frames[i]
  BY <1>1
<1> QED
  BY <1>1, <1>2, <1>3 DEF Data

LEMMA ShownMore ==
  ASSUME BridgeTyped, Shown, NEW a \in Adapters, NEW frames \in Seq(Shows),
         Data(a, frames), \A i \in 1 .. Len(frames) : frames[i].program = made, made' = made
  PROVE  Shown'
<1>1. CASE ~(bridge[a].wired /\ adapter = a)
  BY <1>1, DataShown DEF Shown
<1>2. CASE bridge[a].wired /\ adapter = a
  <2>1. /\ Len(shown') = Len(shown) + Len(frames) /\ DOMAIN shown' = 1 .. Len(shown')
        /\ \A i \in 1 .. Len(shown) : shown'[i] = shown[i]
        /\ \A i \in 1 .. Len(frames) : shown'[Len(shown) + i] = frames[i]
        /\ Len(shown) \in Nat /\ Len(frames) \in Nat /\ made \in Nat
        /\ DOMAIN shown = 1 .. Len(shown)
    BY <1>2, DataShown DEF BridgeTyped
  <2>2. SUFFICES ASSUME NEW i \in 1 .. Len(shown') PROVE shown'[i].program <= made
    BY <2>1 DEF Shown
  <2>3. CASE i <= Len(shown)
    BY <2>1, <2>3 DEF Shown
  <2>4. CASE i > Len(shown)
    <3>1. i - Len(shown) \in 1 .. Len(frames) /\ i = Len(shown) + (i - Len(shown))
      BY <2>1, <2>4
    <3>2. shown'[i] = frames[i - Len(shown)]
      BY <2>1, <3>1
    <3> QED
      BY <2>1, <3>1, <3>2
  <2> QED
    BY <2>1, <2>3, <2>4
<1> QED
  BY <1>1, <1>2

(* The poll that finds the program gone: the adapter tells its end, once more. *)
LEMMA LastPollKeeps ==
  ASSUME WasmInv, NEW a \in Adapters, Poll(a), Gone PROVE WasmInv'
<1> USE DEF WasmInv
<1>1. /\ HandleExit(a)
      /\ ends' = IF bridge[a].wired /\ adapter = a THEN ends + 1 ELSE ends
      /\ UNCHANGED <<made, life, written, exited, final, read, tries, adapter>>
      /\ bridge' = [bridge EXCEPT ![a].exited = TRUE, ![a].polling = FALSE]
      /\ bridge[a].polling /\ Data(a, final)
  BY DEF Poll, page, HandleExit
<1>2. /\ final \in Seq(Shows) /\ Len(final) \in Nat /\ ends \in Nat /\ made \in Nat
      /\ made > 0 /\ made \in Programs
      /\ \A i \in 1 .. Len(final) : final[i].program = made
  BY <1>1 DEF BridgeTyped, ProgramsInTurn, Wired, Programs
<1>3. /\ bridge' \in [Adapters -> Fields]
      /\ \A b \in Adapters : /\ bridge'[b].wired = bridge[b].wired
                             /\ bridge'[b].late = bridge[b].late
                             /\ bridge'[b].waiting = bridge[b].waiting
                             /\ bridge'[b].polling => bridge[b].polling
  BY <1>1 DEF BridgeTyped, Fields
<1>4. BridgeTyped'
  <2>1. shown' \in Seq(Shows)
    BY <1>1, <1>2, DataShown
  <2>2. ends' \in Nat
    BY <1>1, <1>2
  <2> QED
    BY <1>1, <1>3, <2>1, <2>2 DEF BridgeTyped
<1>5. ProgramsInTurn'
  <2>1. life[made] # "running"
    <3>1. CASE exited  BY <1>2, <3>1 DEF ProgramsInTurn
    <3>2. CASE life[made] = "crashed"  BY <3>2
    <3> QED  BY <3>1, <3>2 DEF Gone
  <2> QED
    BY <1>1, <1>2, <2>1 DEF ProgramsInTurn
<1>6. Wired'
  BY <1>1, <1>2, <1>3 DEF Wired
<1>7. Shown'
  BY <1>1, <1>2, ShownMore
<1>8. ASSUME ~Strays' PROVE Ordered'
  <2>1. ~Strays /\ bridge[a].wired /\ adapter = a
    <3>1. ~Strays
      BY <1>3, <1>8 DEF Strays
    <3> QED
      BY <1>1, <3>1 DEF Strays, Wired
  <2> DEFINE L == Len(final)
  <2>2. /\ Len(shown') = Len(shown) + L /\ ends' = ends + 1 /\ L \in Nat
        /\ \A i \in 1 .. Len(shown) : shown'[i] = shown[i]
        /\ \A i \in 1 .. L : shown'[Len(shown) + i] = final[i]
        /\ final' = final
    BY <1>1, <1>2, <2>1, DataShown
  <2>3. /\ Once' = Once /\ Once \in Nat
    <3>1. read[made] \in Nat /\ Len(final) <= read[made]
      BY <1>2 DEF BridgeTyped, ProgramsInTurn
    <3> QED
      BY <1>1, <1>2, <3>1 DEF Once
  <2>4. ends * L \in Nat /\ (ends + 1) * L = ends * L + L
    BY <1>2, <2>2
  <2>5. Len(shown) \in Nat
    BY DEF BridgeTyped
  <2>6. Earlier' = Earlier /\ Earlier = Len(shown) - (Once + ends * L)
    BY <2>2, <2>3, <2>4, <2>5 DEF Earlier
  <2>7. Earlier \in Nat /\ Earlier + Once + ends * L = Len(shown)
    BY <1>2, <2>1, <2>3, <2>4, <2>5, <2>6 DEF Ordered
  <2>8. \A i \in 1 .. Earlier : shown'[i].program # made
    <3>1. \A i \in 1 .. Earlier : i \in 1 .. Len(shown)
      BY <2>3, <2>4, <2>5, <2>7
    <3>2. \A i \in 1 .. Earlier : shown[i].program # made
      BY <1>2, <2>1 DEF Ordered
    <3> QED
      BY <2>2, <3>1, <3>2
  <2>9. \A i \in 1 .. Once : shown'[Earlier + i] = [program |-> made, frame |-> i]
    <3> SUFFICES ASSUME NEW i \in 1 .. Once
                 PROVE  shown'[Earlier + i] = [program |-> made, frame |-> i]
      OBVIOUS
    <3>1. Earlier + i \in 1 .. Len(shown)
      BY <2>3, <2>4, <2>5, <2>7
    <3> QED
      BY <1>2, <2>1, <2>2, <3>1 DEF Ordered
  <2>10. ASSUME NEW n \in 0 .. ends, NEW i \in 1 .. L
         PROVE  shown'[Earlier + Once + n * L + i] = final[i]
    <3>1. CASE n = ends
      BY <2>2, <2>7, <3>1
    <3>2. CASE n # ends
      <4>1. n \in Nat /\ n < ends /\ n \in 0 .. ends - 1
        BY <1>2, <3>2
      <4>2. n * L + L <= ends * L /\ n * L \in Nat
        BY <1>2, <2>2, <4>1, TimesLonger
      <4> DEFINE m == n * L
                 all == ends * L
      <4>3. m \in Nat /\ all \in Nat /\ m + L <= all /\ Earlier + Once + all = Len(shown)
        BY <2>4, <2>7, <4>2
      <4> HIDE DEF m, all, L
      <4>4. Earlier + Once + m + i \in 1 .. Len(shown)
        BY <2>2, <2>3, <2>5, <2>7, <4>3
      <4> USE DEF m, L
      <4> QED
        BY <1>2, <2>1, <2>2, <4>1, <4>4 DEF Ordered
    <3> QED
      BY <3>1, <3>2
  <2>11. 0 .. ends' - 1 = 0 .. ends /\ Len(final') = L /\ made' = made
    BY <1>1, <1>2, <2>2
  <2>12. \A n \in 0 .. ends' - 1, i \in 1 .. Len(final') :
           shown'[Earlier' + Once' + n * Len(final') + i] = final'[i]
    <3> SUFFICES ASSUME NEW n \in 0 .. ends' - 1, NEW i \in 1 .. Len(final')
                 PROVE  shown'[Earlier' + Once' + n * Len(final') + i] = final'[i]
      OBVIOUS
    <3>1. n \in 0 .. ends /\ i \in 1 .. L
      BY <2>11
    <3>2. shown'[Earlier + Once + n * L + i] = final[i]
      BY <2>10, <3>1
    <3>3. Earlier' + Once' + n * Len(final') + i = Earlier + Once + n * L + i
      BY <2>3, <2>6, <2>11
    <3> QED
      BY <2>2, <3>2, <3>3
  <2>13. /\ Earlier' >= 0 /\ \A i \in 1 .. Earlier' : shown'[i].program # made'
         /\ \A i \in 1 .. Once' : shown'[Earlier' + i] = [program |-> made', frame |-> i]
    BY <2>3, <2>6, <2>7, <2>8, <2>9, <2>11
  <2> QED
    BY <2>12, <2>13 DEF Ordered
<1>9. Ordered'
  BY <1>8 DEF Ordered
<1> QED
  BY <1>4, <1>5, <1>6, <1>7, <1>9

(* The poll of a program that runs. *)
LEMMA PollKeeps ==
  ASSUME WasmInv, NEW a \in Adapters, Poll(a), ~Gone PROVE WasmInv'
<1> USE DEF WasmInv
<1> DEFINE frames == Unread(made)
<1>1. /\ Data(a, frames) /\ read' = [read EXCEPT ![made] = written[made]]
      /\ UNCHANGED <<made, life, written, exited, final, bridge, ends, tries, adapter>>
      /\ bridge[a].polling
  BY DEF Poll, page
<1>2. made \in Nat /\ made > 0 /\ made \in Programs
  BY <1>1 DEF BridgeTyped, Wired, Programs
<1>3. /\ frames \in Seq(Shows) /\ Len(frames) = written[made] - read[made]
      /\ \A i \in 1 .. Len(frames) : frames[i] = [program |-> made, frame |-> read[made] + i]
  BY <1>2, UnreadFrames
<1> HIDE DEF frames
<1>4. \A i \in 1 .. Len(frames) : frames[i].program = made
  BY <1>3
<1>5. /\ life[made] = "running" /\ ~exited /\ final = <<>> /\ ends = 0
  BY <1>2 DEF Gone, ProgramsInTurn, BridgeTyped
<1>6. /\ read'[made] = written[made] /\ written[made] \in Nat /\ read[made] \in Nat
      /\ read[made] <= written[made] /\ Len(final) = 0
      /\ \A q \in Programs : q # made => read'[q] = read[q]
  BY <1>1, <1>2, <1>5 DEF BridgeTyped, ProgramsInTurn
<1>7. BridgeTyped'
  <2>1. shown' \in Seq(Shows)
    BY <1>1, <1>3, DataShown
  <2> QED
    BY <1>1, <2>1 DEF BridgeTyped
<1>8. ProgramsInTurn'
  BY <1>1, <1>2, <1>5, <1>6 DEF ProgramsInTurn
<1>9. Wired'
  BY <1>1 DEF Wired
<1>10. Shown'
  BY <1>1, <1>3, <1>4, ShownMore
<1>11. ASSUME ~Strays PROVE Ordered'
  <2>1. bridge[a].wired /\ adapter = a
    BY <1>1, <1>11 DEF Strays, Wired
  <2>2. /\ Len(shown') = Len(shown) + Len(frames)
        /\ \A i \in 1 .. Len(shown) : shown'[i] = shown[i]
        /\ \A i \in 1 .. Len(frames) : shown'[Len(shown) + i] = frames[i]
    BY <1>1, <1>3, <2>1, DataShown
  <2>3. Once = read[made] /\ Once' = written[made]
    BY <1>1, <1>6 DEF Once
  <2>4. Len(shown) \in Nat /\ ends * Len(final) = 0
    BY <1>5, <1>6 DEF BridgeTyped
  <2>5. Earlier = Len(shown) - read[made] /\ Earlier' = Earlier
    BY <1>1, <1>3, <1>6, <2>2, <2>3, <2>4 DEF Earlier
  <2>6. Earlier \in Nat
    BY <1>2, <1>6, <1>11, <2>4, <2>5 DEF Ordered
  <2>7. \A i \in 1 .. Earlier : shown'[i].program # made
    <3>1. \A i \in 1 .. Earlier : i \in 1 .. Len(shown)
      BY <1>6, <2>4, <2>5, <2>6
    <3>2. \A i \in 1 .. Earlier : shown[i].program # made
      BY <1>2, <1>11 DEF Ordered
    <3> QED
      BY <2>2, <3>1, <3>2
  <2>8. ASSUME NEW i \in 1 .. written[made]
        PROVE  shown'[Earlier + i] = [program |-> made, frame |-> i]
    <3>1. CASE i <= read[made]
      <4>1. Earlier + i \in 1 .. Len(shown) /\ i \in 1 .. Once
        BY <1>6, <2>3, <2>4, <2>5, <2>6, <3>1
      <4> QED
        BY <1>2, <1>11, <2>2, <4>1 DEF Ordered
    <3>2. CASE i > read[made]
      <4>1. /\ i - read[made] \in 1 .. Len(frames)
            /\ Earlier + i = Len(shown) + (i - read[made])
            /\ read[made] + (i - read[made]) = i
        <5>1. i \in Nat /\ i <= written[made] /\ i > read[made]
          BY <1>6, <3>2
        <5>2. i - read[made] \in 1 .. Len(frames) /\ read[made] + (i - read[made]) = i
          BY <1>3, <1>6, <5>1
        <5>3. Earlier + i = Len(shown) + (i - read[made])
          BY <1>6, <2>4, <2>5, <5>1
        <5> QED
          BY <5>2, <5>3
      <4> QED
        BY <1>3, <2>2, <4>1
    <3> QED
      BY <1>6, <3>1, <3>2
  <2> QED
    BY <1>1, <1>5, <2>3, <2>5, <2>6, <2>7, <2>8 DEF Ordered
<1>12. Ordered'
  BY <1>1, <1>11 DEF Ordered, Strays
<1> QED
  BY <1>7, <1>8, <1>9, <1>10, <1>12

LEMMA CheckKeeps == ASSUME WasmInv, NEW a \in Adapters, Check(a) PROVE WasmInv'
<1> USE DEF WasmInv
<1>1. /\ UNCHANGED <<made, life, written, exited, final, read, tries, adapter, shown, ends>>
      /\ bridge[a].waiting
  BY DEF Check, page
<1>2. /\ bridge' \in [Adapters -> Fields]
      /\ \A b \in Adapters : b # a => bridge'[b] = bridge[b]
      /\ bridge'[a].wired = bridge[a].wired
      /\ \/ /\ made > 0 /\ ~bridge'[a].waiting /\ bridge'[a].polling
            /\ bridge'[a].late = ~bridge[a].wired
         \/ /\ bridge'[a].waiting \in {bridge[a].waiting, FALSE}
            /\ bridge'[a].polling = bridge[a].polling /\ bridge'[a].late = bridge[a].late
  <2>0. bridge \in [Adapters -> Fields] /\ bridge[a] \in Fields
    BY DEF BridgeTyped
  <2>1. CASE made > 0
    <3>1. bridge' = [bridge EXCEPT ![a].waiting = FALSE, ![a].polling = TRUE,
                                   ![a].late = ~bridge[a].wired]
      BY <2>1 DEF Check
    <3>2. [bridge[a] EXCEPT !.waiting = FALSE, !.polling = TRUE,
                            !.late = ~bridge[a].wired] \in Fields
      BY <2>0 DEF Fields
    <3>3. bridge' = [bridge EXCEPT ![a] = [bridge[a] EXCEPT !.waiting = FALSE, !.polling = TRUE,
                                             !.late = ~bridge[a].wired]]
      BY <2>0, <3>1
    <3> QED
      BY <2>0, <2>1, <3>2, <3>3 DEF Fields
  <2>2. CASE ~(made > 0) /\ bridge[a].attempts < MaxAttempts
    <3> DEFINE b == [bridge[a] EXCEPT !.attempts = bridge[a].attempts + 1]
    <3>1. bridge' = [bridge EXCEPT ![a].attempts = bridge[a].attempts + 1]
      BY <2>0, <2>2 DEF Check
    <3>2. b \in Fields /\ \A f \in {"polling", "waiting", "wired", "late"} : b[f] = bridge[a][f]
      BY <2>0 DEF Fields
    <3>3. bridge' = [bridge EXCEPT ![a] = b]
      BY <2>0, <3>1
    <3> HIDE DEF b
    <3>4. bridge' \in [Adapters -> Fields] /\ bridge'[a] = b
          /\ \A c \in Adapters : c # a => bridge'[c] = bridge[c]
      BY <2>0, <3>2, <3>3
    <3> QED
      BY <3>2, <3>4
  <2>3. CASE ~(made > 0) /\ ~(bridge[a].attempts < MaxAttempts)
    <3>1. bridge' = [bridge EXCEPT ![a] = [@ EXCEPT !.waiting = FALSE]]
      BY <2>3 DEF Check
    <3>2. [bridge[a] EXCEPT !.waiting = FALSE] \in Fields
      BY <2>0 DEF Fields
    <3> QED
      BY <2>0, <3>1, <3>2 DEF Fields
  <2> QED
    BY <2>1, <2>2, <2>3
<1>3. BridgeTyped' /\ ProgramsInTurn' /\ Shown'
  BY <1>1, <1>2 DEF BridgeTyped, ProgramsInTurn, Shown
<1>4. Wired'
  BY <1>1, <1>2 DEF Wired
<1>5. ~Strays' => ~Strays
  BY <1>1, <1>2 DEF Wired, Strays
<1>6. Ordered'
  BY <1>1, <1>5, OrderedStays
<1> QED
  BY <1>3, <1>4, <1>6

(* connectWasm and disconnect: the adapter in use is let go of. *)
LEMMA ReleaseLetsGo ==
  ASSUME BridgeTyped, Wired
  PROVE  /\ Release \in [Adapters -> Fields]
         /\ \A a \in Adapters :
              /\ ~Release[a].wired
              /\ Release[a].late = bridge[a].late /\ Release[a].waiting = bridge[a].waiting
              /\ Release[a].polling => bridge[a].polling /\ Release[a].late
              /\ a > tries => ~Release[a].polling /\ ~Release[a].waiting
<1>1. CASE adapter = 0
  <2>1. Release = bridge
    BY <1>1 DEF Release
  <2>2. \A a \in Adapters : a # 0
    BY DEF Adapters
  <2> QED
    BY <1>1, <2>1, <2>2 DEF Wired, BridgeTyped
<1>2. CASE adapter # 0
  <2>1. adapter \in Adapters /\ tries \in Nat /\ adapter <= tries
    BY <1>2, WasmAssumption DEF BridgeTyped, Adapters
  <2>2. /\ Release = [bridge EXCEPT ![adapter] = Disconnected(bridge[adapter])]
    BY <1>2 DEF Release
  <2>3. /\ Disconnected(bridge[adapter]) \in Fields
        /\ ~Disconnected(bridge[adapter]).wired /\ ~Disconnected(bridge[adapter]).polling
        /\ Disconnected(bridge[adapter]).late = bridge[adapter].late
        /\ Disconnected(bridge[adapter]).waiting = bridge[adapter].waiting
    BY <2>1 DEF Disconnected, BridgeTyped, Fields
  <2>4. /\ Release \in [Adapters -> Fields]
        /\ Release[adapter] = Disconnected(bridge[adapter])
        /\ \A a \in Adapters : a # adapter => Release[a] = bridge[a]
    BY <2>1, <2>2, <2>3 DEF BridgeTyped
  <2> QED
    BY <2>1, <2>3, <2>4 DEF Wired
<1> QED
  BY <1>1, <1>2

LEMMA DisconnectKeeps == ASSUME WasmInv, Disconnect PROVE WasmInv'
<1> USE DEF WasmInv
<1>1. /\ UNCHANGED <<made, life, written, exited, final, read, tries, shown, ends>>
      /\ bridge' = Release /\ adapter' = 0
  BY DEF Disconnect, page
<1>2. BridgeTyped' /\ ProgramsInTurn' /\ Shown'
  <2>1. adapter' \in 0 .. tries'
    BY <1>1 DEF BridgeTyped
  <2> QED
    BY <1>1, <2>1, ReleaseLetsGo DEF BridgeTyped, ProgramsInTurn, Shown
<1>3. Wired'
  BY <1>1, ReleaseLetsGo DEF Wired
<1>4. ~Strays' => ~Strays
  BY <1>1, ReleaseLetsGo DEF Strays
<1>5. Ordered'
  BY <1>1, <1>4, OrderedStays
<1> QED
  BY <1>2, <1>3, <1>5

LEMMA ConnectKeeps == ASSUME WasmInv, ConnectWasm PROVE WasmInv'
<1> USE DEF WasmInv
<1> DEFINE a == tries + 1
<1>1. /\ UNCHANGED <<made, life, written, exited, final, read, shown, ends>>
      /\ bridge' = [Release EXCEPT ![a] = Connected(Release[a])]
      /\ adapter' = a /\ tries' = a
  BY DEF ConnectWasm, page
<1>2. /\ a \in Adapters /\ tries \in Nat /\ a > tries /\ a \in 0 .. MaxConnects
      /\ a \in 0 .. a
  BY WasmAssumption DEF ConnectWasm, BridgeTyped, Adapters
<1> HIDE DEF a
<1>3. /\ Connected(Release[a]) \in Fields
      /\ Connected(Release[a]).wired /\ Connected(Release[a]).late = Release[a].late
      /\ Connected(Release[a]).polling => made > 0
      /\ ~(Connected(Release[a]).polling /\ Connected(Release[a]).waiting)
  BY <1>2, ReleaseLetsGo DEF Connected, Fields
<1>4. /\ bridge' \in [Adapters -> Fields] /\ bridge'[a] = Connected(Release[a])
      /\ \A b \in Adapters : b # a => bridge'[b] = Release[b]
  BY <1>1, <1>2, <1>3, ReleaseLetsGo
<1>5. BridgeTyped' /\ ProgramsInTurn' /\ Shown'
  <2>1. adapter' \in 0 .. tries' /\ tries' \in 0 .. MaxConnects
    BY <1>1, <1>2
  <2> QED
    BY <1>1, <1>4, <2>1 DEF BridgeTyped, ProgramsInTurn, Shown
<1>6. ~Release[a].late
  BY <1>2, ReleaseLetsGo DEF Wired
<1>7. Wired'
  BY <1>1, <1>2, <1>3, <1>4, <1>6, ReleaseLetsGo DEF Wired
<1>8. ~Strays' => ~Strays
  BY <1>2, <1>3, <1>4, ReleaseLetsGo DEF Strays
<1>9. Ordered'
  BY <1>1, <1>8, OrderedStays
<1> QED
  BY <1>5, <1>7, <1>9

LEMMA WasmKept == WasmInv /\ [WasmNext]_wasmVars => WasmInv'
<1> SUFFICES ASSUME WasmInv, [WasmNext]_wasmVars PROVE WasmInv'
  OBVIOUS
<1>1. CASE UNCHANGED wasmVars
  <2>1. BridgeTyped' /\ ProgramsInTurn' /\ Wired' /\ Shown'
    BY <1>1 DEF wasmVars, page, WasmInv, BridgeTyped, ProgramsInTurn, Wired, Shown
  <2>2. Ordered'
    BY <1>1, OrderedStays DEF wasmVars, page, WasmInv, Strays
  <2> QED
    BY <2>1, <2>2 DEF WasmInv
<1>2. CASE WasmNext
  BY <1>2, NewProgramKeeps, WriteKeeps, ReturnKeeps, CrashKeeps, LastPollKeeps, PollKeeps,
     CheckKeeps, ConnectKeeps, DisconnectKeeps DEF WasmNext
<1> QED
  BY <1>1, <1>2

(* Whatever disconnects, connects, exits or crashes in between: what the program on the
   page wrote comes to the terminal in order, without a gap or a repetition, and its last
   output each time the terminal is told of its end (ts/adapter.ts, wasm/wasm.go). *)
THEOREM FramesKept == WasmSpec => []FramesInOrder
<1>1. WasmInv => FramesInOrder
  <2> SUFFICES ASSUME WasmInv, made > 0, ~Strays PROVE FramesInOrder
    BY DEF FramesInOrder
  <2>1. /\ Len(shown) \in Nat /\ shown \in Seq(Shows) /\ ends \in Nat /\ Len(final) \in Nat
        /\ Len(final) <= read[made] /\ read[made] \in Nat /\ DOMAIN final = 1 .. Len(final)
    BY DEF WasmInv, BridgeTyped, ProgramsInTurn, Programs
  <2>2. Once \in Nat /\ ends * Len(final) \in Nat
    BY <2>1 DEF Once
  <2>3. Earlier >= 0 /\ Earlier \in Nat /\ Earlier + Once <= Len(shown)
    BY <2>1, <2>2 DEF WasmInv, Ordered, Earlier
  <2>4. SubSeq(shown, Earlier + 1, Earlier + Once) = Frames(made, 0, Once)
    <3>1. SubSeq(shown, Earlier + 1, Earlier + Once)
            = [i \in 1 .. Once |-> shown[Earlier + i]]
      <4>1. (Earlier + Once) - (Earlier + 1) + 1 = Once
        BY <2>2, <2>3
      <4>2. \A i \in 1 .. Once : Earlier + 1 + i - 1 = Earlier + i
        BY <2>2, <2>3
      <4> QED
        BY <2>1, <2>2, <2>3, <4>1, <4>2
    <3>2. Frames(made, 0, Once) = [i \in 1 .. Once |-> [program |-> made, frame |-> i]]
      BY <2>2 DEF Frames
    <3> QED
      BY <3>1, <3>2 DEF WasmInv, Ordered
  <2> QED
    BY <2>1, <2>3, <2>4 DEF FramesInOrder, WasmInv, Ordered, Once, Earlier
<1> QED
  BY WasmStarts, WasmKept, <1>1, PTL DEF WasmSpec
================================================================================
