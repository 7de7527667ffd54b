--------------------------- MODULE ActionHost_proofs ---------------------------
(***************************************************************************)
(* Proofs about ActionChannel and ActionHost for every set of descriptions *)
(* and every bound: programs that write to a page themselves and programs  *)
(* that termhost wraps.                                                    *)
(***************************************************************************)
EXTENDS ActionHost, SequenceTheorems, TLAPS

(* What is written to the terminal, without the bounds of a session. *)
Messages == [kind : {"report"}, instance : Nat, revision : Nat,
             content : Contents]
              \cup [kind : {"clear"}, instance : Nat]
              \cup {Query} \cup [kind : {"screen"}, on : BOOLEAN]

(* Every report between the model and the page's display. *)
Afloat == Range(cmds) \cup Range(output) \cup Range(wire) \cup Range(written)
            \cup {current}

Reported == {x \in Afloat : x.kind = "report"}

Typed ==
  /\ cmds \in Seq(Messages) /\ output \in Seq(Messages)
  /\ wire \in Seq(Messages) /\ written \in Seq(Messages)
  /\ current \in Messages \cup {Nothing}
  /\ desc \in Contents \cup {Bad} /\ content \in Contents \cup {None}
  /\ revision \in Nat /\ instance \in Nat
  /\ {supported, screen, alternate, connected, fresh} \subseteq BOOLEAN

(* A session's reports say of a revision what its publisher said, and the last
   revision is the publisher's content. *)
OneStory ==
  /\ \A r \in Reported :
       /\ r.instance = instance /\ r.revision \in Nat /\ r.revision <= revision
       /\ r.revision = revision => r.content = content
  /\ \A r, s \in Reported : r.revision = s.revision => r.content = s.content

(* Only a snapshot is on display, and only over a connection. *)
Display == current # Nothing => current.kind = "report" /\ connected

(* The host and the terminal's page exclude each other: nothing is published
   before the probe has ended, nothing reaches the host once the terminal has
   answered, and no report passes the writer once the host has taken over. *)
HostStands ==
  /\ mode \in {"probing", "passthrough", "hosting"}
  /\ ~setup.wrapped => mode = "probing" /\ written = <<>>
  /\ pending \in Seq(Messages) /\ taken \in Seq(Messages)
  /\ mode # "hosting" => pending = <<>> /\ taken = <<>> /\ hosted = Nothing
  /\ setup.wrapped /\ mode = "probing" => ~supported /\ Reported = {}
  /\ setup.wrapped /\ mode = "hosting" =>
       current = Nothing /\ \A w \in Range(wire) : w.kind # "report"

IInv == Typed /\ OneStory /\ Display /\ ButtonsAreCurrent /\ HostStands
-----------------------------------------------------------------------------
(* What the operations on queues do to their elements. *)

(* What a sequence holds after Append. *)
LEMMA AppendRange ==
  ASSUME NEW S, NEW s \in Seq(S), NEW e \in S
  PROVE  Append(s, e) \in Seq(S) /\ Range(Append(s, e)) = Range(s) \cup {e}
<1>1. Append(s, e) \in Seq(S)  BY AppendProperties
<1>2. Range(s) = {s[i] : i \in 1 .. Len(s)}  BY RangeEquality
<1>3. Range(Append(s, e)) = {Append(s, e)[i] : i \in 1 .. Len(Append(s, e))}
  BY <1>1, RangeEquality
<1> QED  BY <1>1, <1>2, <1>3, AppendProperties

(* What a sequence holds after its head is taken. *)
LEMMA TailRange ==
  ASSUME NEW S, NEW s \in Seq(S), s # <<>>
  PROVE  /\ Tail(s) \in Seq(S) /\ Head(s) \in S /\ Head(s) \in Range(s)
         /\ Range(Tail(s)) \subseteq Range(s)
<1>1. Tail(s) \in Seq(S)  BY HeadTailProperties
<1>2. Range(s) = {s[i] : i \in 1 .. Len(s)}  BY RangeEquality
<1>3. Range(Tail(s)) = {Tail(s)[i] : i \in 1 .. Len(Tail(s))}
  BY <1>1, RangeEquality
<1> QED  BY <1>1, <1>2, <1>3, HeadTailProperties, EmptySeq

(* What a sequence holds after one element is removed. *)
LEMMA RemoveRange ==
  ASSUME NEW S, NEW s \in Seq(S), NEW i \in 1 .. Len(s)
  PROVE  /\ RemoveAt(s, i) \in Seq(S) /\ s[i] \in S /\ s[i] \in Range(s)
         /\ Range(RemoveAt(s, i)) \subseteq Range(s)
<1> DEFINE a == SubSeq(s, 1, i - 1)
           b == SubSeq(s, i + 1, Len(s))
<1>1. Len(s) \in Nat /\ s[i] \in S
  BY LenProperties, ElementOfSeq
<1>2. Range(s) = {s[j] : j \in 1 .. Len(s)}  BY RangeEquality
<1>3. a \in Seq(S) /\ Range(a) \subseteq Range(s)
  <2>1. /\ a \in Seq(S) /\ \A j \in 1 .. Len(a) : a[j] = s[1 + j - 1]
        /\ Len(a) = i - 1
    BY <1>1, SubSeqProperties
  <2>2. Range(a) = {a[j] : j \in 1 .. Len(a)}  BY <2>1, RangeEquality
  <2> QED  BY <1>1, <1>2, <2>1, <2>2
<1>4. b \in Seq(S) /\ Range(b) \subseteq Range(s)
  <2>1. /\ b \in Seq(S) /\ \A j \in 1 .. Len(b) : b[j] = s[i + 1 + j - 1]
        /\ Len(b) = Len(s) - i
    BY <1>1, SubSeqProperties
  <2>2. Range(b) = {b[j] : j \in 1 .. Len(b)}  BY <2>1, RangeEquality
  <2> QED  BY <1>1, <1>2, <2>1, <2>2
<1>5. a \o b \in Seq(S) /\ Range(a \o b) = Range(a) \cup Range(b)
  BY <1>3, <1>4, ConcatProperties, RangeConcatenation, ZenonT(60)
<1> QED  BY <1>1, <1>2, <1>3, <1>4, <1>5 DEF RemoveAt

(* The empty sequence holds nothing. *)
LEMMA EmptyRange == \A S : <<>> \in Seq(S) /\ Range(<<>>) = {}
<1>1. \A S : <<>> \in Seq(S)  BY EmptySeq
<1>2. Range(<<>>) = {<<>>[i] : i \in 1 .. 0}
  BY <1>1, RangeEquality, EmptySeq
<1> QED  BY <1>1, <1>2
-----------------------------------------------------------------------------
(* What a publication does: nothing, or one message in a command. *)

Emits ==
  \/ cmds' = cmds /\ UNCHANGED publisher
  \/ cmds' \in {Append(cmds, Clear), Append(cmds, Query)} /\ UNCHANGED publisher
  \/ /\ content' \in Contents
     /\ cmds' = Append(cmds, Report(revision', content'))
     /\ UNCHANGED publisher \/ revision' = revision + 1

(* publish() runs at most one command, and a report carries the revision and
   the description it has just stored. *)
LEMMA PublishEmits ==
  ASSUME Typed, NEW d \in Contents \cup {Bad}, NEW force, Publish(d, force)
  PROVE  Emits
<1> USE DEF Typed, Emits, publisher, Run
<1>1. CASE d = Bad /\ Fail  BY <1>1 DEF Fail
<1>2. CASE d \notin {Bad, content} /\ PublishChanged(d)
  BY <1>2 DEF PublishChanged
<1>3. CASE d = content /\ Refresh
  <2>1. content \in Contents  BY <1>3 DEF Bad, None
  <2> QED  BY <1>3, <2>1 DEF Refresh
<1>4. CASE UNCHANGED <<retry, publisher, cmds>>  BY <1>4
<1> QED  BY <1>1, <1>2, <1>3, <1>4 DEF Publish

(* The program of a wrapped model publishes as one that is alone. *)
LEMMA SameProgram ==
  /\ \A d, force : Program!Publish(d, force) <=> Publish(d, force)
  /\ \A c : Program!Run(c) <=> Run(c)
  /\ Program!Query = Query
  BY DEF Program!Publish, Publish, Program!Fail, Fail, Program!Bad, Bad,
     Program!PublishChanged, PublishChanged, Program!Refresh, Refresh,
     Program!Run, Run, Program!Report, Report, Program!Clear, Clear,
     Program!publisher, publisher, Program!Query, Query

(* The messages, by kind, and what a report says. *)
LEMMA MessagesTyped ==
  ASSUME Typed
  PROVE  /\ Query \in Messages /\ Clear \in Messages
         /\ \A on \in BOOLEAN : Screen(on) \in Messages
         /\ Query.kind = "query" /\ Clear.kind = "clear"
         /\ \A on : Screen(on).kind = "screen"
         /\ \A r, c : /\ Report(r, c).kind = "report"
                      /\ Report(r, c).instance = instance
                      /\ Report(r, c).revision = r
                      /\ Report(r, c).content = c
                      /\ r \in Nat /\ c \in Contents =>
                           Report(r, c) \in Messages
  BY DEF Typed, Messages, Query, Clear, Screen, Report

(* Reports that move keep their story. *)
LEMMA StoryKept ==
  ASSUME OneStory, Reported' \subseteq Reported,
         UNCHANGED <<revision, content, instance>>
  PROVE  OneStory'
<1> HIDE DEF Reported
<1> QED  BY DEF OneStory

(* The publisher's next report agrees with those under way. *)
LEMMA StoryContinued ==
  ASSUME OneStory, revision \in Nat, UNCHANGED instance, NEW r,
         r.instance = instance, r.revision = revision', r.content = content',
         UNCHANGED <<revision, content>> \/ revision' = revision + 1,
         Reported' \subseteq Reported \cup {r}
  PROVE  OneStory'
<1> HIDE DEF Reported
<1>1. revision' \in Nat /\ revision <= revision'  OBVIOUS
<1>2. ASSUME NEW x \in Reported
      PROVE  /\ x.instance = instance' /\ x.revision \in Nat
             /\ x.revision <= revision'
             /\ x.revision = revision' => x.content = content'
  BY <1>1, <1>2 DEF OneStory
<1>3. \A x, y \in Reported \cup {r} :
        x.revision = y.revision => x.content = y.content
  BY <1>1, <1>2 DEF OneStory
<1> QED  BY <1>1, <1>2, <1>3 DEF OneStory

(* A publication keeps the reports in agreement. *)
LEMMA EmitsKeeps ==
  ASSUME IInv, Emits, UNCHANGED <<output, screen, wire, written, page, instance>>,
         desc' \in Contents \cup {Bad}, {supported', alternate'} \subseteq BOOLEAN
  PROVE  Typed' /\ OneStory' /\ Display' /\ ButtonsAreCurrent'
<1> USE DEF IInv, page
<1>1. Display' /\ ButtonsAreCurrent'
  BY DEF Display, ButtonsAreCurrent
<1>2. CASE cmds' = cmds /\ UNCHANGED publisher
  <2>1. Typed'  BY <1>2 DEF Typed, publisher
  <2>2. Reported' \subseteq Reported  BY <1>2 DEF Reported, Afloat
  <2> QED  BY <1>1, <1>2, <2>1, <2>2, StoryKept DEF publisher
<1>3. ASSUME NEW m \in {Query, Clear}, cmds' = Append(cmds, m),
             UNCHANGED publisher
      PROVE  Typed' /\ OneStory'
  <2>1. m \in Messages /\ m.kind # "report"  BY MessagesTyped
  <2>2. cmds' \in Seq(Messages) /\ Range(cmds') = Range(cmds) \cup {m}
    BY <1>3, <2>1, AppendRange DEF Typed
  <2>3. Typed'  BY <1>3, <2>2 DEF Typed, publisher
  <2>4. Reported' \subseteq Reported  BY <2>1, <2>2 DEF Reported, Afloat
  <2> QED  BY <1>3, <2>3, <2>4, StoryKept DEF publisher
<1>4. ASSUME content' \in Contents,
             cmds' = Append(cmds, Report(revision', content')),
             UNCHANGED publisher \/ revision' = revision + 1
      PROVE  Typed' /\ OneStory'
  <2> DEFINE r == Report(revision', content')
  <2>1. revision \in Nat /\ revision' \in Nat  BY <1>4 DEF Typed, publisher
  <2>2. /\ r \in Messages /\ r.instance = instance
        /\ r.revision = revision' /\ r.content = content'
    BY <1>4, <2>1, MessagesTyped
  <2> HIDE DEF r
  <2>3. cmds' \in Seq(Messages) /\ Range(cmds') = Range(cmds) \cup {r}
    BY <1>4, <2>2, AppendRange DEF Typed, r
  <2>4. Typed'  BY <1>4, <2>1, <2>3 DEF Typed
  <2>5. Reported' \subseteq Reported \cup {r}
    BY <2>3 DEF Reported, Afloat
  <2> QED  BY <1>4, <2>1, <2>2, <2>4, <2>5, StoryContinued DEF publisher
<1> QED  BY <1>1, <1>2, <1>3, <1>4 DEF Emits
-----------------------------------------------------------------------------
(* Steps that move what was written. *)

Kept == /\ Typed' /\ OneStory' /\ Display' /\ ButtonsAreCurrent'
        /\ Reported' \subseteq Reported

(* A command's output only moves from the commands to the renderer. *)
LEMMA ExecuteKeeps ==
  ASSUME IInv, NEW i \in 1 .. Len(cmds),
         output' = Append(output, cmds[i]), cmds' = RemoveAt(cmds, i),
         UNCHANGED <<model, publisher, screen, wire, written, page, instance>>
  PROVE  Kept
<1> USE DEF IInv, page, model, publisher
<1>1. /\ cmds' \in Seq(Messages) /\ cmds[i] \in Messages
      /\ cmds[i] \in Range(cmds) /\ Range(cmds') \subseteq Range(cmds)
  BY RemoveRange DEF Typed
<1>2. output' \in Seq(Messages) /\ Range(output') = Range(output) \cup {cmds[i]}
  BY <1>1, AppendRange DEF Typed
<1>3. Typed'  BY <1>1, <1>2 DEF Typed
<1>4. Reported' \subseteq Reported  BY <1>1, <1>2 DEF Reported, Afloat
<1>5. Display' /\ ButtonsAreCurrent'  BY DEF Display, ButtonsAreCurrent
<1> QED  BY <1>3, <1>4, <1>5, StoryKept DEF Kept

(* What a tick of the renderer leaves of the queue it writes to. *)
LEMMA TickWrites ==
  ASSUME Typed, NEW q \in Seq(Messages), NEW t,
         t = q \o output \o
             (IF alternate = screen THEN <<>> ELSE <<Screen(alternate)>>)
  PROVE  /\ t \in Seq(Messages)
         /\ Range(t) \subseteq Range(q) \cup Range(output) \cup {Screen(alternate)}
<1> DEFINE f == IF alternate = screen THEN <<>> ELSE <<Screen(alternate)>>
<1>1. f \in Seq(Messages) /\ Range(f) \subseteq {Screen(alternate)}
  <2>1. CASE alternate = screen  BY <2>1, EmptyRange
  <2>2. CASE alternate # screen
    <3>1. Screen(alternate) \in Messages  BY MessagesTyped DEF Typed
    <3>2. /\ Append(<<>>, Screen(alternate)) \in Seq(Messages)
          /\ Range(Append(<<>>, Screen(alternate))) =
                Range(<<>>) \cup {Screen(alternate)}
      BY <3>1, EmptyRange, AppendRange
    <3>3. Append(<<>>, Screen(alternate)) = <<Screen(alternate)>>
      OBVIOUS
    <3> QED  BY <2>2, <3>2, <3>3, EmptyRange
  <2> QED  BY <2>1, <2>2
<1> HIDE DEF f
<1> DEFINE u == q \o output
<1>2. u \in Seq(Messages) /\ Range(u) = Range(q) \cup Range(output)
  BY ConcatProperties, RangeConcatenation DEF Typed
<1> HIDE DEF u
<1>3. u \o f \in Seq(Messages) /\ Range(u \o f) = Range(u) \cup Range(f)
  BY <1>1, <1>2, ConcatProperties, RangeConcatenation
<1>4. t = u \o f  BY DEF u, f
<1> QED  BY <1>1, <1>2, <1>3, <1>4

(* A flush of the renderer only moves what it holds on. *)
LEMMA TickKeeps ==
  ASSUME IInv,
         \/ /\ written' = written
            /\ wire' = wire \o output \o
                 (IF alternate = screen THEN <<>> ELSE <<Screen(alternate)>>)
         \/ /\ wire' = wire
            /\ written' = written \o output \o
                 (IF alternate = screen THEN <<>> ELSE <<Screen(alternate)>>),
         output' = <<>>, screen' = alternate,
         UNCHANGED <<model, publisher, cmds, page, instance>>
  PROVE  Kept
<1> USE DEF IInv, page, model, publisher
<1>1. /\ wire' \in Seq(Messages) /\ written' \in Seq(Messages)
      /\ Range(wire') \cup Range(written') \subseteq
           Range(wire) \cup Range(written) \cup Range(output)
             \cup {Screen(alternate)}
  <2>1. Typed /\ wire \in Seq(Messages) /\ written \in Seq(Messages)
    BY DEF Typed
  <2>2. CASE written' = written
    BY <2>1, <2>2, TickWrites
  <2>3. CASE wire' = wire
    BY <2>1, <2>3, TickWrites
  <2> QED  BY <2>2, <2>3
<1>2. output' \in Seq(Messages) /\ Range(output') = {}
  BY EmptyRange
<1>3. Typed'  BY <1>1, <1>2 DEF Typed
<1>4. Reported' \subseteq Reported
  BY <1>1, <1>2, MessagesTyped DEF Reported, Afloat
<1>5. Display' /\ ButtonsAreCurrent'  BY DEF Display, ButtonsAreCurrent
<1> QED  BY <1>3, <1>4, <1>5, StoryKept DEF Kept

(* The page never shows more than what reached it. *)
LEMMA DeliverKeeps ==
  ASSUME IInv, Deliver, UNCHANGED written
  PROVE  /\ Kept /\ Range(wire') \subseteq Range(wire)
         /\ \/ current' = current \/ current' = Nothing
            \/ current'.kind = "report" /\ current' \in Range(wire)
<1> DEFINE w == Head(wire)
<1> USE DEF IInv, Deliver
<1>1. /\ wire' \in Seq(Messages) /\ w \in Messages /\ w \in Range(wire)
      /\ Range(wire') \subseteq Range(wire)
  BY TailRange DEF Typed
<1>2. \/ current' = current /\ fresh' = fresh
      \/ current' = Nothing /\ fresh' = FALSE
      \/ current' = w /\ fresh' = FALSE /\ w.kind = "report"
  BY DEF ReceiveReport, Show, ReceiveClear, ReceiveScreen, ClearActions,
     KeepActions
<1>3. connected /\ connected' /\ button' = button
  OBVIOUS
<1>4. Typed'
  BY <1>1, <1>2 DEF Typed, model, publisher, bounds
<1>5. Reported' \subseteq Reported
  BY <1>1, <1>2 DEF Reported, Afloat, Nothing
<1>6. Display' /\ ButtonsAreCurrent'
  BY <1>2, <1>3 DEF Display, ButtonsAreCurrent
<1>7. OneStory'  BY <1>5, StoryKept DEF publisher, bounds
<1> HIDE DEF Deliver, IInv
<1>8. Kept  BY <1>4, <1>5, <1>6, <1>7 DEF Kept
<1>9. \/ current' = current \/ current' = Nothing
      \/ current'.kind = "report" /\ current' \in Range(wire)
  BY <1>1, <1>2
<1>10. Range(wire') \subseteq Range(wire)  BY <1>1
<1> HIDE DEF w
<1> QED  BY <1>8, <1>9, <1>10

(* What the page does on its own invents no report and no button. *)
LEMMA PageKeeps ==
  ASSUME IInv, Capture \/ Reset \/ Lose, UNCHANGED written
  PROVE  Kept
<1> USE DEF IInv
<1>1. UNCHANGED <<model, publisher, path, instance, written>>
  BY DEF Capture, Reset, Lose, bounds
<1>2. \/ current' = current /\ connected' = connected
      \/ current' = Nothing
  BY DEF Capture, Reset, Lose, ClearActions
<1>3. \/ fresh' = FALSE
      \/ fresh' = TRUE /\ current # Nothing /\ button' = current
         /\ current' = current
  BY DEF Capture, Reset, Lose, ClearActions
<1>4. connected' \in BOOLEAN
  BY DEF Capture, Reset, Lose, Typed
<1>5. Typed'  BY <1>1, <1>2, <1>3, <1>4 DEF Typed, model, publisher, path
<1>6. Reported' \subseteq Reported
  BY <1>1, <1>2 DEF Reported, Afloat, path, Nothing
<1>7. Display'  BY <1>2 DEF Display
<1>8. ButtonsAreCurrent'  BY <1>2, <1>3 DEF ButtonsAreCurrent, Display
<1>9. OneStory'  BY <1>1, <1>6, StoryKept DEF publisher
<1> QED  BY <1>5, <1>6, <1>7, <1>8, <1>9 DEF Kept

(* A program's start: nothing has been said yet. *)
Started ==
  /\ ProgramStarts /\ connected = TRUE /\ current = Nothing /\ fresh = FALSE
  /\ instance \in Nat /\ written = <<>>

(* A program that starts has reported nothing. *)
LEMMA StartSound ==
  Started => Typed /\ OneStory /\ Display /\ ButtonsAreCurrent /\ Reported = {}
<1> SUFFICES ASSUME Started
             PROVE  /\ Typed /\ OneStory /\ Display /\ ButtonsAreCurrent
                    /\ Reported = {}
  OBVIOUS
<1> USE DEF Started, ProgramStarts
<1>1. desc \in Contents \cup {Bad}  BY ActionAssumption DEF Starts
<1>2. Query \in Messages /\ Query.kind = "query"  BY DEF Messages, Query
<1>3. cmds \in Seq(Messages) /\ Range(cmds) = {Query}
  <2>1. /\ Append(<<>>, Query) \in Seq(Messages)
        /\ Range(Append(<<>>, Query)) = Range(<<>>) \cup {Query}
    BY <1>2, EmptyRange, AppendRange
  <2>2. Append(<<>>, Query) = <<Query>>  OBVIOUS
  <2> QED  BY <2>1, <2>2, EmptyRange
<1>4. Typed  BY <1>1, <1>3, EmptyRange DEF Typed
<1>5. Reported = {}
  BY <1>2, <1>3, EmptyRange DEF Reported, Afloat, Nothing
<1> QED  BY <1>4, <1>5 DEF OneStory, Display, ButtonsAreCurrent

(* The start of a program, wrapped or not, satisfies the invariant. *)
LEMMA InitIInv == HostInit => IInv
<1> SUFFICES ASSUME HostInit PROVE IInv
  OBVIOUS
<1> USE DEF HostInit, Init, ProgramStarts
<1>1. Typed /\ OneStory /\ Display /\ ButtonsAreCurrent /\ Reported = {}
  BY StartSound DEF Started
<1>2. HostStands  BY <1>1, EmptyRange DEF HostStands
<1> QED  BY <1>1, <1>2 DEF IInv

-----------------------------------------------------------------------------
(* A program without a wrapper. *)

(* Without a wrapper, nothing is under way in the host. *)
LEMMA AloneStands ==
  ASSUME HostStands, ~setup.wrapped, UNCHANGED hostVars
  PROVE  HostStands'
  BY DEF HostStands, hostVars

(* What Update says is as Emits allows. *)
LEMMA UpdateEmits ==
  ASSUME IInv, \/ \E d \in Contents \cup {Bad} : Change(d)
               \/ SwitchScreen \/ Supported
  PROVE  /\ Emits /\ UNCHANGED <<output, screen, wire, page, instance>>
         /\ desc' \in Contents \cup {Bad}
         /\ {supported', alternate'} \subseteq BOOLEAN
<1> USE DEF IInv, programRest
<1>1. ASSUME NEW d \in Contents \cup {Bad}, Change(d) PROVE Emits
  BY <1>1, PublishEmits DEF Change, Emits
<1>2. ASSUME SwitchScreen PROVE Emits
  BY <1>2 DEF SwitchScreen, Emits, Run, publisher
<1>3. ASSUME Supported PROVE Emits
  <2>1. Typed /\ desc \in Contents \cup {Bad}  BY DEF Typed
  <2>2. Publish(desc, TRUE)  BY <1>3 DEF Supported
  <2> QED  BY <2>1, <2>2, PublishEmits
<1>4. Emits  BY <1>1, <1>2, <1>3
<1> QED  BY <1>4 DEF Change, SwitchScreen, Supported, Typed, path, page

(* The steps of a program that talks to the page itself keep the invariant. *)
LEMMA AloneIInv == ASSUME IInv, Alone(Next) PROVE IInv'
<1>1. /\ ~setup.wrapped /\ UNCHANGED hostVars /\ UNCHANGED written
      /\ HostStands'
  BY AloneStands DEF Alone, IInv, hostVars
<1>2. CASE (\E d \in Contents \cup {Bad} : Change(d)) \/ SwitchScreen \/ Supported
  BY <1>1, <1>2, UpdateEmits, EmitsKeeps DEF IInv
<1>3. ASSUME NEW i \in 1 .. Len(cmds), Execute(i) PROVE IInv'
  <2>1. Kept
    BY <1>1, <1>3, ExecuteKeeps DEF Execute, page, bounds
  <2> QED  BY <1>1, <2>1 DEF IInv, Kept
<1>4. CASE Tick
  <2>1. Kept
    BY <1>1, <1>4, TickKeeps DEF Tick, page, bounds
  <2> QED  BY <1>1, <2>1 DEF IInv, Kept
<1>5. CASE Deliver
  BY <1>1, <1>5, DeliverKeeps DEF IInv, Kept
<1>6. CASE Capture \/ Reset \/ Lose
  BY <1>1, <1>6, PageKeeps DEF IInv, Kept
<1>7. CASE Reconnect
  <2>1. Started'
    BY <1>1, <1>7 DEF Reconnect, Started, ProgramStarts, HostStands, IInv, Typed,
       ClearActions
  <2>2. (Typed /\ OneStory /\ Display /\ ButtonsAreCurrent)'
    BY <2>1, StartSound, PTL
  <2> QED  BY <1>1, <2>2 DEF IInv
<1> QED  BY <1>1, <1>2, <1>3, <1>4, <1>5, <1>6, <1>7 DEF Alone, Next
-----------------------------------------------------------------------------
(* A wrapped program. *)

(* As long as the terminal has been asked in vain nothing is published. *)
LEMMA ProbingSilent ==
  ASSUME IInv, setup.wrapped, mode = "probing"
  PROVE  /\ ~supported /\ Reported = {} /\ current = Nothing
         /\ \A w \in Range(wire) : w.kind # "report"
         /\ pending = <<>> /\ taken = <<>> /\ hosted = Nothing
  BY DEF IInv, HostStands, Display, Reported, Afloat

(* Steps that publish nothing and do not touch the host. *)
LEMMA MovesStand ==
  ASSUME IInv, setup.wrapped, Kept, UNCHANGED <<wire, current, supported>>,
         UNCHANGED <<setup, mode, pending, taken, hosted>>
  PROVE  IInv'
  BY DEF IInv, Kept, HostStands

(* An update of a wrapped program keeps the invariant. *)
LEMMA ForwardChangeIInv ==
  ASSUME IInv, setup.wrapped, ForwardChange PROVE IInv'
<1> USE DEF IInv
<1>1. UNCHANGED <<wire, hostVars>> /\ UNCHANGED <<output, screen, page, instance>>
  BY DEF ForwardChange, Program!SwitchScreen, Program!Change,
     Program!programRest, Program!page, page
<1>2. /\ desc' \in Contents \cup {Bad}
      /\ {supported', alternate'} \subseteq BOOLEAN
  BY DEF ForwardChange, Program!SwitchScreen, Program!Change, Typed,
     Program!Bad, Bad
<1>3. \/ Emits /\ supported /\ supported' = supported
      \/ cmds' = cmds /\ UNCHANGED publisher /\ supported' = supported
      \/ cmds' = Append(cmds, Query) /\ UNCHANGED publisher /\ supported' = FALSE
  <2>1. CASE Program!SwitchScreen
    BY <2>1, SameProgram DEF Program!SwitchScreen, Run, Program!publisher,
       publisher
  <2>2. ASSUME NEW d \in Contents \cup {Bad}, Program!Change(d)
        PROVE  \/ Emits /\ supported /\ supported' = supported
               \/ /\ cmds' = cmds /\ UNCHANGED publisher
                  /\ supported' = supported
    <3>1. CASE supported
      <4>1. Publish(d, FALSE) /\ supported' = supported
        BY <2>2, <3>1, SameProgram DEF Program!Change
      <4> QED  BY <3>1, <4>1, PublishEmits
    <3>2. CASE ~supported
      BY <2>2, <3>2 DEF Program!Change, Program!publisher, publisher
    <3> QED  BY <3>1, <3>2
  <2> QED  BY <2>1, <2>2 DEF ForwardChange
<1>4. Emits  BY <1>3 DEF Emits
<1>5. Typed' /\ OneStory' /\ Display' /\ ButtonsAreCurrent'
  <2>1. UNCHANGED <<output, screen, wire, written, page, instance>>
    BY <1>1 DEF hostVars
  <2> QED  BY <1>2, <1>4, <2>1, EmitsKeeps
<1>6. mode = "probing" => ~supported' /\ Reported' = {}
  <2> SUFFICES ASSUME mode = "probing" PROVE ~supported' /\ Reported' = {}
    OBVIOUS
  <2>1. ~supported /\ Reported = {}  BY ProbingSilent
  <2>2. cmds' = cmds \/ cmds' = Append(cmds, Query)  BY <1>3, <2>1
  <2>3. Range(cmds') \subseteq Range(cmds) \cup {Query} /\ Query.kind = "query"
    <3>1. Query \in Messages /\ Query.kind = "query" /\ cmds \in Seq(Messages)
      BY MessagesTyped DEF Typed
    <3>2. Range(Append(cmds, Query)) = Range(cmds) \cup {Query}
      BY <3>1, AppendRange
    <3> QED  BY <2>2, <3>1, <3>2
  <2>4. Reported' \subseteq Reported
    BY <1>1, <2>3 DEF Reported, Afloat, page, hostVars
  <2> QED  BY <1>3, <2>1, <2>4
<1>7. HostStands'
  BY <1>1, <1>6 DEF HostStands, hostVars, page
<1> QED  BY <1>5, <1>7

(* A publication of a program whose probe has ended. *)
LEMMA SupportIInv ==
  ASSUME IInv, setup.wrapped, Emits, supported' = TRUE,
         UNCHANGED <<output, screen, wire, written, page, instance, desc, alternate>>,
         UNCHANGED setup, mode' \in {"passthrough", "hosting"},
         mode # "probing" => mode' = mode,
         pending' = pending,
         (taken # <<>> /\ taken' = Tail(taken)) \/ taken' = taken,
         hosted' \in {hosted, Nothing}
  PROVE  IInv'
<1> USE DEF IInv
<1>1. Typed' /\ OneStory' /\ Display' /\ ButtonsAreCurrent'
  <2>1. /\ desc' \in Contents \cup {Bad}
        /\ {supported', alternate'} \subseteq BOOLEAN
    BY DEF Typed
  <2> QED  BY <2>1, EmitsKeeps
<1>2. taken' \in Seq(Messages)  BY TailRange DEF HostStands
<1>3. mode = "probing" => /\ current = Nothing
                          /\ \A w \in Range(wire) : w.kind # "report"
  BY ProbingSilent
<1>4. HostStands'
  BY <1>2, <1>3 DEF HostStands, page
<1> QED  BY <1>1, <1>4

(* The terminal's answer, the probe's timeout, and the event that tells the
   program of it keep the invariant. *)
LEMMA AnswerIInv ==
  ASSUME IInv, setup.wrapped,
         TerminalAnswers \/ ProbeTimeout \/ HandleEvent
  PROVE  IInv'
<1> USE DEF IInv
<1>1. desc \in Contents \cup {Bad} /\ Typed  BY DEF Typed
<1>2. CASE TerminalAnswers
  <2>1. Publish(desc, TRUE)
    BY <1>2, SameProgram DEF TerminalAnswers, Program!Supported
  <2>2. Emits  BY <1>1, <2>1, PublishEmits
  <2>3. UNCHANGED <<output, screen, wire, written, page, instance, desc, alternate>>
    BY <1>2 DEF TerminalAnswers, Program!Supported, Program!programRest,
       Program!page, page
  <2>4. /\ supported' = TRUE /\ UNCHANGED <<setup, pending, taken, hosted>>
        /\ mode' = IF mode = "probing" THEN "passthrough" ELSE mode
    BY <1>2 DEF TerminalAnswers, Program!Supported, queue
  <2>5. mode' \in {"passthrough", "hosting"}  BY <2>4 DEF HostStands
  <2> QED  BY <2>2, <2>3, <2>4, <2>5, SupportIInv
<1>3. ASSUME ForwardSupport, UNCHANGED <<pageRest, desc, alternate, setup, written>>
      PROVE  /\ Emits /\ supported' = TRUE
             /\ UNCHANGED <<output, screen, wire, written, page, instance, desc,
                           alternate>>
  <2>1. Publish(desc, TRUE) /\ supported' = TRUE
    BY <1>3 DEF ForwardSupport
  <2>2. Emits  BY <1>1, <2>1, PublishEmits
  <2> QED  BY <1>3, <2>1, <2>2 DEF pageRest, bounds
<1>4. CASE ProbeTimeout
  <2>1. CASE mode = "probing" /\ mode' = "hosting" /\ ForwardSupport
    BY <1>3, <1>4, <2>1, SupportIInv DEF ProbeTimeout, queue
  <2>2. CASE UNCHANGED <<mode, supported, retry, publisher, cmds>>
    <3>1. UNCHANGED <<cmds, output, wire, written, current, desc, content,
                      revision, instance, supported, screen, alternate, connected,
                      fresh, button, setup, mode, pending, taken, hosted>>
      BY <1>4, <2>2 DEF ProbeTimeout, pageRest, queue, publisher, page, bounds
    <3> QED
      BY <3>1 DEF Typed, OneStory, Display, ButtonsAreCurrent, HostStands,
         Reported, Afloat
  <2> QED  BY <1>4, <2>1, <2>2 DEF ProbeTimeout
<1>5. CASE HandleEvent
  <2>1. mode = "hosting" /\ taken # <<>> /\ taken' = Tail(taken)
    BY <1>5 DEF HandleEvent, HostStands
  <2>2. CASE hosted' = Nothing /\ ForwardSupport
    BY <1>3, <1>5, <2>1, <2>2, SupportIInv DEF HandleEvent
  <2>3. CASE UNCHANGED <<supported, retry, publisher, cmds>>
    <3>1. UNCHANGED <<cmds, output, wire, written, current, desc, content,
                      revision, instance, supported, screen, alternate, connected,
                      fresh, button, setup, mode, pending>>
      BY <1>5, <2>3 DEF HandleEvent, pageRest, publisher, page, bounds
    <3>2. taken' \in Seq(Messages)  BY <2>1, TailRange DEF HostStands
    <3> QED
      BY <2>1, <3>1, <3>2 DEF Typed, OneStory, Display, ButtonsAreCurrent,
         HostStands, Reported, Afloat
  <2> QED  BY <1>5, <2>2, <2>3 DEF HandleEvent
<1> QED  BY <1>2, <1>4, <1>5

(* What the host's listener does between its events keeps the invariant. *)
LEMMA ListenIInv ==
  ASSUME IInv, setup.wrapped, Drain \/ ListenAgain \/ Listen PROVE IInv'
<1>1. UNCHANGED <<cmds, output, wire, written, current, desc, content, revision,
                  instance, supported, screen, alternate, connected, fresh,
                  button, setup, mode, hosted>>
  BY DEF Drain, ListenAgain, Listen, pageRest, model, publisher, page, bounds
<1>2. \/ UNCHANGED <<pending, taken>>
      \/ taken' = pending /\ pending' = <<>>
  BY DEF Drain, ListenAgain, Listen
<1> QED
  BY <1>1, <1>2, EmptyRange DEF IInv, Typed, OneStory, Display,
     ButtonsAreCurrent, HostStands, Reported, Afloat

(* The wrapped renderer's flush keeps the invariant. *)
LEMMA RendererIInv ==
  ASSUME IInv, setup.wrapped, RunCommand \/ Render PROVE IInv'
<1>1. ASSUME NEW i \in 1 .. Len(cmds), Program!Execute(i),
             UNCHANGED <<wire, hostVars>>
      PROVE  IInv'
  <2>3. output' = Append(output, cmds[i]) /\ cmds' = RemoveAt(cmds, i)
    BY <1>1, Zenon DEF Program!Execute, Program!RemoveAt, RemoveAt
  <2>4. UNCHANGED <<model, publisher, screen, wire, written, page, instance>>
    BY <1>1 DEF Program!Execute, Program!model, model, Program!publisher,
       publisher, Program!page, page, Program!bounds
  <2>2. Kept  BY <2>3, <2>4, ExecuteKeeps
  <2> QED  BY <1>1, <2>2, <2>4, MovesStand DEF hostVars, model, page
<1>2. CASE Render
  <2>1. Kept
    BY <1>2, TickKeeps DEF Render, Program!Tick, Program!Screen, Screen,
       Program!model, model, Program!publisher, publisher, Program!page, page,
       Program!bounds, bounds
  <2> QED
    BY <1>2, <2>1, MovesStand DEF Render, Program!Tick, queue, Program!model,
       model, Program!page, page
<1> QED  BY <1>1, <1>2 DEF RunCommand

(* Writer.Write passes on or intercepts, as the mode says. *)
LEMMA WriteIInv == ASSUME IInv, setup.wrapped, Write PROVE IInv'
<1> DEFINE w == Head(written)
<1> USE DEF IInv
<1>1. UNCHANGED <<cmds, output, current, desc, content, revision, instance,
                  supported, screen, alternate, connected, fresh, button, setup,
                  mode, taken, hosted>>
  BY DEF Write, model, publisher, page, bounds
<1>2. /\ written' \in Seq(Messages) /\ w \in Messages /\ w \in Range(written)
      /\ Range(written') \subseteq Range(written)
  BY TailRange DEF Write, Typed
<1>3. \/ /\ mode = "hosting" /\ wire' = wire
         /\ pending' = Append(pending, w)
      \/ /\ ~(mode = "hosting" /\ w.kind = "report")
         /\ wire' = Append(wire, w) /\ pending' = pending
  BY DEF Write, Intercepts
<1> HIDE DEF w
<1>4. /\ wire' \in Seq(Messages) /\ pending' \in Seq(Messages)
      /\ Range(wire') \subseteq Range(wire) \cup {w}
      /\ mode = "hosting" /\ wire' # wire => w.kind # "report"
      /\ mode # "hosting" => pending' = pending
  <2>1. CASE wire' = wire /\ mode = "hosting" /\ pending' = Append(pending, w)
    BY <1>2, <2>1, AppendRange DEF Typed, HostStands
  <2>2. CASE /\ ~(mode = "hosting" /\ w.kind = "report")
             /\ wire' = Append(wire, w) /\ pending' = pending
    <3>1. Append(wire, w) \in Seq(Messages)
          /\ Range(Append(wire, w)) = Range(wire) \cup {w}
      BY <1>2, AppendRange DEF Typed
    <3> QED  BY <2>2, <3>1 DEF HostStands
  <2> QED  BY <1>3, <2>1, <2>2
<1>5. Typed'  BY <1>1, <1>2, <1>4 DEF Typed
<1>6. Reported' \subseteq Reported
  BY <1>1, <1>2, <1>4 DEF Reported, Afloat
<1>7. OneStory'  BY <1>1, <1>6, StoryKept
<1>8. Display' /\ ButtonsAreCurrent'  BY <1>1 DEF Display, ButtonsAreCurrent
<1>9. HostStands'
  <2>1. mode = "hosting" => \A m \in Range(wire') : m.kind # "report"
    BY <1>4 DEF HostStands
  <2> QED  BY <1>1, <1>4, <1>6, <2>1 DEF HostStands
<1> QED  BY <1>5, <1>7, <1>8, <1>9

(* The terminal that reads the host's output keeps the invariant. *)
LEMMA TerminalReadsIInv ==
  ASSUME IInv, setup.wrapped, TerminalReads PROVE IInv'
<1>1. UNCHANGED hostVars  BY DEF TerminalReads
<1>2. CASE Deliver
  <2>1. /\ Kept /\ Range(wire') \subseteq Range(wire)
        /\ \/ current' = current \/ current' = Nothing
           \/ current'.kind = "report" /\ current' \in Range(wire)
    BY <1>1, <1>2, DeliverKeeps DEF hostVars
  <2>2. supported' = supported  BY <1>2 DEF Deliver, model
  <2> QED  BY <1>1, <2>1, <2>2 DEF IInv, Kept, HostStands, hostVars
<1>3. CASE /\ wire # <<>> /\ wire' = Tail(wire)
           /\ UNCHANGED <<ordered, model, publisher, cmds, output, screen,
                         replies, page, bounds, wiped>>
  <2> USE DEF IInv
  <2>1. wire' \in Seq(Messages) /\ Range(wire') \subseteq Range(wire)
    BY <1>3, TailRange DEF Typed
  <2>2. UNCHANGED <<cmds, output, written, current, desc, content, revision,
                    instance, supported, screen, alternate, connected, fresh,
                    button, setup, mode, pending, taken, hosted>>
    BY <1>1, <1>3 DEF hostVars, model, publisher, page, bounds
  <2>3. Typed'  BY <2>1, <2>2 DEF Typed
  <2>4. Reported' \subseteq Reported  BY <2>1, <2>2 DEF Reported, Afloat
  <2>5. OneStory'  BY <2>2, <2>4, StoryKept
  <2>6. Display' /\ ButtonsAreCurrent'  BY <2>2 DEF Display, ButtonsAreCurrent
  <2>7. HostStands'  BY <2>1, <2>2, <2>4 DEF HostStands
  <2> QED  BY <2>3, <2>5, <2>6, <2>7
<1> QED  BY <1>2, <1>3 DEF TerminalReads

(* Every step of the program, its host and the page keeps the invariant. *)
THEOREM Inductive == IInv /\ [HostNext]_hostAll => IInv'
<1> SUFFICES ASSUME IInv, [HostNext]_hostAll PROVE IInv'
  OBVIOUS
<1>1. CASE Alone(Next)  BY <1>1, AloneIInv
<1>2. CASE Wrapped(Hosted)
  BY <1>2, ForwardChangeIInv, AnswerIInv, ListenIInv, RendererIInv, WriteIInv,
     TerminalReadsIInv DEF Wrapped, Hosted
<1>3. CASE UNCHANGED hostAll
  BY <1>3 DEF hostAll, vars, model, publisher, path, page, bounds, hostVars, IInv,
     Typed, OneStory, Display, ButtonsAreCurrent, HostStands, Reported, Afloat
<1> QED  BY <1>1, <1>2, <1>3 DEF HostNext

(* The invariant holds in every state they reach. *)
THEOREM Invariance == HostSpec => []IInv
  BY InitIInv, Inductive, PTL DEF HostSpec

-----------------------------------------------------------------------------
(* A button that can still send its key belongs to the snapshot on display
   (ts/actions.ts:138-146). *)
THEOREM NoStaleButton == HostSpec => []ButtonsAreCurrent
<1>1. IInv => ButtonsAreCurrent  BY DEF IInv
<1> QED  BY <1>1, Invariance, PTL

(* No receiver ever meets two contents under one revision of a session
   (actions/publisher.go:29-63). *)
THEOREM RevisionsAgree == HostSpec => []NoConflict
<1>1. IInv => NoConflict
  <2> SUFFICES ASSUME IInv, NEW r \in UnderWay \cup {current},
                      NEW s \in UnderWay \cup {current},
                      r.kind = "report", s.kind = "report",
                      r.instance = s.instance, r.revision = s.revision
               PROVE  r = s
    BY DEF NoConflict
  <2>1. UnderWay \subseteq Messages
    BY RangeOfSeq DEF UnderWay, IInv, Typed
  <2>2. \A x \in Messages \cup {Nothing} : x.kind = "report" =>
          x \in [kind : {"report"}, instance : Nat, revision : Nat,
                content : Contents]
    BY DEF Messages, Nothing, Query
  <2>3. r \in Messages \cup {Nothing} /\ s \in Messages \cup {Nothing}
    BY <2>1 DEF IInv, Typed
  <2>4. r \in Reported /\ s \in Reported
    BY DEF Reported, Afloat, UnderWay
  <2>5. r.content = s.content  BY <2>4 DEF IInv, OneStory
  <2> QED  BY <2>2, <2>3, <2>5
<1> QED  BY <1>1, Invariance, PTL

(* The host's bar and the page's never both show the actions
   (actions/termhost/termhost.go:9-13). *)
THEOREM NeverTwoBars == HostSpec => []OneBar
<1>1. IInv => OneBar  BY DEF IInv, HostStands, OneBar
<1> QED  BY <1>1, Invariance, PTL
=============================================================================
