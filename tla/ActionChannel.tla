----------------------------- MODULE ActionChannel -----------------------------
(***************************************************************************)
(* Terminal actions from a program to the buttons on a page: the model     *)
(* wrapper (actions/bubblehelp/model.go) and its Publisher                 *)
(* (actions/publisher.go) on one side, ActionStatusBridge and              *)
(* ActionController (ts/action_status.ts, ts/actions.ts) on the other, and *)
(* between them Bubble Tea's output and the terminal's parser.             *)
(*                                                                         *)
(* A description of the program's keys is a member of Contents, or Bad     *)
(* when it cannot be encoded.                                              *)
(***************************************************************************)
EXTENDS Naturals, SequencesExt

CONSTANTS Contents,        \* the valid descriptions
          Orders,          \* whether Bubble Tea's commands stay in order
          MaxChanges,      \* bound: changes of the description in a session
          MaxSwitches,     \* bound: changes of the screen in a session
          MaxConnections,  \* bound: sessions
          MaxResets        \* bound: calls of booba.reset()

ASSUME ActionAssumption ==
  /\ Contents # {}
  /\ Orders \subseteq BOOLEAN
  /\ {MaxChanges, MaxSwitches, MaxConnections, MaxResets} \subseteq Nat

VARIABLES
  ordered,                                    \* chosen once
  desc, alternate, supported, retry,          \* bubblehelp.Model
  content, revision,                          \* Publisher
  cmds, output, screen, wire, replies,        \* Bubble Tea and the terminal
  connected, current, fresh, button, owner,   \* the page
  observed,
  instance, changes, switches, resets, wiped

model == <<desc, alternate, supported, retry>>
publisher == <<content, revision>>
path == <<cmds, output, screen, wire, replies>>
page == <<connected, current, fresh, button, owner, observed>>
bounds == <<instance, changes, switches, resets>>
vars == <<ordered, model, publisher, path, page, bounds, wiped>>

Bad == "bad"
None == "none"
Nothing == [kind |-> "nothing"]

(* What is written to the terminal. *)
Report(r, c) == [kind |-> "report", instance |-> instance, revision |-> r,
                 content |-> c]
Clear == [kind |-> "clear", instance |-> instance]
Query == [kind |-> "query"]
Screen(on) == [kind |-> "screen", on |-> on]

(* What a program describes first.  A program without valid actions runs all the
   same (NewModelWithFallback). *)
Starts == {CHOOSE c \in Contents : TRUE, Bad}

(* A program as it is started: Init asks whether the terminal knows of the
   protocol. *)
ProgramStarts ==
  /\ desc \in Starts
  /\ alternate = FALSE /\ supported = FALSE /\ retry = FALSE
  /\ content = None /\ revision = 0
  /\ cmds = <<Query>> /\ output = <<>> /\ screen = FALSE
  /\ wire = <<>> /\ replies = 0

Init ==
  /\ ordered \in Orders
  /\ ProgramStarts
  /\ connected = TRUE /\ current = Nothing /\ fresh = FALSE /\ button = Nothing
  /\ owner = 0 /\ observed = FALSE
  /\ instance = 1 /\ changes = 0 /\ switches = 0 /\ resets = 0
  /\ wiped = FALSE

-----------------------------------------------------------------------------
(* bubblehelp.Model.publish *)

Run(c) == cmds' = Append(cmds, c)

(* Fault: the failure is not remembered. *)
FailForgets ==
  /\ retry' = FALSE /\ Run(Clear)
  /\ UNCHANGED publisher

Fail ==
  /\ retry' = TRUE /\ Run(Clear)
  /\ UNCHANGED publisher

(* Fault: every snapshot has the same revision. *)
PublishChangedKeepsRevision(d) ==
  /\ content' = d /\ revision' = 1
  /\ retry' = FALSE /\ Run(Report(1, d))

PublishChanged(d) ==
  /\ content' = d /\ revision' = revision + 1
  /\ retry' = FALSE /\ Run(Report(revision', d))

Refresh ==
  /\ retry' = FALSE /\ Run(Report(revision, content))
  /\ UNCHANGED publisher

Publish(d, force) ==
  \/ d = Bad /\ Fail
  \/ d \notin {Bad, content} /\ PublishChanged(d)
  \/ d = content /\ (force \/ retry) /\ Refresh
  \/ d = content /\ ~force /\ ~retry /\ UNCHANGED <<retry, publisher, cmds>>

-----------------------------------------------------------------------------
(* bubblehelp.Model.Update *)

programRest == <<ordered, output, screen, wire, page, instance, resets, wiped>>

Change(d) ==
  /\ connected /\ changes < MaxChanges /\ d # desc
  /\ changes' = changes + 1
  /\ desc' = d
  /\ IF supported THEN Publish(d, FALSE) ELSE UNCHANGED <<retry, publisher, cmds>>
  /\ UNCHANGED <<programRest, alternate, supported, replies, switches>>

(* Fault: the snapshot follows at once, without asking the terminal. *)
SwitchScreenPublishes ==
  /\ connected /\ switches < MaxSwitches
  /\ switches' = switches + 1
  /\ alternate' = ~alternate
  /\ IF supported THEN Publish(desc, TRUE) ELSE UNCHANGED <<retry, publisher, cmds>>
  /\ UNCHANGED <<programRest, desc, supported, replies, changes>>

SwitchScreen ==
  /\ connected /\ switches < MaxSwitches
  /\ switches' = switches + 1
  /\ alternate' = ~alternate
  /\ supported' = FALSE
  /\ Run(Query)
  /\ UNCHANGED <<programRest, desc, retry, publisher, replies, changes>>

Supported ==
  /\ connected /\ replies > 0
  /\ replies' = replies - 1
  /\ supported' = TRUE
  /\ Publish(desc, TRUE)
  /\ UNCHANGED <<programRest, desc, alternate, changes, switches>>

-----------------------------------------------------------------------------
(* Bubble Tea: a command runs in a goroutine of its own, and its tea.Raw is
   buffered when the event loop receives it.  A tick of the renderer writes the
   buffer, then the frame. *)

Execute(i) ==
  /\ i \in DOMAIN cmds /\ (ordered => i = 1)
  /\ output' = Append(output, cmds[i])
  /\ cmds' = RemoveAt(cmds, i)
  /\ UNCHANGED <<ordered, model, publisher, screen, wire, replies, page, bounds,
                 wiped>>

Tick ==
  /\ output # <<>> \/ alternate # screen
  /\ wire' = wire \o output \o
             (IF alternate = screen THEN <<>> ELSE <<Screen(alternate)>>)
  /\ output' = <<>> /\ screen' = alternate
  /\ UNCHANGED <<ordered, model, publisher, cmds, replies, page, bounds, wiped>>

-----------------------------------------------------------------------------
(* The page. *)

(* ActionStatusBridge.clear, and with it ActionController.clear. *)
ClearActions == current' = Nothing /\ owner' = 0 /\ fresh' = FALSE

KeepActions == UNCHANGED <<current, owner, fresh, wiped>>

Same(r) == current # Nothing /\ current.instance = r.instance

Accepts(r) == Same(r) => r.revision > current.revision

Conflicts(r) == /\ Same(r)
                /\ r.revision = current.revision /\ r.content # current.content

(* Fault: captured buttons stay valid. *)
ShowKeepsButtons(r) ==
  /\ current' = r /\ owner' = r.instance /\ wiped' = FALSE
  /\ UNCHANGED fresh

(* A snapshot takes the place of the one on display. *)
Show(r) == /\ current' = r /\ owner' = r.instance /\ wiped' = FALSE
           /\ fresh' = FALSE

(* ActionStatusBridge.receive *)
ReceiveReport(r) ==
  \/ Accepts(r) /\ Show(r)
  \/ ~Accepts(r) /\ ~Conflicts(r) /\ owner' = r.instance
     /\ UNCHANGED <<current, fresh, wiped>>
  \/ ~Accepts(r) /\ Conflicts(r)
     /\ IF owner = r.instance THEN ClearActions /\ UNCHANGED wiped ELSE KeepActions

ReceiveClear(c) ==
  IF owner = c.instance THEN ClearActions /\ UNCHANGED wiped ELSE KeepActions

ReceiveScreen(on) ==
  IF on = observed THEN KeepActions ELSE ClearActions /\ UNCHANGED wiped

(* writeLiveOutput and the terminal's parser: what was written is seen in its
   order. *)
Deliver ==
  /\ connected /\ wire # <<>>
  /\ wire' = Tail(wire)
  /\ LET w == Head(wire)
     IN  \/ w.kind = "report" /\ ReceiveReport(w) /\ UNCHANGED <<replies, observed>>
         \/ w.kind = "clear" /\ ReceiveClear(w) /\ UNCHANGED <<replies, observed>>
         \/ /\ w.kind = "query" /\ KeepActions
            /\ replies' = replies + 1 /\ UNCHANGED observed
         \/ /\ w.kind = "screen" /\ ReceiveScreen(w.on)
            /\ observed' = w.on /\ UNCHANGED replies
  /\ UNCHANGED <<ordered, model, publisher, cmds, output, screen, connected, button,
                 bounds>>

(* A button is rendered, or pressed, and remembers the generation. *)
Capture ==
  /\ current # Nothing
  /\ button' = current /\ fresh' = TRUE
  /\ UNCHANGED <<ordered, model, publisher, path, connected, current, owner,
                 observed, bounds, wiped>>

(* booba.reset() *)
Reset ==
  /\ resets < MaxResets
  /\ resets' = resets + 1
  /\ ClearActions /\ observed' = FALSE /\ wiped' = TRUE
  /\ UNCHANGED <<ordered, model, publisher, path, connected, button, instance,
                 changes, switches>>

(* The state callback, when the connection is lost, and when it is made again
   and the server has started another program. *)
Lose ==
  /\ connected /\ instance < MaxConnections
  /\ connected' = FALSE
  /\ ClearActions /\ observed' = FALSE
  /\ UNCHANGED <<ordered, model, publisher, path, button, bounds, wiped>>

Reconnect ==
  /\ ~connected
  /\ connected' = TRUE /\ instance' = instance + 1
  /\ ClearActions /\ observed' = FALSE /\ wiped' = FALSE
  /\ desc' \in Starts
  /\ alternate' = FALSE /\ supported' = FALSE /\ retry' = FALSE
  /\ content' = None /\ revision' = 0
  /\ cmds' = <<Query>> /\ output' = <<>> /\ screen' = FALSE
  /\ wire' = <<>> /\ replies' = 0
  /\ changes' = 0 /\ switches' = 0
  /\ UNCHANGED <<ordered, button, resets>>

Next ==
  \/ \E d \in Contents \cup {Bad} : Change(d)
  \/ SwitchScreen \/ Supported
  \/ \E i \in 1 .. Len(cmds) : Execute(i)
  \/ Tick \/ Deliver \/ Capture \/ Reset \/ Lose \/ Reconnect

(* Goroutines run, the renderer ticks, and the connection carries what is
   written, and the reply. *)
Fairness ==
  /\ WF_vars(\E i \in 1 .. Len(cmds) : Execute(i))
  /\ WF_vars(Tick) /\ WF_vars(Deliver) /\ WF_vars(Supported) /\ WF_vars(Reconnect)

Spec == Init /\ [][Next]_vars /\ Fairness

-----------------------------------------------------------------------------
Reports == [kind : {"report"}, instance : 1 .. MaxConnections,
            revision : 1 .. MaxChanges + 1, content : Contents]
Written == Reports \cup [kind : {"clear"}, instance : 1 .. MaxConnections]
             \cup {Query} \cup [kind : {"screen"}, on : BOOLEAN]

UnderWay == Range(cmds) \cup Range(output) \cup Range(wire)

(* The types of both ends and of what is under way; a session publishes no more
   revisions than it has descriptions. *)
TypeOK ==
  /\ desc \in Contents \cup {Bad} /\ content \in Contents \cup {None}
  /\ {alternate, supported, retry, screen, connected, fresh, observed, wiped}
       \subseteq BOOLEAN
  /\ revision \in 0 .. MaxChanges + 1
  /\ UnderWay \subseteq Written
  /\ replies \in 0 .. MaxSwitches + 1
  /\ current \in Reports \cup {Nothing} /\ button \in Reports \cup {Nothing}
  /\ owner \in 0 .. instance

(* A captured button that can still send its key belongs to the snapshot that
   is on display, whatever was published, cleared or lost since
   (ts/actions.ts:138-146). *)
ButtonsAreCurrent == fresh => connected /\ current = button

(* The snapshot on display and all that are under way agree on what a revision
   says: the receiver's "conflicting revision" never happens, although a failed
   publication does not use its revision up (actions/publisher.go:29-63). *)
NoConflict ==
  \A r, s \in {x \in UnderWay \cup {current} : x.kind = "report"} :
    r.instance = s.instance /\ r.revision = s.revision => r = s

Wanted == IF desc = Bad THEN None ELSE desc
Displayed == IF current = Nothing THEN None ELSE current.content
=============================================================================
