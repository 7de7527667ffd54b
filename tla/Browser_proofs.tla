---------------------------- MODULE Browser_proofs -----------------------------
(***************************************************************************)
(* Theorems about the browser's side.  The terminal's connection, for      *)
(* every number of calls of connect and every maxReconnectAttempts: what a *)
(* method of an adapter keeps is said of one adapter's state first, the    *)
(* steps of the terminal follow.  What the user does: fingers and a mouse  *)
(* for any numbers of fingers on the canvas and beside it and any width of *)
(* the terminal, keys and the clipboard for any set of texts and any       *)
(* window.                                                                 *)
(***************************************************************************)
EXTENDS BrowserTerminal, UserInput, Sequences, FiniteSetTheorems, TLAPS

(***************************************************************************)
(* The terminal's connection.                                              *)
(***************************************************************************)

(* A WebSocket adapter has one thing under way at most: one socket, of which
   this.ws knows as long as it is in use, or one timer.  It pings while that
   socket is open, and a server's goodbye ends its wish to reconnect. *)
OneThing(o) ==
  /\ \A s \in WebSocket!Sockets : o.sock[s] # "none" =>
       /\ o.timers = 0
       /\ \A t \in WebSocket!Sockets : o.sock[t] # "none" => t = s
  /\ \A s \in WebSocket!Sockets :
       o.sock[s] \in {"connecting", "open"} <=> o.ws = s
  /\ o.pinging <=> \E s \in WebSocket!Sockets : o.sock[s] = "open"
  /\ o.pinging => o.pings = 1
  /\ ~o.pinging => o.pings = 0
  /\ o.ended => ~o.shouldReconnect

Sound(o) == o \in WebSocket!ObjectType /\ OneThing(o)

(* Nothing is under way, and nothing will come of it. *)
Unused(o) ==
  /\ \A s \in WebSocket!Sockets : o.sock[s] = "none"
  /\ o.ws = None /\ o.timers = 0 /\ ~o.pinging
  /\ ~o.shouldReconnect /\ ~o.ended

(* What a WebSocket adapter that is in use has reported is so. *)
TellsTruth(o) ==
  /\ o.told = "connected" => \E s \in WebSocket!Sockets : o.sock[s] = "open"
  /\ o.told = "reconnecting" => o.timers > 0
  /\ o.told = "disconnected" => \A s \in WebSocket!Sockets : o.sock[s] = "none"

(* The state of a WebTransport adapter. *)
Session(o) ==
  /\ o \in WebTransport!ObjectType
  /\ o.net \in {"connecting", "up"} /\ ~o.ended => ~o.closed /\ o.attached
  /\ o.pinging => o.net = "up" \/ o.ended
  /\ o.net \in {"connecting", "up"} => o.phase \in {"ready", "stream", "live"}
  /\ o.phase = "none" <=> o.net = "none"
  /\ o.phase \in WebTransport!Opening => ~o.pinging /\ ~o.ended

(* What one in use has reported is so, until the server's goodbye. *)
SessionTellsTruth(o) ==
  /\ o.told = "connected" => o.phase = "live" /\ (o.net = "up" \/ o.ended)
  /\ o.told = "disconnected" => o.net \notin {"connecting", "up"}
  /\ o.told # "reconnecting"

(* An adapter that the terminal has not made yet, and a terminal without an
   adapter. *)
Untouched ==
  /\ \A a \in Adapters : a > tries =>
       /\ auto[a] = "none"
       /\ protocol[a] = WebSocket!Fresh /\ wt[a] = WebTransport!Fresh
  /\ adapter = None => status \in {"none", "disconnected"}

(* Where _tryConnect is decides which transport of a try may be used. *)
OneTransport ==
  \A a \in Adapters :
    /\ auto[a] # "ws" => Unused(protocol[a])
    /\ auto[a] \in {"none", "fetch"} => wt[a] = WebTransport!Fresh
    /\ wt[a].phase \in {"ready", "stream", "live"} => auto[a] = "wt"
    /\ auto[a] \in {"none", "stale"} => a # adapter

(* Adapters that were replaced or disconnected want nothing any more. *)
LetGo ==
  \A a \in Adapters : a # adapter =>
    /\ ~protocol[a].shouldReconnect
    /\ wt[a].net \notin {"connecting", "up"}

(* The page was told what the adapter in use says. *)
StatusKnown ==
  adapter # None =>
    /\ auto[adapter] = "fetch" => status \in {"none", "disconnected"}
    /\ auto[adapter] = "ws" => /\ status = protocol[adapter].told
                               /\ TellsTruth(protocol[adapter])
    /\ auto[adapter] = "wt" => /\ status = wt[adapter].told
                               /\ SessionTellsTruth(wt[adapter])

AdaptersSound == \A a \in Adapters : Sound(protocol[a]) /\ Session(wt[a])

IInv == /\ TypeOK /\ AdaptersSound /\ Untouched /\ OneTransport /\ LetGo
        /\ StatusKnown

-----------------------------------------------------------------------------
(* The methods of a WebSocket adapter, and what its callbacks make of it. *)

Opened(o, s) == WebSocket!StartPing([o EXCEPT !.sock[s] = "open",
                                              !.reconnectAttempts = 0,
                                              !.told = "connected"])

Gone(o, s) == WebSocket!StopPing([o EXCEPT !.sock[s] = "none",
                                           !.ws = IF @ = s THEN None ELSE @])

Ended(o) == [o EXCEPT !.shouldReconnect = FALSE, !.ended = TRUE]

(* _dial of an adapter with nothing under way opens one socket and says so. *)
LEMMA DialSound ==
  ASSUME NEW o, Sound(o), o.timers = 0,
         \A s \in WebSocket!Sockets : o.sock[s] = "none"
  PROVE  /\ Sound(WebSocket!Dial(o))
         /\ WebSocket!Dial(o).told = "connecting"
         /\ WebSocket!Dial(o).timers = 0
         /\ WebSocket!Dial(o).ended = o.ended
         /\ WebSocket!Dial(o).shouldReconnect = o.shouldReconnect
<1> DEFINE s == CHOOSE s \in WebSocket!Sockets : o.sock[s] = "none"
           d == [o EXCEPT !.sock = [@ EXCEPT ![s] = "connecting"], !.ws = s,
                          !.told = "connecting"]
<1>1. s \in WebSocket!Sockets /\ s # None
  BY DEF Sound, WebSocket!Sockets, None
<1>2. WebSocket!Dial(o) = d
  BY DEF WebSocket!Dial
<1> HIDE DEF s
<1>3. d \in WebSocket!ObjectType
  BY <1>1 DEF Sound, WebSocket!ObjectType
<1>4. OneThing(d)
  BY <1>1 DEF Sound, OneThing, WebSocket!ObjectType
<1> QED  BY <1>2, <1>3, <1>4 DEF Sound, WebSocket!ObjectType

(* connect() on an adapter that was not in use dials its first socket. *)
LEMMA ConnectSound ==
  ASSUME NEW o, Sound(o), Unused(o)
  PROVE  /\ Sound(WebSocket!Connect(o))
         /\ WebSocket!Connect(o).told = "connecting"
         /\ WebSocket!Connect(o).timers = 0
<1> DEFINE c == [o EXCEPT !.shouldReconnect = TRUE]
<1>1. Sound(c)
  <2>1. c \in WebSocket!ObjectType  BY DEF Sound, WebSocket!ObjectType
  <2>2. OneThing(c)  BY DEF Sound, OneThing, Unused, WebSocket!ObjectType
  <2> QED  BY <2>1, <2>2 DEF Sound
<1>2. c.timers = 0 /\ \A s \in WebSocket!Sockets : c.sock[s] = "none"
  BY DEF Unused, Sound, WebSocket!ObjectType
<1> HIDE DEF c
<1>3. /\ Sound(WebSocket!Dial(c)) /\ WebSocket!Dial(c).told = "connecting"
      /\ WebSocket!Dial(c).timers = 0
  BY <1>1, <1>2, DialSound
<1> QED  BY <1>3 DEF c, WebSocket!Connect

(* An adapter's fields may change together, each within its type. *)
LEMMA FieldsTyped ==
  ASSUME NEW o \in WebSocket!ObjectType, NEW want \in BOOLEAN,
         NEW pings \in 0 .. 2, NEW pinging \in BOOLEAN
  PROVE  /\ [o EXCEPT !.shouldReconnect = want, !.pings = pings,
                      !.pinging = pinging] \in WebSocket!ObjectType
         /\ [o EXCEPT !.pings = pings, !.pinging = pinging]
              \in WebSocket!ObjectType
  BY DEF WebSocket!ObjectType

(* The state of one socket, and which one this.ws is, change within their types. *)
LEMMA SocketTyped ==
  ASSUME NEW o \in WebSocket!ObjectType, NEW s \in WebSocket!Sockets,
         NEW t \in {"none", "connecting", "open", "closing"},
         NEW ws \in WebSocket!Sockets \cup {None}
  PROVE  /\ [o EXCEPT !.sock = [@ EXCEPT ![s] = t], !.ws = ws]
              \in WebSocket!ObjectType
         /\ [o EXCEPT !.sock = [@ EXCEPT ![s] = t]] \in WebSocket!ObjectType
  BY DEF WebSocket!ObjectType, None, WebSocket!None

(* An adapter with one interval has none when the interval is cleared. *)
LEMMA NoPingLeft ==
  ASSUME NEW o, Sound(o)
  PROVE  (IF o.pinging THEN o.pings - 1 ELSE o.pings) = 0
<1>1. CASE o.pinging
  <2>1. o.pings = 1  BY <1>1 DEF Sound, OneThing
  <2> QED  BY <1>1, <2>1
<1>2. CASE ~o.pinging
  <2>1. o.pings = 0  BY <1>2 DEF Sound, OneThing
  <2> QED  BY <1>2, <2>1
<1> QED  BY <1>1, <1>2

(* disconnect() keeps the adapter sound and ends its wish to reconnect; its
   socket is left to close, and a timer under way is not cleared. *)
LEMMA DisconnectSound ==
  ASSUME NEW o, Sound(o)
  PROVE  /\ Sound(WebSocket!Disconnect(o))
         /\ ~WebSocket!Disconnect(o).shouldReconnect
         /\ WebSocket!Disconnect(o).timers = o.timers
         /\ Unused(o) => Unused(WebSocket!Disconnect(o))
<1> DEFINE p == [o EXCEPT !.shouldReconnect = FALSE, !.pings = 0,
                          !.pinging = FALSE]
           d == [p EXCEPT !.sock = [@ EXCEPT ![o.ws] = "closing"], !.ws = None]
<1> USE DEF Sound, OneThing, Unused, WebSocket!ObjectType, None, WebSocket!None
<1>1. WebSocket!Disconnect(o) = IF o.ws = None THEN p ELSE d
  BY NoPingLeft DEF WebSocket!Disconnect, WebSocket!StopPing
<1>4. p \in WebSocket!ObjectType
  <2>1. FALSE \in BOOLEAN /\ 0 \in 0 .. 2  OBVIOUS
  <2> QED  BY <2>1, FieldsTyped, Zenon DEF Sound
<1>2. CASE o.ws = None
  <2>2. ~o.pinging  BY <1>2 DEF WebSocket!Sockets
  <2> QED  BY <1>1, <1>2, <1>4, <2>2
<1>3. CASE o.ws # None
  <2>1. o.ws \in WebSocket!Sockets  BY <1>3
  <2>2. d \in WebSocket!ObjectType
    <3> HIDE DEF p
    <3> QED  BY <2>1, <1>4, SocketTyped
  <2>3. OneThing(d)  BY <2>1 DEF WebSocket!Sockets
  <2> QED  BY <1>1, <1>3, <2>1, <2>2, <2>3
<1> QED  BY <1>2, <1>3

(* onopen: the socket is open, one interval pings, the page hears it. *)
LEMMA OpenSound ==
  ASSUME NEW o, Sound(o), NEW s \in WebSocket!Sockets,
         o.sock[s] = "connecting"
  PROVE  /\ Sound(Opened(o, s))
         /\ Opened(o, s).told = "connected" /\ Opened(o, s).sock[s] = "open"
         /\ Opened(o, s).timers = o.timers
         /\ Opened(o, s).shouldReconnect = o.shouldReconnect
<1> DEFINE c == [o EXCEPT !.sock = [@ EXCEPT ![s] = "open"],
                          !.reconnectAttempts = 0, !.told = "connected"]
           q == [c EXCEPT !.pings = 1, !.pinging = TRUE]
<1> USE DEF Sound, OneThing, WebSocket!ObjectType
<1>1. ~o.pinging /\ o.pings = 0  OBVIOUS
<1>2. Opened(o, s) = q
  <2>1. Opened(o, s) = WebSocket!StartPing(c)  BY DEF Opened
  <2>2. c.pings = 0  BY <1>1
  <2> HIDE DEF c
  <2> QED  BY <2>1, <2>2 DEF WebSocket!StartPing
<1>3. c \in WebSocket!ObjectType
  <2>1. 0 \in 0 .. MaxReconnectAttempts  BY BrowserAssumption
  <2> DEFINE b == [o EXCEPT !.sock = [@ EXCEPT ![s] = "open"]]
  <2>2. b \in WebSocket!ObjectType  BY SocketTyped
  <2>3. c = [b EXCEPT !.reconnectAttempts = 0, !.told = "connected"]
    OBVIOUS
  <2> HIDE DEF b, c
  <2> QED  BY <2>1, <2>2, <2>3
<1>4. q \in WebSocket!ObjectType
  <2> HIDE DEF c, Sound, OneThing, WebSocket!ObjectType
  <2>1. TRUE \in BOOLEAN /\ 1 \in 0 .. 2  OBVIOUS
  <2> QED  BY <1>3, <2>1, FieldsTyped, Zenon
<1>5. OneThing(q)  BY <1>1
<1>6. /\ q.sock[s] = "open" /\ q.told = "connected"
      /\ q.timers = o.timers /\ q.shouldReconnect = o.shouldReconnect
  OBVIOUS
<1> HIDE DEF c, q
<1> QED  BY <1>2, <1>4, <1>5, <1>6

(* What is left of an adapter whose only socket is gone. *)
LEMMA SocketGone ==
  ASSUME NEW o, Sound(o), NEW s \in WebSocket!Sockets, o.sock[s] # "none"
  PROVE  /\ Sound(Gone(o, s)) /\ Gone(o, s).timers = 0 /\ o.timers = 0
         /\ \A t \in WebSocket!Sockets : Gone(o, s).sock[t] = "none"
         /\ Gone(o, s).shouldReconnect = o.shouldReconnect
<1> DEFINE c == [o EXCEPT !.sock = [@ EXCEPT ![s] = "none"], !.ws = None]
           r == [c EXCEPT !.pings = 0, !.pinging = FALSE]
<1> USE DEF Sound, OneThing, WebSocket!ObjectType, None, WebSocket!None
<1>1. (IF o.ws = s THEN None ELSE o.ws) = None
  <2>1. o.ws \in WebSocket!Sockets => o.sock[o.ws] # "none"  OBVIOUS
  <2> QED  BY <2>1
<1>2. Gone(o, s) = r  BY <1>1, NoPingLeft DEF Gone, WebSocket!StopPing
<1>3. c \in WebSocket!ObjectType  BY SocketTyped
<1>4. r \in WebSocket!ObjectType
  <2> HIDE DEF c, Sound, OneThing, WebSocket!ObjectType
  <2>1. FALSE \in BOOLEAN /\ 0 \in 0 .. 2  OBVIOUS
  <2> QED  BY <1>3, <2>1, FieldsTyped, Zenon
<1>5. \A t \in WebSocket!Sockets : r.sock[t] = "none"  OBVIOUS
<1>6. OneThing(r)  BY <1>5 DEF WebSocket!Sockets
<1>7. r.timers = 0 /\ o.timers = 0 /\ r.shouldReconnect = o.shouldReconnect
  OBVIOUS
<1> HIDE DEF c, r
<1> QED  BY <1>2, <1>4, <1>5, <1>6, <1>7

(* onclose, once the socket is gone: a timer is set or the adapter says that
   it is disconnected, and what it says is so. *)
LEMMA CloseSound ==
  ASSUME NEW q, Sound(q), q.timers = 0,
         \A t \in WebSocket!Sockets : q.sock[t] = "none",
         NEW p, p = IF WebSocket!MayReconnect(q) THEN WebSocket!Reconnect(q)
                    ELSE [q EXCEPT !.told = "disconnected"]
  PROVE  /\ Sound(p) /\ TellsTruth(p)
         /\ p.shouldReconnect = q.shouldReconnect
         /\ p.told \in {"reconnecting", "disconnected"}
         /\ ~q.shouldReconnect => p.timers = q.timers
<1> USE DEF Sound, OneThing, WebSocket!ObjectType
<1>1. CASE WebSocket!MayReconnect(q)
  <2> DEFINE r == [q EXCEPT !.reconnectAttempts = @ + 1, !.timers = 1,
                            !.told = "reconnecting"]
  <2>1. p = r  BY <1>1 DEF WebSocket!Reconnect
  <2>2. /\ q.reconnectAttempts + 1 \in 0 .. MaxReconnectAttempts
        /\ 1 \in 0 .. 1 /\ q.shouldReconnect
    BY <1>1, BrowserAssumption DEF WebSocket!MayReconnect
  <2>3. r \in WebSocket!ObjectType  BY <2>2
  <2>4. OneThing(r)  OBVIOUS
  <2>5. TellsTruth(r)  BY DEF TellsTruth
  <2>6. r.told = "reconnecting" /\ r.shouldReconnect = q.shouldReconnect
    OBVIOUS
  <2> HIDE DEF r
  <2>7. /\ Sound(p) /\ TellsTruth(p) /\ p.told = "reconnecting"
        /\ p.shouldReconnect = q.shouldReconnect
    BY <2>1, <2>3, <2>4, <2>5, <2>6
  <2> QED  BY <2>2, <2>7
<1>2. CASE ~WebSocket!MayReconnect(q)
  <2> DEFINE r == [q EXCEPT !.told = "disconnected"]
  <2>1. p = r  BY <1>2
  <2>2. r \in WebSocket!ObjectType  OBVIOUS
  <2>3. OneThing(r)  OBVIOUS
  <2>4. TellsTruth(r)  BY DEF TellsTruth
  <2> QED  BY <2>1, <2>2, <2>3, <2>4
<1> QED  BY <1>1, <1>2

(* The reconnection timer's callback dials the next socket. *)
LEMMA TimerSound ==
  ASSUME NEW o, Sound(o), o.timers > 0,
         NEW p, p = WebSocket!Dial([o EXCEPT !.timers = @ - 1])
  PROVE  /\ Sound(p) /\ p.told = "connecting" /\ p.timers < o.timers
         /\ p.shouldReconnect = o.shouldReconnect
<1> DEFINE t == [o EXCEPT !.timers = @ - 1]
<1>1. /\ Sound(t) /\ t.timers = 0 /\ t.shouldReconnect = o.shouldReconnect
      /\ \A s \in WebSocket!Sockets : t.sock[s] = "none"
  BY DEF Sound, OneThing, WebSocket!ObjectType
<1> HIDE DEF t
<1> QED  BY <1>1, DialSound DEF t

(* The server's goodbye ends the wish to reconnect and changes nothing else. *)
LEMMA GoodbyeSound ==
  ASSUME NEW o, Sound(o)
  PROVE  /\ Sound(Ended(o)) /\ ~Ended(o).shouldReconnect
         /\ Ended(o).timers = o.timers /\ Ended(o).told = o.told
         /\ TellsTruth(o) => TellsTruth(Ended(o))
<1> USE DEF Sound, WebSocket!ObjectType, Ended
<1>1. Ended(o) \in WebSocket!ObjectType  OBVIOUS
<1>2. OneThing(Ended(o))  BY DEF OneThing
<1>3. TellsTruth(o) => TellsTruth(Ended(o))  BY DEF TellsTruth
<1> QED  BY <1>1, <1>2, <1>3

-----------------------------------------------------------------------------
(* The methods of a WebTransport adapter. *)

(* connect() of a new adapter is under way, and says so. *)
LEMMA ConnectSession ==
  ASSUME NEW w, w = WebTransport!Connect(WebTransport!Fresh)
  PROVE  Session(w) /\ SessionTellsTruth(w) /\ w.told = "connecting"
<1> w = [phase |-> "ready", net |-> "connecting", closed |-> FALSE,
         attached |-> TRUE, pinging |-> FALSE, told |-> "connecting",
         ended |-> FALSE]
  BY DEF WebTransport!Connect, WebTransport!Fresh
<1> QED
  BY DEF Session, SessionTellsTruth, WebTransport!ObjectType, WebTransport!Opening

(* disconnect() leaves no session in use. *)
LEMMA DisconnectSession ==
  ASSUME NEW o, Session(o), NEW w, w = WebTransport!Disconnect(o)
  PROVE  Session(w) /\ w.net \notin {"connecting", "up"} /\ w.phase = o.phase
  BY DEF Session, WebTransport!ObjectType, WebTransport!Opening,
     WebTransport!Disconnect

(* The session is ready: its stream is opened next. *)
LEMMA ReadySession ==
  ASSUME NEW o, Session(o), o.phase = "ready", o.net = "connecting",
         NEW w, w = [o EXCEPT !.phase = "stream", !.net = "up"]
  PROVE  /\ Session(w) /\ w.told = o.told
         /\ SessionTellsTruth(o) => SessionTellsTruth(w)
  BY DEF Session, SessionTellsTruth, WebTransport!ObjectType,
     WebTransport!Opening

(* The stream is open: the adapter is connected and pings. *)
LEMMA StreamSession ==
  ASSUME NEW o, Session(o), o.phase = "stream", o.net = "up",
         NEW w, w = [o EXCEPT !.phase = "live", !.pinging = TRUE,
                              !.told = "connected"]
  PROVE  Session(w) /\ w.told = "connected" /\ SessionTellsTruth(w)
  BY DEF Session, SessionTellsTruth, WebTransport!ObjectType,
     WebTransport!Opening

(* A session or a stream that fails leaves the adapter disconnected. *)
LEMMA FailSession ==
  ASSUME NEW o, Session(o), o.phase \in WebTransport!Opening,
         NEW w, w = WebTransport!Fail(WebTransport!Observe(o))
  PROVE  /\ Session(w) /\ w.phase = "failed"
         /\ w.net \notin {"connecting", "up"}
<1> DEFINE v == WebTransport!Observe(o)
<1>1. Session(v) /\ v.phase = o.phase /\ v.net = o.net
  BY DEF Session, WebTransport!ObjectType, WebTransport!Opening,
     WebTransport!Observe
<1> HIDE DEF v
<1> DEFINE u == WebTransport!Disconnect(v)
<1>2. Session(u) /\ u.net \notin {"connecting", "up"} /\ u.phase = o.phase
      /\ ~u.pinging /\ u.net # "none"
  BY <1>1 DEF Session, WebTransport!ObjectType, WebTransport!Opening,
     WebTransport!Disconnect
<1> HIDE DEF u
<1>3. w = [u EXCEPT !.phase = "failed",
                    !.told = IF v.closed THEN @ ELSE "disconnected"]
  BY DEF u, v, WebTransport!Fail
<1> QED
  BY <1>2, <1>3 DEF Session, WebTransport!ObjectType, WebTransport!Opening

(* The server's goodbye ends no more than the wish for the session. *)
LEMMA GoodbyeSession ==
  ASSUME NEW o, Session(o), o.phase = "live", o.net = "up",
         NEW w, w = [o EXCEPT !.closed = TRUE, !.ended = TRUE]
  PROVE  /\ Session(w) /\ w.told = o.told /\ w.net = "up"
         /\ SessionTellsTruth(o) => SessionTellsTruth(w)
  BY DEF Session, SessionTellsTruth, WebTransport!ObjectType,
     WebTransport!Opening

(* The end of the session, whoever closed it, is told once. *)
LEMMA DownSession ==
  ASSUME NEW o, Session(o), o.phase = "live", o.net = "up",
         SessionTellsTruth(o),
         NEW w, w = WebTransport!Observe([o EXCEPT !.net = "down"])
  PROVE  Session(w) /\ SessionTellsTruth(w)
<1> DEFINE d == [o EXCEPT !.net = "down"]
<1>1. CASE ~o.closed /\ o.attached
  <2>1. w = [d EXCEPT !.pinging = FALSE, !.told = "disconnected"]
    BY <1>1 DEF WebTransport!Observe, Session, WebTransport!ObjectType
  <2> QED
    BY <2>1 DEF Session, SessionTellsTruth, WebTransport!ObjectType,
       WebTransport!Opening
<1>2. CASE ~(~o.closed /\ o.attached)
  <2>1. w = d /\ o.ended
    BY <1>2 DEF WebTransport!Observe, Session, WebTransport!ObjectType
  <2> QED
    BY <2>1 DEF Session, SessionTellsTruth, WebTransport!ObjectType,
       WebTransport!Opening
<1> QED  BY <1>1, <1>2

-----------------------------------------------------------------------------
(* A step of one adapter, whose state it leaves as p and w with _tryConnect
   at x, keeps the invariant if it keeps the adapter sound and tells the
   terminal what the adapter, if it is the terminal's, has come to. *)
LEMMA CallbackIInv ==
  ASSUME IInv, NEW a \in Adapters, a <= tries,
         NEW p, NEW w, NEW x \in {"wt", "ws", "stale"},
         protocol' = [protocol EXCEPT ![a] = p], wt' = [wt EXCEPT ![a] = w],
         auto' = [auto EXCEPT ![a] = x], UNCHANGED <<tries, adapter>>,
         controls' \in 0 .. tries,
         Sound(p), Session(w),
         x # "ws" => Unused(p),
         w.phase \in {"ready", "stream", "live"} => x = "wt",
         a # adapter => /\ ~p.shouldReconnect /\ status' = status
                        /\ w.net \notin {"connecting", "up"},
         a = adapter =>
           \/ x = "ws" /\ status' = p.told /\ TellsTruth(p)
           \/ x = "wt" /\ status' = w.told /\ SessionTellsTruth(w)
  PROVE  IInv'
<1> USE DEF IInv
<1>1. /\ protocol \in [Adapters -> WebSocket!ObjectType]
      /\ wt \in [Adapters -> WebTransport!ObjectType]
      /\ auto \in [Adapters -> {"none", "fetch", "wt", "ws", "stale"}]
      /\ tries \in 0 .. MaxTries /\ adapter \in 0 .. tries
  BY DEF TypeOK, WebSocket!TypeOK, WebTransport!TypeOK
<1>2. AdaptersSound'  BY <1>1 DEF AdaptersSound
<1>3. TypeOK'
  <2>1. status' \in {"none", "connecting", "connected", "reconnecting",
                     "disconnected"}
    BY DEF Sound, Session, WebSocket!ObjectType, WebTransport!ObjectType, TypeOK
  <2>2. WebSocket!TypeOK'  BY <1>1 DEF Sound, WebSocket!TypeOK
  <2>3. WebTransport!TypeOK'  BY <1>1 DEF Session, WebTransport!TypeOK
  <2> QED  BY <1>1, <2>1, <2>2, <2>3 DEF TypeOK
<1>4. Untouched'  BY <1>1 DEF Untouched, Adapters, None
<1>5. OneTransport'  BY <1>1 DEF OneTransport
<1>6. LetGo'  BY <1>1 DEF LetGo
<1>7. StatusKnown'  BY <1>1 DEF StatusKnown, None
<1> QED  BY <1>2, <1>3, <1>4, <1>5, <1>6, <1>7

(* What the invariant says of one adapter. *)
LEMMA AdapterKnown ==
  ASSUME IInv, NEW a \in Adapters
  PROVE  /\ Sound(protocol[a]) /\ Session(wt[a])
         /\ auto[a] # "ws" => Unused(protocol[a])
         /\ auto[a] # "none" => a <= tries
         /\ wt[a].phase \in {"ready", "stream", "live"} => auto[a] = "wt"
         /\ a # adapter => /\ ~protocol[a].shouldReconnect
                           /\ wt[a].net \notin {"connecting", "up"}
         /\ protocol = [protocol EXCEPT ![a] = protocol[a]]
         /\ wt = [wt EXCEPT ![a] = wt[a]]
         /\ auto = [auto EXCEPT ![a] = auto[a]]
         /\ adapter \in 0 .. tries /\ tries \in 0 .. MaxTries
         /\ controls \in 0 .. tries /\ None \in 0 .. tries
         /\ auto[a] = "ws" /\ a = adapter =>
              status = protocol[a].told /\ TellsTruth(protocol[a])
         /\ auto[a] = "wt" /\ a = adapter =>
              status = wt[a].told /\ SessionTellsTruth(wt[a])
<1> USE DEF IInv
<1>1. /\ protocol \in [Adapters -> WebSocket!ObjectType]
      /\ wt \in [Adapters -> WebTransport!ObjectType]
      /\ auto \in [Adapters -> {"none", "fetch", "wt", "ws", "stale"}]
      /\ tries \in 0 .. MaxTries /\ adapter \in 0 .. tries
      /\ controls \in 0 .. tries
  BY DEF TypeOK, WebSocket!TypeOK, WebTransport!TypeOK
<1>2. auto[a] # "none" => a <= tries
  BY <1>1 DEF Untouched, Adapters
<1>3. a = adapter => adapter # None
  BY DEF Adapters, None
<1> QED
  BY <1>1, <1>2, <1>3
     DEF AdaptersSound, OneTransport, LetGo, StatusKnown, None

(* A socket's onopen keeps the invariant. *)
LEMMA OpensIInv ==
  ASSUME IInv, NEW a \in Adapters, NEW s \in WebSocket!Sockets, Opens(a, s)
  PROVE  IInv'
<1> DEFINE o == protocol[a]
           p == Opened(o, s)
<1>1. o.sock[s] = "connecting" /\ Sound(o) /\ auto[a] = "ws"
  BY AdapterKnown DEF Opens, WebSocket!OnOpen, Unused
<1>2. protocol' = [protocol EXCEPT ![a] = p]
  BY DEF Opens, WebSocket!OnOpen, WebSocket!Becomes, Opened
<1>3. /\ Sound(p) /\ p.told = "connected" /\ p.sock[s] = "open"
      /\ p.shouldReconnect = o.shouldReconnect
  BY <1>1, OpenSound
<1> HIDE DEF p
<1>4. TellsTruth(p)
  BY <1>3 DEF TellsTruth
<1> QED
  BY <1>1, <1>2, <1>3, <1>4, AdapterKnown, CallbackIInv, ZenonT(60) DEF Opens, Report

(* A socket's onclose keeps the invariant. *)
LEMMA ClosesIInv ==
  ASSUME IInv, NEW a \in Adapters, NEW s \in WebSocket!Sockets, Closes(a, s)
  PROVE  IInv'
<1> DEFINE o == protocol[a]
           q == Gone(o, s)
           p == IF WebSocket!MayReconnect(q) THEN WebSocket!Reconnect(q)
                ELSE [q EXCEPT !.told = "disconnected"]
<1>1. o.sock[s] # "none" /\ Sound(o) /\ auto[a] = "ws"
  BY AdapterKnown DEF Closes, WebSocket!OnClose, Unused
<1>2. protocol' = [protocol EXCEPT ![a] = p]
  BY DEF Closes, WebSocket!OnClose, WebSocket!Becomes, None, WebSocket!None,
     Gone
<1>3. /\ Sound(q) /\ q.timers = 0 /\ o.timers = 0
      /\ \A t \in WebSocket!Sockets : q.sock[t] = "none"
      /\ q.shouldReconnect = o.shouldReconnect
  BY <1>1, SocketGone
<1> HIDE DEF q
<1>4. Sound(p) /\ TellsTruth(p) /\ p.shouldReconnect = o.shouldReconnect
  BY <1>3, CloseSound
<1> HIDE DEF p
<1>5. protocol'[a] = p
  BY <1>2, AdapterKnown DEF IInv, TypeOK, WebSocket!TypeOK
<1>6. /\ a = adapter => status' = p.told
      /\ a # adapter => status' = status
      /\ controls' \in 0 .. tries
  BY <1>5, AdapterKnown DEF Closes, Report
<1>7. wt' = wt /\ auto' = auto /\ UNCHANGED <<tries, adapter>>
  BY DEF Closes
<1> HIDE DEF o
<1> QED
  BY <1>1, <1>2, <1>4, <1>6, <1>7, AdapterKnown, CallbackIInv DEF o

(* A reconnection timer that fires keeps the invariant. *)
LEMMA RedialsIInv ==
  ASSUME IInv, NEW a \in Adapters, Redials(a)
  PROVE  IInv'
<1> DEFINE o == protocol[a]
           p == WebSocket!Dial([o EXCEPT !.timers = @ - 1])
<1>1. o.timers > 0 /\ Sound(o) /\ auto[a] = "ws"
  BY AdapterKnown DEF Redials, WebSocket!OnTimer, Unused
<1>2. protocol' = [protocol EXCEPT ![a] = p]
  BY DEF Redials, WebSocket!OnTimer, WebSocket!Becomes
<1>3. /\ Sound(p) /\ p.told = "connecting"
      /\ p.shouldReconnect = o.shouldReconnect
  BY <1>1, TimerSound
<1> HIDE DEF p
<1>4. TellsTruth(p)
  BY <1>3 DEF TellsTruth
<1> QED
  BY <1>1, <1>2, <1>3, <1>4, AdapterKnown, CallbackIInv, ZenonT(60) DEF Redials, Report

(* The server's goodbye keeps the invariant, on either transport. *)
LEMMA GoodbyeIInv ==
  ASSUME IInv, NEW a \in Adapters, Goodbye(a)
  PROVE  IInv'
<1>1. CASE \E s \in WebSocket!Sockets : WebSocket!OnMsgClose(a, s)
  <2> DEFINE o == protocol[a]
             p == Ended(o)
  <2>1. Sound(o) /\ auto[a] = "ws" /\ protocol' = [protocol EXCEPT ![a] = p]
    BY <1>1, AdapterKnown
       DEF WebSocket!OnMsgClose, WebSocket!Becomes, Unused, Ended
  <2>2. /\ Sound(p) /\ ~p.shouldReconnect /\ p.told = o.told
        /\ TellsTruth(o) => TellsTruth(p)
    BY <2>1, GoodbyeSound
  <2>3. wt' = wt
    BY <1>1, <2>1, AdapterKnown DEF Goodbye, WebTransport!OnMsgClose
  <2> HIDE DEF p
  <2> QED
    BY <2>1, <2>2, <2>3, AdapterKnown, CallbackIInv DEF Goodbye
<1>2. CASE WebTransport!OnMsgClose(a) /\ UNCHANGED protocol
  <2> DEFINE o == wt[a]
             w == [o EXCEPT !.closed = TRUE, !.ended = TRUE]
  <2>1. /\ Session(o) /\ o.phase = "live" /\ o.net = "up" /\ auto[a] = "wt"
        /\ wt' = [wt EXCEPT ![a] = w]
    BY <1>2, AdapterKnown DEF WebTransport!OnMsgClose, WebTransport!Becomes
  <2>2. /\ Session(w) /\ w.told = o.told /\ w.net = "up"
        /\ SessionTellsTruth(o) => SessionTellsTruth(w)
    BY <2>1, GoodbyeSession
  <2> HIDE DEF w
  <2> QED
    BY <1>2, <2>1, <2>2, AdapterKnown, CallbackIInv DEF Goodbye
<1> QED  BY <1>1, <1>2 DEF Goodbye

(* What happens to a WebTransport session in use keeps the invariant. *)
LEMMA TransportIInv ==
  ASSUME IInv, NEW a \in Adapters,
         TransportReady(a) \/ TransportOpens(a) \/ TransportCloses(a)
  PROVE  IInv'
<1> DEFINE o == wt[a]
<1>1. CASE TransportReady(a)
  <2> DEFINE w == [o EXCEPT !.phase = "stream", !.net = "up"]
  <2>1. /\ Session(o) /\ o.phase = "ready" /\ o.net = "connecting"
        /\ auto[a] = "wt" /\ wt' = [wt EXCEPT ![a] = w]
    BY <1>1, AdapterKnown
       DEF TransportReady, WebTransport!OnReady, WebTransport!Becomes
  <2>2. /\ Session(w) /\ w.told = o.told
        /\ SessionTellsTruth(o) => SessionTellsTruth(w)
    BY <2>1, ReadySession
  <2>3. a = adapter  BY <2>1, AdapterKnown
  <2> HIDE DEF w
  <2> QED
    BY <1>1, <2>1, <2>2, <2>3, AdapterKnown, CallbackIInv, ZenonT(60) DEF TransportReady
<1>2. CASE TransportOpens(a)
  <2> DEFINE w == [o EXCEPT !.phase = "live", !.pinging = TRUE,
                            !.told = "connected"]
  <2>1. /\ Session(o) /\ o.phase = "stream" /\ o.net = "up"
        /\ auto[a] = "wt" /\ wt' = [wt EXCEPT ![a] = w]
    BY <1>2, AdapterKnown
       DEF TransportOpens, WebTransport!OnStream, WebTransport!Becomes
  <2>2. Session(w) /\ w.told = "connected" /\ SessionTellsTruth(w)
    BY <2>1, StreamSession
  <2>3. a = adapter  BY <2>1, AdapterKnown
  <2> HIDE DEF w
  <2> QED
    BY <1>2, <2>1, <2>2, <2>3, AdapterKnown, CallbackIInv, ZenonT(60)
       DEF TransportOpens, Report
<1>3. CASE TransportCloses(a)
  <2> DEFINE w == WebTransport!Observe([o EXCEPT !.net = "down"])
  <2>1. /\ Session(o) /\ o.phase = "live" /\ o.net = "up"
        /\ auto[a] = "wt" /\ wt' = [wt EXCEPT ![a] = w]
    BY <1>3, AdapterKnown
       DEF TransportCloses, WebTransport!OnDown, WebTransport!Becomes
  <2>2. a = adapter  BY <2>1, AdapterKnown
  <2>3. Session(w) /\ SessionTellsTruth(w)
    BY <2>1, <2>2, AdapterKnown, DownSession
  <2> HIDE DEF w
  <2>4. wt'[a] = w
    BY <2>1, AdapterKnown DEF IInv, TypeOK, WebTransport!TypeOK
  <2>5. status' = w.told /\ controls' \in 0 .. tries
    BY <1>3, <2>1, <2>2, <2>4, AdapterKnown DEF TransportCloses, Report
  <2>6. protocol' = protocol /\ auto' = auto /\ UNCHANGED <<tries, adapter>>
    BY <1>3 DEF TransportCloses
  <2> QED
    BY <2>1, <2>2, <2>3, <2>5, <2>6, AdapterKnown, CallbackIInv
<1> QED  BY <1>1, <1>2, <1>3

(* _tryConnect after an await, with w the WebTransport adapter that it has
   given up. *)
LEMMA FallBackIInv ==
  ASSUME IInv, NEW a \in Adapters, a <= tries, adapter = a, FallBack(a),
         Unused(protocol[a]), NEW w, Session(w),
         wt' = [wt EXCEPT ![a] = w],
         w.phase \notin {"ready", "stream", "live"},
         UNCHANGED <<tries, adapter>>
  PROVE  IInv'
<1> DEFINE p == WebSocket!Connect(protocol[a])
<1>1. protocol' = [protocol EXCEPT ![a] = p] /\ auto' = [auto EXCEPT ![a] = "ws"]
  BY DEF FallBack
<1>2. Sound(p) /\ p.told = "connecting"
  BY AdapterKnown, ConnectSound
<1> HIDE DEF p
<1>3. TellsTruth(p)
  BY <1>2 DEF TellsTruth
<1>4. status' = p.told /\ controls' \in 0 .. tries
  BY <1>2, AdapterKnown DEF FallBack, Report
<1> QED
  BY <1>1, <1>2, <1>3, <1>4, CallbackIInv

(* _tryConnect of an adapter the terminal has let go returns. *)
LEMMA AbandonIInv ==
  ASSUME IInv, NEW a \in Adapters, a <= tries, adapter # a, Abandon(a),
         Unused(protocol[a]), NEW w, Session(w),
         wt' = [wt EXCEPT ![a] = w],
         w.phase \notin {"ready", "stream", "live"},
         w.net \notin {"connecting", "up"},
         UNCHANGED <<tries, adapter>>
  PROVE  IInv'
BY AdapterKnown, CallbackIInv DEF Abandon

(* The answer about the certificate's hash, or its failure, keeps the
   invariant. *)
LEMMA FetchIInv ==
  ASSUME IInv, NEW a \in Adapters, FetchOk(a) \/ FetchFails(a)
  PROVE  IInv'
<1>1. auto[a] = "fetch" /\ UNCHANGED <<tries, adapter>>
  BY DEF FetchOk, FetchFails
<1>2. /\ a <= tries /\ Unused(protocol[a]) /\ wt[a] = WebTransport!Fresh
      /\ Session(wt[a]) /\ wt[a].phase = "none" /\ wt[a].net = "none"
  BY <1>1, AdapterKnown DEF IInv, OneTransport, WebTransport!Fresh
<1>3. CASE TryTransport(a) /\ adapter = a
  <2> DEFINE w == WebTransport!Connect(WebTransport!Fresh)
  <2>1. wt' = [wt EXCEPT ![a] = w] /\ auto' = [auto EXCEPT ![a] = "wt"]
    BY <1>2, <1>3 DEF TryTransport
  <2>2. Session(w) /\ SessionTellsTruth(w) /\ w.told = "connecting"
    BY ConnectSession
  <2> HIDE DEF w
  <2>3. /\ status' = w.told /\ controls' \in 0 .. tries
        /\ protocol' = protocol
    BY <1>3, <2>2, AdapterKnown DEF TryTransport, Report
  <2> QED
    BY <1>1, <1>2, <1>3, <2>1, <2>2, <2>3, AdapterKnown, CallbackIInv
<1>4. CASE Abandon(a) /\ adapter # a /\ UNCHANGED wt
  BY <1>1, <1>2, <1>4, AdapterKnown, AbandonIInv
<1>5. CASE FallBack(a) /\ adapter = a /\ UNCHANGED wt
  BY <1>1, <1>2, <1>5, AdapterKnown, FallBackIInv
<1> QED  BY <1>3, <1>4, <1>5 DEF FetchOk, FetchFails

(* A WebTransport connection that fails falls back to a WebSocket. *)
LEMMA TransportFailsIInv ==
  ASSUME IInv, NEW a \in Adapters, TransportFails(a)
  PROVE  IInv'
<1> DEFINE w == WebTransport!Fail(WebTransport!Observe(wt[a]))
<1>1. /\ wt[a].phase \in WebTransport!Opening
      /\ wt' = [wt EXCEPT ![a] = w] /\ UNCHANGED <<tries, adapter>>
  BY DEF TransportFails, WebTransport!OnFail, WebTransport!Becomes
<1>2. /\ Session(w) /\ w.phase = "failed" /\ w.net \notin {"connecting", "up"}
  BY <1>1, AdapterKnown, FailSession
<1> HIDE DEF w
<1>3. a <= tries /\ Unused(protocol[a])
  BY <1>1, AdapterKnown DEF WebTransport!Opening
<1>4. CASE adapter = a /\ FallBack(a)
  BY <1>1, <1>2, <1>3, <1>4, FallBackIInv
<1>5. CASE adapter # a /\ Abandon(a)
  BY <1>1, <1>2, <1>3, <1>5, AbandonIInv
<1> QED  BY <1>4, <1>5 DEF TransportFails

(* A WebTransport connection that succeeds is published unless it is late. *)
LEMMA PublishIInv ==
  ASSUME IInv, NEW a \in Adapters, Publish(a)
  PROVE  IInv'
<1> USE DEF Publish
<1>1. TypeOK'
  <2>1. controls' \in 0 .. tries
    BY DEF IInv, TypeOK, Adapters
  <2> QED
    BY <2>1 DEF IInv, TypeOK, WebSocket!TypeOK, WebTransport!TypeOK
<1>2. AdaptersSound' /\ Untouched' /\ OneTransport' /\ LetGo' /\ StatusKnown'
  BY DEF IInv, AdaptersSound, Untouched, OneTransport, LetGo, StatusKnown
<1> QED  BY <1>1, <1>2 DEF IInv

-----------------------------------------------------------------------------
(* The calls of the page. *)

(* What disconnect() leaves: adapters that are sound and that, the terminal's
   included, want nothing any more. *)
LEMMA LeftSound ==
  ASSUME IInv
  PROVE  /\ ProtocolLeft \in [Adapters -> WebSocket!ObjectType]
         /\ WtLeft \in [Adapters -> WebTransport!ObjectType]
         /\ \A a \in Adapters :
              /\ Sound(ProtocolLeft[a]) /\ Session(WtLeft[a])
              /\ ~ProtocolLeft[a].shouldReconnect
              /\ ProtocolLeft[a].timers = protocol[a].timers
              /\ WtLeft[a].net \notin {"connecting", "up"}
              /\ WtLeft[a].phase = wt[a].phase
              /\ Unused(protocol[a]) => Unused(ProtocolLeft[a])
              /\ auto[a] # "wt" => WtLeft[a] = wt[a]
              /\ a # adapter => ProtocolLeft[a] = protocol[a]
<1>1. /\ protocol \in [Adapters -> WebSocket!ObjectType]
      /\ wt \in [Adapters -> WebTransport!ObjectType]
      /\ adapter \in 0 .. tries /\ tries \in 0 .. MaxTries
  BY DEF IInv, TypeOK, WebSocket!TypeOK, WebTransport!TypeOK
<1>2. CASE adapter = None
  <2>1. ProtocolLeft = protocol /\ WtLeft = wt
    BY <1>2 DEF ProtocolLeft, WtLeft
  <2>2. \A a \in Adapters : a # adapter
    BY <1>2 DEF Adapters, None
  <2> QED  BY <1>1, <2>1, <2>2, AdapterKnown
<1>3. CASE adapter # None
  <2>1. adapter \in Adapters
    BY <1>1, <1>3, BrowserAssumption DEF Adapters, None
  <2> DEFINE p == WebSocket!Disconnect(protocol[adapter])
             w == WebTransport!Disconnect(wt[adapter])
  <2>2. /\ Sound(p) /\ ~p.shouldReconnect
        /\ p.timers = protocol[adapter].timers
        /\ Unused(protocol[adapter]) => Unused(p)
    BY <2>1, AdapterKnown, DisconnectSound
  <2>3. /\ Session(w) /\ w.net \notin {"connecting", "up"}
        /\ w.phase = wt[adapter].phase
    BY <2>1, AdapterKnown, DisconnectSession
  <2>4. ProtocolLeft = [protocol EXCEPT ![adapter] = p]
    BY <1>3 DEF ProtocolLeft
  <2> HIDE DEF p, w
  <2>5. auto[adapter] # "wt" => wt[adapter].net \notin {"connecting", "up"}
    BY <2>1, AdapterKnown DEF Session
  <2>6. /\ WtLeft \in [Adapters -> WebTransport!ObjectType]
        /\ \A a \in Adapters :
             /\ Session(WtLeft[a]) /\ WtLeft[a].net \notin {"connecting", "up"}
             /\ WtLeft[a].phase = wt[a].phase
             /\ auto[a] # "wt" => WtLeft[a] = wt[a]
    <3>1. CASE auto[adapter] = "wt"
      <4>1. WtLeft = [wt EXCEPT ![adapter] = w]
        BY <1>3, <3>1 DEF WtLeft, w
      <4> QED  BY <1>1, <2>1, <2>3, <3>1, <4>1, AdapterKnown DEF Session
    <3>2. CASE auto[adapter] # "wt"
      <4>1. WtLeft = wt  BY <3>2 DEF WtLeft
      <4> QED  BY <1>1, <2>5, <3>2, <4>1, AdapterKnown
    <3> QED  BY <3>1, <3>2
  <2>7. p \in WebSocket!ObjectType  BY <2>2 DEF Sound
  <2> QED  BY <1>1, <2>1, <2>2, <2>4, <2>6, <2>7, AdapterKnown
<1> QED  BY <1>2, <1>3

(* An adapter that nobody has used is sound. *)
LEMMA FreshSound ==
  /\ Sound(WebSocket!Fresh) /\ Unused(WebSocket!Fresh)
  /\ Session(WebTransport!Fresh)
<1>1. WebSocket!Fresh \in WebSocket!ObjectType
  <2>1. 0 \in 0 .. MaxReconnectAttempts  BY BrowserAssumption
  <2>2. [s \in WebSocket!Sockets |-> "none"] \in
          [WebSocket!Sockets -> {"none", "connecting", "open", "closing"}]
    OBVIOUS
  <2> QED  BY <2>1, <2>2 DEF WebSocket!Fresh, WebSocket!ObjectType
<1>2. Unused(WebSocket!Fresh)
  BY DEF Unused, WebSocket!Fresh, None, WebSocket!None
<1>3. OneThing(WebSocket!Fresh)
  BY DEF OneThing, WebSocket!Fresh, WebSocket!Sockets, WebSocket!None
<1>4. Session(WebTransport!Fresh)
  BY DEF Session, WebTransport!Fresh, WebTransport!ObjectType,
     WebTransport!Opening
<1> QED  BY <1>1, <1>2, <1>3, <1>4 DEF Sound

(* A terminal that was just made satisfies the invariant. *)
LEMMA InitIInv == Init => IInv
<1> SUFFICES ASSUME Init PROVE IInv
  OBVIOUS
<1> USE DEF Init
<1>1. /\ \A a \in Adapters : /\ protocol[a] = WebSocket!Fresh
                            /\ wt[a] = WebTransport!Fresh
      /\ WebSocket!Fresh \in WebSocket!ObjectType
      /\ WebTransport!Fresh \in WebTransport!ObjectType
  BY FreshSound DEF Sound, Session
<1>2. TypeOK
  BY <1>1, BrowserAssumption
     DEF TypeOK, WebSocket!TypeOK, WebTransport!TypeOK, None
<1>3. AdaptersSound  BY <1>1, FreshSound DEF AdaptersSound
<1>4. Untouched  BY <1>1 DEF Untouched
<1>5. OneTransport
  BY <1>1, FreshSound DEF OneTransport, WebTransport!Fresh, Adapters, None
<1>6. LetGo
  BY <1>1 DEF LetGo, WebSocket!Fresh, WebTransport!Fresh
<1>7. StatusKnown  BY DEF StatusKnown
<1> QED  BY <1>2, <1>3, <1>4, <1>5, <1>6, <1>7 DEF IInv

(* disconnect() of the terminal keeps the invariant. *)
LEMMA DisconnectIInv == ASSUME IInv, Disconnect PROVE IInv'
<1> USE DEF IInv, Disconnect
<1>1. /\ auto \in [Adapters -> {"none", "fetch", "wt", "ws", "stale"}]
      /\ tries \in 0 .. MaxTries /\ adapter \in 0 .. tries
  BY DEF TypeOK
<1>2. TypeOK'
  BY <1>1, LeftSound DEF TypeOK, WebSocket!TypeOK, WebTransport!TypeOK, None
<1>3. AdaptersSound'  BY LeftSound DEF AdaptersSound
<1>4. Untouched'
  BY <1>1, LeftSound DEF Untouched, Adapters
<1>5. OneTransport'
  <2>1. \A a \in Adapters : a # adapter'  BY DEF Adapters, None
  <2> QED  BY <2>1, LeftSound DEF OneTransport
<1>6. LetGo'  BY LeftSound DEF LetGo
<1>7. StatusKnown'  BY DEF StatusKnown
<1> QED  BY <1>2, <1>3, <1>4, <1>5, <1>6, <1>7

(* What a call of connectWebSocket and of connectAuto have in common: the
   adapter in use is disconnected, and a new one takes its place. *)
LEMMA NewAdapterIInv ==
  ASSUME IInv, tries < MaxTries, tries' = tries + 1, adapter' = tries',
         NEW p, Sound(p), NEW x \in {"ws", "fetch"},
         protocol' = [ProtocolLeft EXCEPT ![tries + 1] = p], wt' = WtLeft,
         auto' = [auto EXCEPT ![tries + 1] = x], controls' = None,
         x = "fetch" => Unused(p) /\ status' \in {"none", "disconnected"},
         x = "ws" => status' = p.told /\ TellsTruth(p)
  PROVE  IInv'
<1> USE DEF IInv
<1>1. /\ auto \in [Adapters -> {"none", "fetch", "wt", "ws", "stale"}]
      /\ tries \in 0 .. MaxTries /\ adapter \in 0 .. tries
      /\ tries + 1 \in Adapters /\ tries + 1 # adapter
      /\ tries + 1 \in 0 .. MaxTries /\ adapter' # None
      /\ auto[tries + 1] = "none" /\ wt[tries + 1] = WebTransport!Fresh
  BY BrowserAssumption DEF TypeOK, Untouched, Adapters, None
<1>2. TypeOK'
  <2>1. status' \in {"none", "connecting", "connected", "reconnecting",
                     "disconnected"}
    BY DEF Sound, WebSocket!ObjectType
  <2>2. WebSocket!TypeOK' /\ WebTransport!TypeOK'
    BY LeftSound DEF Sound, WebSocket!TypeOK, WebTransport!TypeOK
  <2> QED  BY <1>1, <2>1, <2>2 DEF TypeOK, None
<1>3. AdaptersSound'  BY LeftSound DEF AdaptersSound
<1>4. Untouched'
  BY <1>1, LeftSound DEF Untouched, Adapters
<1>5. OneTransport'
  <2> SUFFICES ASSUME NEW a \in Adapters
               PROVE  /\ auto'[a] # "ws" => Unused(protocol'[a])
                      /\ auto'[a] \in {"none", "fetch"} =>
                           wt'[a] = WebTransport!Fresh
                      /\ wt'[a].phase \in {"ready", "stream", "live"} =>
                           auto'[a] = "wt"
                      /\ auto'[a] \in {"none", "stale"} => a # adapter'
    BY DEF OneTransport
  <2>1. CASE a = tries + 1
    BY <1>1, <2>1, LeftSound DEF OneTransport, WebTransport!Fresh
  <2>2. CASE a # tries + 1
    BY <1>1, <2>2, LeftSound DEF OneTransport
  <2> QED  BY <2>1, <2>2
<1>6. LetGo'  BY <1>1, LeftSound DEF LetGo
<1>7. StatusKnown'  BY <1>1, LeftSound DEF StatusKnown
<1> QED  BY <1>2, <1>3, <1>4, <1>5, <1>6, <1>7

(* connect() of the terminal, which lets the adapter in use go first, keeps
   the invariant. *)
LEMMA ConnectsIInv ==
  ASSUME IInv, ConnectWebSocket \/ ConnectAuto PROVE IInv'
<1>1. /\ tries < MaxTries => /\ tries + 1 \in Adapters /\ tries + 1 > tries
                             /\ tries + 1 # adapter
      /\ adapter \in 0 .. tries
  BY BrowserAssumption DEF IInv, TypeOK, Adapters
<1>2. tries < MaxTries =>
        ProtocolLeft[tries + 1] = WebSocket!Fresh
  BY <1>1, LeftSound DEF IInv, Untouched
<1>3. CASE ConnectWebSocket
  <2> DEFINE p == WebSocket!Connect(WebSocket!Fresh)
  <2>1. Sound(p) /\ p.told = "connecting"
    BY FreshSound, ConnectSound
  <2>2. protocol' = [ProtocolLeft EXCEPT ![tries + 1] = p]
    BY <1>2, <1>3 DEF ConnectWebSocket
  <2> HIDE DEF p
  <2>3. TellsTruth(p)  BY <2>1 DEF TellsTruth
  <2> QED
    BY <1>3, <2>1, <2>2, <2>3, NewAdapterIInv DEF ConnectWebSocket
<1>4. CASE ConnectAuto
  <2>1. protocol' = [ProtocolLeft EXCEPT ![tries + 1] = WebSocket!Fresh]
    BY <1>1, <1>2, <1>4, LeftSound DEF ConnectAuto
  <2>2. status' \in {"none", "disconnected"}
    BY <1>4 DEF ConnectAuto, IInv, Untouched
  <2> QED
    BY <1>4, <2>1, <2>2, FreshSound, NewAdapterIInv DEF ConnectAuto
<1> QED  BY <1>3, <1>4

(* Every step of the terminal and of its adapters keeps the invariant. *)
THEOREM Inductive == IInv /\ [Next]_vars => IInv'
<1> SUFFICES ASSUME IInv, [Next]_vars PROVE IInv'
  OBVIOUS
<1>1. CASE ConnectWebSocket \/ ConnectAuto  BY <1>1, ConnectsIInv
<1>2. CASE Disconnect  BY <1>2, DisconnectIInv
<1>3. ASSUME NEW a \in Adapters, Awaited(a) PROVE IInv'
  BY <1>3, FetchIInv, TransportFailsIInv, TransportIInv, RedialsIInv,
     OpensIInv, ClosesIInv DEF Awaited
<1>4. ASSUME NEW a \in Adapters, Unasked(a) PROVE IInv'
  BY <1>4, TransportIInv, GoodbyeIInv, PublishIInv, ClosesIInv DEF Unasked
<1>5. CASE UNCHANGED vars
  BY <1>5 DEF vars, IInv, TypeOK, WebSocket!TypeOK, WebTransport!TypeOK,
     AdaptersSound, Untouched, OneTransport, LetGo, StatusKnown
<1> QED  BY <1>1, <1>2, <1>3, <1>4, <1>5 DEF Next

(* The invariant holds in every state the terminal reaches. *)
THEOREM Invariance == Spec => []IInv
  BY InitIInv, Inductive, PTL DEF Spec

-----------------------------------------------------------------------------
(* The types of the terminal and its adapters are kept. *)
THEOREM TypeCorrect == Spec => []TypeOK
<1>1. IInv => TypeOK  BY DEF IInv
<1> QED  BY <1>1, Invariance, PTL

(* The sockets of a sound adapter that are in use are one at most. *)
LEMMA CountSockets ==
  ASSUME NEW o, Sound(o)
  PROVE  /\ Cardinality(WebSocket!Live(o)) <= 1
         /\ o.pings = Cardinality(WebSocket!Open(o))
<1> USE DEF WebSocket!Live, WebSocket!Open
<1>1. \A s, t \in WebSocket!Sockets :
        o.sock[s] # "none" /\ o.sock[t] # "none" => s = t
  BY DEF Sound, OneThing
<1>2. Cardinality(WebSocket!Live(o)) <= 1
  <2>1. CASE WebSocket!Live(o) = {}  BY <2>1, FS_EmptySet
  <2>2. ASSUME NEW s \in WebSocket!Live(o)
        PROVE  Cardinality(WebSocket!Live(o)) <= 1
    <3>1. WebSocket!Live(o) = {s}  BY <1>1, <2>2
    <3> QED  BY <3>1, FS_Singleton
  <2> QED  BY <2>1, <2>2
<1>3. o.pings = Cardinality(WebSocket!Open(o))
  <2>1. CASE WebSocket!Open(o) = {}
    <3>1. ~o.pinging  BY <2>1 DEF Sound, OneThing
    <3>2. o.pings = 0  BY <3>1 DEF Sound, OneThing
    <3> QED  BY <2>1, <3>2, FS_EmptySet
  <2>2. ASSUME NEW s \in WebSocket!Open(o)
        PROVE  o.pings = Cardinality(WebSocket!Open(o))
    <3>1. WebSocket!Open(o) = {s}  BY <1>1, <2>2
    <3>2. o.pinging  BY <2>2 DEF Sound, OneThing
    <3>3. o.pings = 1  BY <3>2 DEF Sound, OneThing
    <3> QED  BY <3>1, <3>3, FS_Singleton
  <2> QED  BY <2>1, <2>2
<1> QED  BY <1>2, <1>3

(* Each try holds one connection at most, whichever callbacks come after
   which disconnects (ts/auto_adapter.ts _tryConnect). *)
THEOREM SingleConnection == Spec => []OneConnection
<1>1. IInv => OneConnection
  <2> SUFFICES ASSUME IInv, NEW a \in Adapters
               PROVE  /\ Cardinality(WebSocket!Live(protocol[a])) <= 1
                      /\ wt[a].net \in {"connecting", "up"} =>
                           a = adapter /\ WebSocket!Live(protocol[a]) = {}
    BY DEF OneConnection
  <2>1. Cardinality(WebSocket!Live(protocol[a])) <= 1
    BY AdapterKnown, CountSockets
  <2>2. ASSUME wt[a].net \in {"connecting", "up"}
        PROVE  a = adapter /\ WebSocket!Live(protocol[a]) = {}
    <3>1. a = adapter /\ auto[a] = "wt"
      BY <2>2, AdapterKnown DEF Session
    <3>2. Unused(protocol[a])
      BY <3>1, AdapterKnown
    <3> QED  BY <3>1, <3>2 DEF Unused, WebSocket!Live
  <2> QED  BY <2>1, <2>2
<1> QED  BY <1>1, Invariance, PTL

(* No connection leaves a ping interval behind, and none goes without
   (_startPing, _stopPing). *)
THEOREM NoStrayPings == Spec => []PingsMatch
<1>1. IInv => PingsMatch
  BY AdapterKnown, CountSockets DEF PingsMatch, Session
<1> QED  BY <1>1, Invariance, PTL

(* The page is never told of a connection, a retry or an end that is not
   there (ts/booba.ts _setupAdapter). *)
THEOREM PageToldTruth == Spec => []StatusTruthful
<1>1. IInv => StatusTruthful
  <2> SUFFICES ASSUME IInv PROVE StatusTruthful
    OBVIOUS
  <2>1. CASE adapter = None
    BY <2>1 DEF IInv, Untouched, StatusTruthful
  <2>2. CASE adapter # None
    <3>1. adapter \in Adapters
      BY <2>2, BrowserAssumption DEF IInv, TypeOK, Adapters, None
    <3>2. auto[adapter] \in {"fetch", "ws", "wt"}
      BY <3>1 DEF IInv, TypeOK, OneTransport
    <3>3. CASE auto[adapter] = "fetch"
      <4>1. status \in {"none", "disconnected"}
        BY <2>2, <3>3 DEF IInv, StatusKnown
      <4>2. ~Alive(adapter)
        BY <3>1, <3>3 DEF IInv, OneTransport, Unused, Alive, WebSocket!Live,
           WebTransport!Fresh
      <4> QED  BY <4>1, <4>2 DEF StatusTruthful
    <3>4. CASE auto[adapter] = "ws"
      <4>1. status = protocol[adapter].told /\ TellsTruth(protocol[adapter])
        BY <2>2, <3>4 DEF IInv, StatusKnown
      <4>2. wt[adapter].net \notin {"connecting", "up"}
        BY <3>1, <3>4, AdapterKnown DEF Session
      <4> QED
        BY <2>2, <4>1, <4>2 DEF TellsTruth, StatusTruthful, Alive, Reachable,
           WebSocket!Live, WebSocket!Open
    <3>5. CASE auto[adapter] = "wt"
      <4>1. status = wt[adapter].told /\ SessionTellsTruth(wt[adapter])
        BY <2>2, <3>5 DEF IInv, StatusKnown
      <4>2. Unused(protocol[adapter])
        BY <3>1, <3>5 DEF IInv, OneTransport
      <4> QED
        BY <2>2, <4>1, <4>2 DEF SessionTellsTruth, StatusTruthful, Alive,
           Reachable, Unused, WebSocket!Live
    <3> QED  BY <3>2, <3>3, <3>4, <3>5
  <2> QED  BY <2>1, <2>2
<1> QED  BY <1>1, Invariance, PTL
-----------------------------------------------------------------------------
(* A callback of one adapter leaves the timers of the others alone, and sets
   none for an adapter that no longer wishes to reconnect. *)
LEMMA NoTimerSet ==
  ASSUME IInv, Next, NEW a \in Adapters, ~protocol[a].shouldReconnect
  PROVE  protocol'[a].timers <= protocol[a].timers
<1> DEFINE Quiet == protocol'[a].timers <= protocol[a].timers
<1>1. /\ protocol \in [Adapters -> WebSocket!ObjectType]
      /\ protocol[a].timers \in 0 .. 1
  BY DEF IInv, TypeOK, WebSocket!TypeOK, WebSocket!ObjectType
<1>2. CASE protocol' = protocol  BY <1>1, <1>2
<1>3. ASSUME NEW p, protocol' = [ProtocolLeft EXCEPT ![tries + 1] = p],
             p.timers = 0
      PROVE  Quiet
  BY <1>1, <1>3, LeftSound
<1>4. CASE ConnectWebSocket \/ ConnectAuto
  <2>1. tries + 1 \in Adapters /\ tries + 1 # adapter
    BY <1>4, BrowserAssumption
       DEF IInv, TypeOK, Adapters, ConnectWebSocket, ConnectAuto
  <2>2. ProtocolLeft[tries + 1] = WebSocket!Fresh
    BY <2>1, BrowserAssumption, LeftSound DEF IInv, Untouched, TypeOK
  <2>3. WebSocket!Connect(WebSocket!Fresh).timers = 0
    BY FreshSound, ConnectSound
  <2>4. CASE ConnectWebSocket
    BY <1>3, <2>2, <2>3, <2>4 DEF ConnectWebSocket
  <2>5. CASE ConnectAuto
    BY <1>1, <2>5, LeftSound DEF ConnectAuto
  <2> QED  BY <1>4, <2>4, <2>5
<1>5. CASE Disconnect
  BY <1>1, <1>5, LeftSound DEF Disconnect
<1>6. ASSUME NEW b \in Adapters, NEW p, protocol' = [protocol EXCEPT ![b] = p],
             b = a => p.timers <= protocol[a].timers
      PROVE  Quiet
  BY <1>1, <1>6
<1>7. ASSUME NEW b \in Adapters, NEW s \in WebSocket!Sockets, Opens(b, s)
      PROVE  Quiet
  <2>1. protocol' = [protocol EXCEPT ![b] = Opened(protocol[b], s)]
    BY <1>7 DEF Opens, WebSocket!OnOpen, WebSocket!Becomes, Opened
  <2>2. Opened(protocol[b], s).timers = protocol[b].timers
    BY <1>7, AdapterKnown, OpenSound DEF Opens, WebSocket!OnOpen
  <2> QED  BY <1>1, <1>6, <2>1, <2>2
<1>8. ASSUME NEW b \in Adapters, NEW s \in WebSocket!Sockets, Closes(b, s)
      PROVE  Quiet
  <2> DEFINE q == Gone(protocol[b], s)
             p == IF WebSocket!MayReconnect(q) THEN WebSocket!Reconnect(q)
                  ELSE [q EXCEPT !.told = "disconnected"]
  <2>1. protocol' = [protocol EXCEPT ![b] = p]
    BY <1>8 DEF Closes, WebSocket!OnClose, WebSocket!Becomes, None,
       WebSocket!None, Gone
  <2>2. /\ Sound(q) /\ q.timers = 0 /\ protocol[b].timers = 0
        /\ \A t \in WebSocket!Sockets : q.sock[t] = "none"
        /\ q.shouldReconnect = protocol[b].shouldReconnect
    BY <1>8, AdapterKnown, SocketGone DEF Closes, WebSocket!OnClose
  <2> HIDE DEF q
  <2>3. ~q.shouldReconnect => p.timers = 0
    BY <2>2, CloseSound
  <2> HIDE DEF p
  <2> QED  BY <1>1, <1>6, <2>1, <2>2, <2>3
<1>9. ASSUME NEW b \in Adapters, Redials(b) PROVE Quiet
  <2> DEFINE p == WebSocket!Dial([protocol[b] EXCEPT !.timers = @ - 1])
  <2>1. protocol[b].timers > 0 /\ protocol' = [protocol EXCEPT ![b] = p]
    BY <1>9 DEF Redials, WebSocket!OnTimer, WebSocket!Becomes
  <2>2. p.timers < protocol[b].timers /\ p.timers \in 0 .. 1
    BY <2>1, AdapterKnown, TimerSound DEF Sound, WebSocket!ObjectType
  <2> HIDE DEF p
  <2> QED  BY <1>1, <1>6, <2>1, <2>2
<1>10. ASSUME NEW b \in Adapters, Goodbye(b) PROVE Quiet
  <2>1. CASE WebTransport!OnMsgClose(b) /\ UNCHANGED protocol
    BY <1>2, <2>1
  <2>2. ASSUME NEW s \in WebSocket!Sockets, WebSocket!OnMsgClose(b, s)
        PROVE  Quiet
    <3>1. protocol' = [protocol EXCEPT ![b] = Ended(protocol[b])]
      BY <2>2 DEF WebSocket!OnMsgClose, WebSocket!Becomes, Ended
    <3>2. Ended(protocol[b]).timers = protocol[b].timers
      BY AdapterKnown, GoodbyeSound
    <3> QED  BY <1>1, <1>6, <3>1, <3>2
  <2> QED  BY <1>10, <2>1, <2>2 DEF Goodbye
<1>11. ASSUME NEW b \in Adapters, FallBack(b), auto[b] # "ws" PROVE Quiet
  <2>1. Unused(protocol[b])  BY <1>11, AdapterKnown
  <2>2. WebSocket!Connect(protocol[b]).timers = 0
    BY <2>1, AdapterKnown, ConnectSound
  <2>3. protocol[b].timers = 0  BY <2>1 DEF Unused
  <2> DEFINE p == WebSocket!Connect(protocol[b])
  <2>4. protocol' = [protocol EXCEPT ![b] = p]  BY <1>11 DEF FallBack
  <2>5. p.timers = 0  BY <2>2
  <2> HIDE DEF p
  <2> QED  BY <1>1, <1>6, <2>3, <2>4, <2>5
<1>12. ASSUME NEW b \in Adapters, FetchOk(b) \/ FetchFails(b) \/ TransportFails(b)
       PROVE  Quiet
  <2>1. auto[b] # "ws"
    BY <1>12, AdapterKnown DEF FetchOk, FetchFails, TransportFails,
       WebTransport!OnFail, WebTransport!Opening
  <2>2. CASE FallBack(b)  BY <1>11, <2>1, <2>2
  <2>3. CASE TryTransport(b) \/ Abandon(b)
    BY <1>2, <2>3 DEF TryTransport, Abandon
  <2> QED  BY <1>12, <2>2, <2>3 DEF FetchOk, FetchFails, TransportFails
<1>13. ASSUME NEW b \in Adapters,
              \/ TransportReady(b) \/ TransportOpens(b) \/ TransportCloses(b)
              \/ Publish(b)
       PROVE  Quiet
  BY <1>2, <1>13 DEF TransportReady, TransportOpens, TransportCloses, Publish
<1> HIDE DEF Quiet
<1>14. ASSUME NEW b \in Adapters, Awaited(b) PROVE Quiet
  BY <1>7, <1>8, <1>9, <1>12, <1>13, <1>14 DEF Awaited
<1>15. ASSUME NEW b \in Adapters, Unasked(b) PROVE Quiet
  BY <1>8, <1>10, <1>13, <1>15 DEF Unasked
<1>16. Quiet
  BY <1>4, <1>5, <1>14, <1>15 DEF Next, Quiet
<1> QED  BY <1>16 DEF Quiet

(* Nothing schedules a reconnect for an adapter that was let go or that the
   server said goodbye to (ts/websocket_adapter.ts:101-108). *)
THEOREM EndIsFinal == Spec => NoRetryAfterEnd
<1> DEFINE Step == \A a \in Adapters :
                     protocol[a].ended \/ (a <= tries /\ a # adapter) =>
                       protocol'[a].timers <= protocol[a].timers
<1>1. ASSUME IInv, Next PROVE Step
  <2> SUFFICES ASSUME NEW a \in Adapters,
                      protocol[a].ended \/ (a <= tries /\ a # adapter)
               PROVE  protocol'[a].timers <= protocol[a].timers
    OBVIOUS
  <2>1. ~protocol[a].shouldReconnect
    BY <1>1, AdapterKnown DEF Sound, OneThing
  <2> QED  BY <1>1, <2>1, NoTimerSet
<1>2. IInv /\ [Next]_vars => [Step]_vars
  BY <1>1
<1>3. []IInv /\ [][Next]_vars => [][Step]_vars
  BY <1>2, PTL
<1> QED  BY <1>3, Invariance, PTL DEF Spec, NoRetryAfterEnd

(***************************************************************************)
(* What the user does.                                                     *)
(***************************************************************************)

(* The fields of TouchInput. *)
Gestured ==
  /\ DOMAIN gesture = {"active", "finger", "last", "pending", "pair"}
  /\ gesture.active \in BOOLEAN
  /\ gesture.finger \in Fingers \cup {Null}
  /\ gesture.last \in Cells \cup {Up} /\ gesture.pending \in Cells \cup {Up}

Typed ==
  /\ pos \in [All -> Cells \cup {Up}]
  /\ Gestured
  /\ {suppress, listening, tracking, readOnly, cut} \subseteq BOOLEAN
  /\ compat \in {"none", "down", "up"}
  /\ held \subseteq {"touch", "mouse"}

(* The finger whose press was sent is the only one on the canvas, and nobody
   but it has a frame or a drag coming. *)
OneFinger ==
  /\ gesture.finger # Null =>
       /\ gesture.active /\ listening /\ gesture.pair = Null
       /\ \A f \in Fingers : pos[f] # Up <=> f = gesture.finger
       /\ "canvas" \notin past
  /\ gesture.pending # Up => gesture.finger # Null

(* Unless it was cut, the program holds the button for that finger and knows
   where it is; a finger elsewhere on the page makes TouchInput forget. *)
ProgramKnows ==
  /\ ~cut => ("touch" \in held <=> gesture.finger # Null)
  /\ gesture.finger # Null /\ (\E f \in Outside : pos[f] # Up) => "page" \in past
  /\ gesture.finger # Null /\ "page" \notin past =>
       Latest(gesture) = pos[gesture.finger]

(* The browser makes mouse events up only when the fingers are gone, and for
   a touch that was reported within the time of suppression. *)
NoEcho ==
  /\ compat # "none" => Free(pos)
  /\ "reported" \in past /\ "switched" \notin past => Tracked
  /\ "canvas" \notin past =>
       \A f, g \in Fingers : pos[f] # Up /\ pos[g] # Up => f = g
  /\ listening /\ Tracked /\ ~Free(pos) /\ {"canvas", "switched"} \cap past = {}
       => gesture.active
  /\ compat = "down" /\ listening /\ "reported" \in past /\ "switched" \notin past
       => suppress

PointerInv == Typed /\ OneFinger /\ ProgramKnows /\ NoEcho

(* What a step tells the program makes sense to it (TouchesPaired), and is not
   told twice (NotReportedTwice). *)
Paired ==
  Sent("touch") /\ ~cut =>
    /\ report'.kind = "press" => "touch" \notin held
    /\ report'.kind \in {"drag", "release"} =>
         /\ "touch" \in held
         /\ "page" \notin past => report'.cell = pos[gesture.finger]
    /\ report'.kind \in {"press", "drag"} => "canvas" \notin past'

Once ==
  Sent("mouse") /\ compat = "down" /\ compat' = "up" /\ "reported" \in past
    => "switched" \in past

Good == PointerInv' /\ Paired /\ Once

-----------------------------------------------------------------------------
(* Touches. *)

Down(p, f) == p[f] # Up

(* Counting touches, where two matter. *)
LEMMA TwoTouches ==
  ASSUME NEW T \in SUBSET All
  PROVE  /\ Cardinality(T) >= 2 <=> \E f, g \in T : f # g
         /\ Cardinality(T) > 1 <=> \E f, g \in T : f # g
         /\ Cardinality(T) < 2 <=> ~\E f, g \in T : f # g
<1>1. IsFiniteSet(T) /\ Cardinality(T) \in Nat
  BY PointerAssumption, FS_Subset, FS_CardinalityType DEF All
<1>2. Cardinality(T) = 0 <=> T = {}
  BY <1>1, FS_EmptySet
<1>3. Cardinality(T) = 1 <=> \E x : T = {x}
  BY <1>1, FS_Singleton
<1>4. (\E f, g \in T : f # g) <=> ~(T = {}) /\ ~(\E x : T = {x})
  OBVIOUS
<1> QED  BY <1>1, <1>2, <1>3, <1>4

(* Crowded says which fingers there are two of. *)
LEMMA CrowdedBy ==
  ASSUME NEW p
  PROVE  /\ Crowded(p) \subseteq {"canvas", "page"}
         /\ "canvas" \in Crowded(p) <=>
              \E f, g \in Fingers : f # g /\ Down(p, f) /\ Down(p, g)
         /\ "page" \in Crowded(p) <=>
              (\E f \in Fingers : Down(p, f)) /\ (\E g \in Outside : Down(p, g))
<1> DEFINE T == Touches(p)
<1>1. /\ Cardinality(T) < 2 <=> ~\E f, g \in T : f # g
      /\ Cardinality(T \cap Fingers) > 1 <=> \E f, g \in T \cap Fingers : f # g
  BY TwoTouches DEF Touches
<1>2. T = {f \in Fingers \cup Outside : Down(p, f)}
  BY DEF Touches, Down, All
<1>3. Crowded(p) = IF T \cap Fingers = {} \/ Cardinality(T) < 2 THEN {}
                   ELSE (IF Cardinality(T \cap Fingers) > 1 THEN {"canvas"} ELSE {})
                        \cup (IF T \subseteq Fingers THEN {} ELSE {"page"})
  BY DEF Crowded, Free
<1> HIDE DEF T
<1>4. "canvas" \in Crowded(p) <=> \E f, g \in T \cap Fingers : f # g
  BY <1>1, <1>3
<1>5. "page" \in Crowded(p) <=> T \cap Fingers # {} /\ ~(T \subseteq Fingers)
  <2>1. T \cap Fingers # {} /\ ~(T \subseteq Fingers) => \E f, g \in T : f # g
    OBVIOUS
  <2> QED  BY <1>1, <1>3, <2>1
<1>6. Crowded(p) \subseteq {"canvas", "page"}  BY <1>3
<1> QED  BY <1>2, <1>4, <1>5, <1>6, PointerAssumption

(* Null is no finger, and no cell is Up. *)
LEMMA NotNone ==
  /\ Null \notin Fingers /\ Null \notin Outside /\ Fingers \cap Outside = {}
  /\ Up \notin Cells /\ Cells \subseteq Int
  BY PointerAssumption DEF Up, Cells

(* An event of the mouse, and what else leaves the touches alone. *)
LEMMA TouchesUntouched ==
  ASSUME PointerInv, UNCHANGED <<pos, gesture, suppress, past, listening, tracking,
                                 readOnly, cut>>,
         held' \subseteq {"touch", "mouse"}, "touch" \in held' <=> "touch" \in held,
         compat' = compat \/ compat' = "none" \/ (compat = "down" /\ compat' = "up")
  PROVE  PointerInv'
<1> USE DEF PointerInv
<1>1. Typed'  BY DEF Typed, Gestured
<1>2. OneFinger'  BY DEF OneFinger
<1>3. ProgramKnows'  BY DEF ProgramKnows, Latest
<1>4. NoEcho'  BY DEF NoEcho, Typed, Free, Touches, Tracked
<1> QED  BY <1>1, <1>2, <1>3, <1>4

(* What the mouse sends concerns no finger. *)
LEMMA MouseSends ==
  ASSUME Typed, NEW kind, Send("mouse", kind, 0) \/ Silent
  PROVE  /\ held' \subseteq {"touch", "mouse"} /\ cut' = cut
         /\ "touch" \in held' <=> "touch" \in held
         /\ ~Sent("touch")
  BY DEF Typed, Send, Silent, Sent

(* The mouse's events, those that the browser makes up included. *)
LEMMA MouseGood ==
  ASSUME PointerInv,
         \/ MouseDown \/ (\E inside \in BOOLEAN : MouseUp(inside)) \/ MouseMove
         \/ MouseWheel \/ CompatDown \/ CompatUp
  PROVE  Good
<1>1. \E kind : Send("mouse", kind, 0) \/ Silent
  BY DEF MouseDown, MouseUp, MouseMove, MouseWheel, CompatDown, CompatUp,
     MouseReport
<1>2. /\ held' \subseteq {"touch", "mouse"} /\ cut' = cut
      /\ "touch" \in held' <=> "touch" \in held
      /\ ~Sent("touch")
  BY <1>1, MouseSends DEF PointerInv
<1>3. UNCHANGED <<pos, gesture, suppress, past, listening, tracking, readOnly>>
  BY DEF MouseDown, MouseUp, MouseMove, MouseWheel, CompatDown, CompatUp,
     touchSide, settings
<1>4. compat' = compat \/ compat' = "none" \/ (compat = "down" /\ compat' = "up")
  <2>1. CASE CompatDown  BY <2>1 DEF CompatDown
  <2>2. CASE CompatUp  BY <2>2 DEF CompatUp
  <2>3. CASE ~CompatDown /\ ~CompatUp
    BY <2>3 DEF MouseDown, MouseUp, MouseMove, MouseWheel, settings
  <2> QED  BY <2>1, <2>2, <2>3
<1>5. PointerInv'
  BY <1>2, <1>3, <1>4, TouchesUntouched
<1>6. Once
  <2>1. CASE CompatDown
    BY <2>1 DEF CompatDown, Stopped, MouseReport, Silent, Sent, Once, PointerInv,
       NoEcho
  <2>2. CASE ~CompatDown
    <3>1. ~(compat = "down" /\ compat' = "up")
      BY <2>2 DEF MouseDown, MouseUp, MouseMove, MouseWheel, CompatUp, settings
    <3> QED  BY <3>1 DEF Once
  <2> QED  BY <2>1, <2>2
<1> QED  BY <1>2, <1>5, <1>6 DEF Good, Paired

-----------------------------------------------------------------------------
(* What the touch handlers do to the gesture and to the program, in the terms
   the invariant is about. *)

(* hasMouseTracking() is false, and clear(): nothing is sent, and a press the
   program saw is cut. *)
LEMMA ForgetCuts ==
  ASSUME Typed, Forget
  PROVE  /\ Gestured' /\ gesture'.finger = Null /\ gesture'.pending = Up
         /\ report' = Null /\ suppress' = suppress /\ held' = held
         /\ cut' \in BOOLEAN /\ (~cut' => "touch" \notin held)
  BY NotNone DEF Forget, Idle, Gestured, Typed

(* SendRelease while PointerInv: the program then knows of no press. *)
LEMMA ReleaseSent ==
  ASSUME PointerInv, NEW cell, SendRelease(cell),
         gesture.finger # Null /\ ~cut /\ "page" \notin past
           => cell = pos[gesture.finger]
  PROVE  /\ held' \subseteq {"touch", "mouse"} /\ cut' \in BOOLEAN
         /\ ~cut' => "touch" \notin held'
         /\ Paired /\ ~Sent("mouse")
         /\ report' # Null => gesture.finger # Null
<1>1. CASE gesture.finger = Null
  BY <1>1 DEF SendRelease, Silent, PointerInv, Typed, ProgramKnows, Paired, Sent
<1>2. CASE gesture.finger # Null
  <2>1. /\ report' = [by |-> "touch", kind |-> "release", cell |-> cell]
        /\ held' = held \ {"touch"} /\ cut' = FALSE
    BY <1>2 DEF SendRelease, Send, PointerInv, Typed
  <2>2. Paired
    BY <1>2, <2>1 DEF Paired, PointerInv, ProgramKnows
  <2> QED  BY <1>2, <2>1, <2>2 DEF PointerInv, Typed, Sent
<1> QED  BY <1>1, <1>2

(* Nothing is sent. *)
LEMMA SilentGood ==
  ASSUME PointerInv, report' = Null
  PROVE  Paired /\ Once
  BY DEF Paired, Once, Sent

(* An invariant of three parts follows at once when no finger holds the button. *)
LEMMA NoFinger ==
  ASSUME gesture'.finger = Null, gesture'.pending = Up,
         ~cut' => "touch" \notin held'
  PROVE  OneFinger' /\ ProgramKnows'
  BY DEF OneFinger, ProgramKnows

-----------------------------------------------------------------------------
(* The events of the fingers. *)

(* A finger of the canvas is down, in terms of Touches and Free. *)
LEMMA FreeMeans ==
  ASSUME NEW p
  PROVE  /\ Free(p) <=> \A f \in Fingers : ~Down(p, f)
         /\ Touches(p) = {} => Free(p)
         /\ \A f \in Fingers \cup Outside : f \in Touches(p) <=> Down(p, f)
  BY DEF Free, Touches, Down, All

(* What Remember keeps: nothing of the touches before the canvas was free. *)
LEMMA Remembers ==
  ASSUME Typed, Remember
  PROVE  /\ \A x \in {"reported", "switched", "canvas", "page"} :
              /\ x \in past' /\ x \notin past
                   => x \in Crowded(pos') \/ (x = "reported" /\ report' # Null)
              /\ x \in past /\ ~Free(pos) => x \in past'
         /\ Crowded(pos') \subseteq past'
         /\ Free(pos) /\ Crowded(pos') = {} /\ report' = Null => past' = {}
         /\ \A x \in past' : /\ x = "switched" => x \in past /\ ~Free(pos)
                             /\ x = "reported" => report' # Null \/ (x \in past /\ ~Free(pos))
                             /\ x \in {"canvas", "page"} =>
                                  x \in Crowded(pos') \/ (x \in past /\ ~Free(pos))
  BY CrowdedBy DEF Remember

(* NoEcho holds while fingers are on the canvas, whatever is remembered. *)
LEMMA NoEchoOf ==
  ASSUME PointerInv, compat' = "none", Remember, UNCHANGED <<tracking, readOnly>>,
         report' # Null => Tracked,
         listening' /\ Tracked /\ ~Free(pos') => gesture'.active
           \/ "switched" \in past' \/ "canvas" \in past'
  PROVE  NoEcho'
<1>1. Tracked' = Tracked  BY DEF Tracked
<1>2. "reported" \in past' /\ "switched" \notin past' => Tracked'
  BY <1>1, Remembers DEF PointerInv, NoEcho
<1>3. "canvas" \notin past' =>
        \A f, g \in Fingers : pos'[f] # Up /\ pos'[g] # Up => f = g
  BY CrowdedBy, Remembers DEF PointerInv, Down
<1>4. listening' /\ Tracked' /\ ~Free(pos') /\ {"canvas", "switched"} \cap past' = {}
        => gesture'.active
  BY <1>1
<1> QED  BY <1>1, <1>2, <1>3, <1>4 DEF NoEcho

(* A finger lands, or several do at once. *)
LEMMA LandGood ==
  ASSUME PointerInv,
         NEW fs \in (SUBSET Fingers) \ {{}}, NEW p \in [fs -> Cells], Land(fs, p)
  PROVE  Good
<1> USE DEF PointerInv
<1>1. /\ pos' \in [All -> Cells \cup {Up}]
      /\ \A f \in fs : Down(pos', f) /\ ~Down(pos, f)
      /\ \A f \in Fingers \cup Outside :
           f \notin fs => pos'[f] = pos[f] /\ (Down(pos', f) <=> Down(pos, f))
      /\ \E f \in fs : f \in Fingers
  <2>1. /\ \A f \in fs : pos[f] = Up
        /\ pos' = [f \in All |-> IF f \in fs THEN p[f] ELSE pos[f]]
    BY DEF Land
  <2>2. \A f \in fs : p[f] \in Cells /\ p[f] # Up
    BY NotNone
  <2>3. pos' \in [All -> Cells \cup {Up}]
    BY <2>1, <2>2 DEF Typed
  <2> QED  BY <2>1, <2>2, <2>3 DEF All, Down
<1>2. ~Free(pos')
  BY <1>1, FreeMeans
<1>3. /\ compat' = "none" /\ Remember
      /\ UNCHANGED <<listening, tracking, readOnly>> /\ Tracked' = Tracked
      /\ Handle(Start(pos'))
  BY DEF Land, Tracked
<1>4. Typed' /\ OneFinger' /\ ProgramKnows' /\ Paired /\ ~Sent("mouse")
      /\ (report' # Null => Tracked)
      /\ (listening /\ Tracked => gesture'.active)
  <2>1. CASE ~listening
    <3>1. report' = Null /\ UNCHANGED <<held, cut, gesture, suppress>>
      BY <2>1, <1>3 DEF Handle, Silent
    <3>2. Typed'  BY <1>1, <1>3, <3>1 DEF Typed, Gestured
    <3>3. gesture.finger = Null /\ gesture.pending = Up
      BY <2>1 DEF OneFinger
    <3> QED
      BY <2>1, <3>1, <3>2, <3>3, NoFinger, SilentGood DEF ProgramKnows, Sent
  <2>2. CASE listening /\ ~Tracked
    <3>1. Forget  BY <2>2, <1>3 DEF Handle, Start
    <3>2. Typed'  BY <1>1, <1>3, <3>1, ForgetCuts DEF Typed, Gestured
    <3> QED  BY <2>2, <3>1, <3>2, ForgetCuts, NoFinger, SilentGood DEF Sent
  <2>3. CASE listening /\ Tracked
    <3> DEFINE g == [gesture EXCEPT !.active = TRUE]
    <3>1. /\ suppress' = TRUE
          /\ IF Cardinality(Touches(pos')) >= 2 THEN StartPair(g, pos')
             ELSE IF g.finger = Null /\ g.pair = Null
             THEN \E f \in Touches(pos') : StartPress(g, f, pos')
             ELSE Becomes(g) /\ Silent
      BY <2>3, <1>3 DEF Handle, Start, Forget, Prevent
    <3>2. /\ DOMAIN g = {"active", "finger", "last", "pending", "pair"}
          /\ g.active = TRUE /\ g.finger = gesture.finger /\ g.last = gesture.last
          /\ g.pending = gesture.pending /\ g.pair = gesture.pair
      BY DEF Typed, Gestured
    <3> HIDE DEF g
    <3>0. \A f \in Touches(pos') : ~(Cardinality(Touches(pos')) >= 2) =>
            /\ f \in Fingers /\ gesture.finger = Null
            /\ \A h \in Fingers \cup Outside : Down(pos', h) <=> h = f
      <4>1. Touches(pos') \subseteq All  BY DEF Touches
      <4>2. ~(Cardinality(Touches(pos')) >= 2)
              => \A f, h \in Touches(pos') : f = h
        BY <4>1, TwoTouches
      <4>3. gesture.finger # Null => gesture.finger \in Fingers /\ Down(pos, gesture.finger)
        BY DEF Typed, Gestured, OneFinger, Down
      <4> QED  BY <4>1, <4>2, <4>3, <1>1, FreeMeans DEF All
    <3>00. Touches(pos') # {}
      BY <1>2, FreeMeans
    <3>3. CASE StartPair(g, pos')
      <4>1. /\ Gestured' /\ gesture'.active /\ gesture'.finger = Null
            /\ gesture'.pending = Up
        BY <3>2, <3>3, NotNone DEF StartPair, Becomes, Released, Gestured, Typed
      <4>2. SendRelease(Latest(g)) /\ Latest(g) = Latest(gesture)
        BY <3>2, <3>3 DEF StartPair, Latest
      <4>3. /\ held' \subseteq {"touch", "mouse"} /\ cut' \in BOOLEAN
            /\ ~cut' => "touch" \notin held'
            /\ Paired /\ ~Sent("mouse")
        BY <4>2, ReleaseSent DEF ProgramKnows
      <4>4. Typed'  BY <1>1, <1>3, <3>1, <4>1, <4>3 DEF Typed
      <4> QED  BY <2>3, <4>1, <4>3, <4>4, NoFinger
    <3>4. CASE ~(Cardinality(Touches(pos')) >= 2) /\ g.finger = Null /\ g.pair = Null
               /\ \E f \in Touches(pos') : StartPress(g, f, pos')
      <4>1. PICK f \in Touches(pos') : StartPress(g, f, pos')
        BY <3>4
      <4>2. /\ f \in Fingers /\ gesture.finger = Null
            /\ \A h \in Fingers \cup Outside : Down(pos', h) <=> h = f
        BY <3>0, <3>4
      <4>3. /\ Gestured' /\ gesture'.active /\ gesture'.finger = f
            /\ gesture'.last = pos'[f] /\ gesture'.pending = Up
            /\ gesture'.pair = Null
        BY <1>1, <3>2, <3>4, <4>1, <4>2
           DEF StartPress, Becomes, Gestured, Typed, OneFinger, All, Down
      <4>4. /\ report' = [by |-> "touch", kind |-> "press", cell |-> pos'[f]]
            /\ held' = held \cup {"touch"} /\ cut' = cut
        BY <4>1 DEF StartPress, Send, Typed
      <4>5. Typed'  BY <1>1, <1>3, <3>1, <4>3, <4>4 DEF Typed
      <4>6. "canvas" \notin past'
        BY <1>1, <1>3, <4>2, CrowdedBy, Remembers DEF Free, Touches, All, Down
      <4>7. OneFinger' /\ ProgramKnows'
        BY <2>3, <1>3, <4>2, <4>3, <4>4, <4>6, NotNone
           DEF OneFinger, ProgramKnows, Down, Latest
      <4>8. Paired /\ ~Sent("mouse")
        BY <4>2, <4>4, <4>6 DEF Paired, Sent, ProgramKnows
      <4> QED  BY <2>3, <4>3, <4>5, <4>7, <4>8
    <3>5. CASE Becomes(g) /\ Silent /\ ~(Cardinality(Touches(pos')) >= 2)
      <4>1. gesture.finger = Null  BY <3>0, <3>00, <3>5
      <4>2. /\ gesture' = g /\ Gestured' /\ gesture'.finger = Null
            /\ gesture'.pending = Up
        BY <3>2, <3>5, <4>1 DEF Becomes, Gestured, Typed, OneFinger
      <4>3. report' = Null /\ UNCHANGED <<held, cut>>  BY <3>5 DEF Silent
      <4>4. Typed'  BY <1>1, <1>3, <3>1, <4>2, <4>3 DEF Typed
      <4> QED
        BY <3>2, <4>1, <4>2, <4>3, <4>4, NoFinger, SilentGood DEF ProgramKnows, Sent
    <3> QED  BY <3>1, <3>3, <3>4, <3>5
  <2> QED  BY <2>1, <2>2, <2>3
<1>5. NoEcho'
  BY <1>3, <1>4, NoEchoOf
<1> QED  BY <1>4, <1>5 DEF Good, Once, Sent

(* A drag with two fingers changes no more than the pair, and sends wheel
   steps. *)
LEMMA WheelKeeps ==
  ASSUME PointerInv, gesture.pair # Null, NEW p, Wheel(p)
  PROVE  /\ Gestured' /\ gesture'.active = gesture.active
         /\ gesture'.finger = Null /\ gesture'.pending = Up
         /\ UNCHANGED <<held, cut>> /\ Paired /\ ~Sent("mouse")
<1>1. gesture.finger = Null /\ gesture.pending = Up /\ Gestured
  BY DEF PointerInv, OneFinger, Typed
<1>2. /\ Gestured' /\ gesture'.active = gesture.active
      /\ gesture'.finger = Null /\ gesture'.pending = Up
  BY <1>1 DEF Wheel, Becomes, Gestured
<1>3. Silent \/ \E kind \in {"up", "down"} : \E cell : Send("touch", kind, cell)
  BY DEF Wheel
<1>4. UNCHANGED <<held, cut>> /\ Paired /\ ~Sent("mouse")
  <2>1. CASE Silent
    BY <2>1 DEF Silent, Paired, Sent
  <2>2. ASSUME NEW kind \in {"up", "down"}, NEW cell, Send("touch", kind, cell)
        PROVE  UNCHANGED <<held, cut>> /\ Paired /\ ~Sent("mouse")
    <3>1. /\ report' = [by |-> "touch", kind |-> kind, cell |-> cell]
          /\ held' = held /\ cut' = cut
      BY <2>2 DEF Send, PointerInv, Typed
    <3> QED  BY <3>1 DEF Paired, Sent
  <2> QED  BY <1>3, <2>1, <2>2
<1> QED  BY <1>2, <1>4

(* A finger on the canvas moves by a cell. *)
LEMMA DragGood ==
  ASSUME PointerInv, NEW f \in Fingers, NEW c \in Cells, Drag(f, c)
  PROVE  Good
<1> USE DEF PointerInv
<1>1. /\ pos' \in [All -> Cells \cup {Up}] /\ pos'[f] = c
      /\ \A h \in Fingers \cup Outside :
           (Down(pos', h) <=> Down(pos, h)) /\ (h # f => pos'[h] = pos[h])
      /\ Down(pos, f) /\ ~Free(pos)
  <2>1. /\ pos[f] # Up /\ pos' = [pos EXCEPT ![f] = c]
    BY DEF Drag
  <2>2. c # Up  BY NotNone
  <2>3. pos' \in [All -> Cells \cup {Up}] /\ pos'[f] = c
        /\ \A h \in Fingers \cup Outside : h # f => pos'[h] = pos[h]
    BY <2>1 DEF Typed, All
  <2> QED  BY <2>1, <2>2, <2>3, FreeMeans DEF Down
<1>2. /\ compat = "none" /\ compat' = "none" /\ Remember
      /\ UNCHANGED <<listening, tracking, readOnly>> /\ Tracked' = Tracked
      /\ Handle(Move(pos'))
  BY <1>1 DEF Drag, Tracked, settings, NoEcho
<1>3. gesture.finger # Null =>
        /\ f = gesture.finger /\ "canvas" \notin Crowded(pos')
        /\ \A h \in Fingers : Down(pos', h) <=> h = f
        /\ gesture.active /\ listening /\ gesture.pair = Null
  BY <1>1, CrowdedBy DEF OneFinger, Down
<1>4. "canvas" \notin past /\ "canvas" \notin Crowded(pos') => "canvas" \notin past'
  BY <1>2, Remembers
<1>5. gesture.finger # Null => "canvas" \notin past'
  BY <1>3, <1>4 DEF OneFinger
<1>6. Typed' /\ OneFinger' /\ ProgramKnows' /\ Paired /\ ~Sent("mouse")
      /\ (report' # Null => Tracked)
      /\ (listening /\ Tracked /\ gesture.active => gesture'.active)
  <2>1. CASE ~listening
    <3>1. report' = Null /\ UNCHANGED <<held, cut, gesture, suppress>>
      BY <2>1, <1>2 DEF Handle, Silent
    <3>2. Typed'  BY <1>1, <1>2, <3>1 DEF Typed, Gestured
    <3>3. gesture.finger = Null /\ gesture.pending = Up
      BY <2>1 DEF OneFinger
    <3> QED
      BY <2>1, <3>1, <3>2, <3>3, NoFinger, SilentGood DEF ProgramKnows, Sent
  <2>2. CASE listening /\ ~Tracked
    <3>1. Forget  BY <2>2, <1>2 DEF Handle, Move
    <3>2. Typed'  BY <1>1, <1>2, <3>1, ForgetCuts DEF Typed, Gestured
    <3> QED  BY <2>2, <3>1, <3>2, ForgetCuts, NoFinger, SilentGood DEF Sent
  <2>3. CASE listening /\ Tracked
    <3>1. suppress' \in BOOLEAN
      BY <2>3, <1>2 DEF Handle, Move, Forget, Prevent, Typed
    <3>2. \/ gesture.active /\ gesture.pair # Null /\ Wheel(pos')
          \/ /\ gesture.active /\ Touches(pos') = {gesture.finger}
             /\ Becomes([gesture EXCEPT !.pending = pos'[gesture.finger]]) /\ Silent
          \/ /\ gesture.active => Touches(pos') # {gesture.finger}
                                  \/ gesture.pair # Null
             /\ Becomes(gesture) /\ Silent
      BY <2>3, <1>2 DEF Handle, Move, Forget
    <3>3. CASE gesture.active /\ gesture.pair # Null /\ Wheel(pos')
      <4>1. Typed'  BY <1>1, <1>2, <3>1, <3>3, WheelKeeps DEF Typed
      <4>2. ~cut' => "touch" \notin held'
        BY <1>3, <3>3, WheelKeeps DEF ProgramKnows
      <4> QED  BY <2>3, <3>3, <4>1, <4>2, WheelKeeps, NoFinger
    <3>4. CASE /\ gesture.active /\ Touches(pos') = {gesture.finger}
               /\ Becomes([gesture EXCEPT !.pending = pos'[gesture.finger]]) /\ Silent
      <4>1. gesture.finger = f
        BY <1>1, <3>4, FreeMeans
      <4>2. /\ Gestured' /\ gesture'.active /\ gesture'.finger = f
            /\ gesture'.pending = pos'[f] /\ gesture'.pair = gesture.pair
        BY <1>1, <3>4, <4>1 DEF Becomes, Typed, Gestured, All
      <4>3. report' = Null /\ UNCHANGED <<held, cut>>  BY <3>4 DEF Silent
      <4>4. Typed'  BY <1>1, <1>2, <3>1, <4>2, <4>3 DEF Typed
      <4>5. f # Null /\ pos'[f] # Up /\ \A h \in Outside : ~Down(pos', h)
        BY <1>1, <3>4, <4>1, NotNone, FreeMeans DEF Down
      <4>6. OneFinger' /\ ProgramKnows'
        BY <1>1, <1>2, <1>3, <1>5, <4>1, <4>2, <4>3, <4>5
           DEF OneFinger, ProgramKnows, Down, Latest
      <4> QED  BY <2>3, <4>2, <4>3, <4>4, <4>6, SilentGood DEF Sent
    <3>5. CASE /\ gesture.active => Touches(pos') # {gesture.finger}
                                    \/ gesture.pair # Null
               /\ Becomes(gesture) /\ Silent
      <4>1. report' = Null /\ UNCHANGED <<held, cut, gesture>>
        BY <3>5 DEF Silent, Becomes
      <4>2. Typed'  BY <1>1, <1>2, <3>1, <4>1 DEF Typed, Gestured
      <4>3. OneFinger'
        BY <1>1, <1>2, <1>3, <1>5, <4>1 DEF OneFinger, Down
      <4>4. gesture.finger # Null => \E h \in Outside : Down(pos', h)
        BY <1>3, <3>5, FreeMeans DEF All, Touches
      <4>5. gesture.finger # Null => "page" \in past /\ "page" \in past'
        BY <1>1, <1>2, <4>4, Remembers DEF ProgramKnows, Down
      <4>6. ProgramKnows'
        BY <4>1, <4>5 DEF ProgramKnows
      <4> QED  BY <2>3, <4>1, <4>2, <4>3, <4>6, SilentGood DEF Sent
    <3> QED  BY <3>2, <3>3, <3>4, <3>5
  <2> QED  BY <2>1, <2>2, <2>3
<1>7. NoEcho'
  <2>1. listening' /\ Tracked /\ ~Free(pos') => gesture'.active
          \/ "switched" \in past' \/ "canvas" \in past'
    BY <1>1, <1>2, <1>6, Remembers DEF NoEcho
  <2> QED  BY <1>2, <1>6, <2>1, NoEchoOf
<1> QED  BY <1>6, <1>7 DEF Good, Once, Sent

(* Fingers are lifted, or the browser takes them away. *)
LEMMA LiftGood ==
  ASSUME PointerInv,
         NEW fs \in (SUBSET Fingers) \ {{}}, NEW cancel \in BOOLEAN, Lift(fs, cancel)
  PROVE  Good
<1> USE DEF PointerInv
<1>1. /\ pos' \in [All -> Cells \cup {Up}]
      /\ \A f \in fs : Down(pos, f) /\ ~Down(pos', f)
      /\ \A f \in Fingers \cup Outside : f \notin fs => pos'[f] = pos[f]
      /\ ~Free(pos)
  <2>1. /\ \A f \in fs : pos[f] # Up
        /\ pos' = [f \in All |-> IF f \in fs THEN Up ELSE pos[f]]
    BY DEF Lift
  <2>2. pos' \in [All -> Cells \cup {Up}]  BY <2>1 DEF Typed
  <2> QED  BY <2>1, <2>2, FreeMeans DEF Down, All
<1>2. /\ compat' = IF ~cancel /\ Touches(pos') = {} /\ "canvas" \notin past
                   THEN "down" ELSE "none"
      /\ past' = past \cup (IF report' = Null THEN {} ELSE {"reported"})
      /\ UNCHANGED <<listening, tracking, readOnly>> /\ Tracked' = Tracked
      /\ Handle(End(fs, cancel, pos'))
  BY DEF Lift, Tracked
<1>3. gesture.finger # Null =>
        /\ fs = {gesture.finger} /\ Free(pos')
        /\ gesture.active /\ listening
  BY <1>1, FreeMeans DEF OneFinger, Down
<1>4. ~Free(pos') /\ gesture.finger = Null /\ listening /\ Tracked
        => {"canvas", "switched"} \cap past # {}
  BY <1>1, FreeMeans DEF NoEcho, Down
<1>5. /\ Typed' /\ OneFinger' /\ ProgramKnows' /\ Paired /\ ~Sent("mouse")
      /\ report' # Null => Tracked
      /\ listening /\ Tracked /\ gesture.active => suppress'
  <2>1. CASE ~listening
    <3>1. report' = Null /\ UNCHANGED <<held, cut, gesture, suppress>>
      BY <2>1, <1>2 DEF Handle, Silent
    <3>2. Typed'  BY <1>1, <1>2, <3>1 DEF Typed, Gestured
    <3>3. gesture.finger = Null /\ gesture.pending = Up
      BY <2>1 DEF OneFinger
    <3> QED
      BY <2>1, <3>1, <3>2, <3>3, NoFinger, SilentGood DEF ProgramKnows, Sent
  <2>2. CASE listening /\ ~Tracked
    <3>1. Forget  BY <2>2, <1>2 DEF Handle, End
    <3>2. Typed'  BY <1>1, <1>2, <3>1, ForgetCuts DEF Typed, Gestured
    <3> QED  BY <2>2, <3>1, <3>2, ForgetCuts, NoFinger, SilentGood DEF Sent
  <2>3. CASE listening /\ Tracked /\ ~gesture.active
    <3>1. report' = Null /\ UNCHANGED <<held, cut, gesture, suppress>>
      BY <2>3, <1>2 DEF Handle, End, Forget, Becomes, Silent
    <3>2. Typed'  BY <1>1, <1>2, <3>1 DEF Typed, Gestured
    <3>3. gesture.finger = Null /\ gesture.pending = Up
      BY <2>3 DEF OneFinger
    <3> QED
      BY <2>3, <3>1, <3>2, <3>3, NoFinger, SilentGood DEF ProgramKnows, Sent
  <2>4. CASE listening /\ Tracked /\ gesture.active
    <3> DEFINE ends == gesture.finger # Null /\ (gesture.finger \in fs \/ cancel)
               g == IF ends THEN Released(gesture) ELSE gesture
               h == [g EXCEPT !.pair = IF Cardinality(Touches(pos')) < 2
                                       THEN Null ELSE @]
    <3>1. /\ suppress' = TRUE
          /\ gesture' = IF Touches(pos') = {} \/ cancel THEN Idle ELSE h
          /\ IF ends THEN SendRelease(IF gesture.finger \in fs
                                      THEN pos[gesture.finger] ELSE Latest(gesture))
             ELSE Silent
      BY <2>4, <1>2 DEF Handle, End, Forget, EndPrevent, Prevent, Becomes
    <3>2. ends <=> gesture.finger # Null
      BY <1>3
    <3>3. DOMAIN g = {"active", "finger", "last", "pending", "pair"}
          /\ g.active \in BOOLEAN /\ g.finger = Null
          /\ g.last \in Cells \cup {Up} /\ g.pending = Up
      BY <3>2 DEF Released, Typed, Gestured, OneFinger
    <3> HIDE DEF g
    <3>4. DOMAIN h = {"active", "finger", "last", "pending", "pair"}
          /\ h.active \in BOOLEAN /\ h.finger = Null
          /\ h.last \in Cells \cup {Up} /\ h.pending = Up
      BY <3>3
    <3> HIDE DEF h
    <3>5. Gestured' /\ gesture'.finger = Null /\ gesture'.pending = Up
      BY <3>1, <3>4 DEF Idle, Gestured
    <3>6. \E cell : /\ SendRelease(cell)
                    /\ gesture.finger # Null => cell = pos[gesture.finger]
      BY <3>1, <3>2, <1>3 DEF SendRelease
    <3>7. /\ held' \subseteq {"touch", "mouse"} /\ cut' \in BOOLEAN
          /\ ~cut' => "touch" \notin held'
          /\ Paired /\ ~Sent("mouse")
      BY <3>6, ReleaseSent
    <3>8. Typed'  BY <1>1, <1>2, <3>1, <3>5, <3>7 DEF Typed
    <3> QED  BY <2>4, <3>1, <3>5, <3>7, <3>8, NoFinger
  <2> QED  BY <2>1, <2>2, <2>3, <2>4
<1>6. NoEcho'
  <2>1. compat' # "none" => Free(pos')
    BY <1>2, FreeMeans
  <2>2. "reported" \in past' /\ "switched" \notin past' => Tracked'
    BY <1>2, <1>5 DEF NoEcho
  <2>3. "canvas" \notin past' =>
          \A f, g \in Fingers : pos'[f] # Up /\ pos'[g] # Up => f = g
    BY <1>1, <1>2 DEF NoEcho, Down
  <2>4. listening' /\ Tracked' /\ ~Free(pos') /\ {"canvas", "switched"} \cap past' = {}
          => gesture'.active
    BY <1>2, <1>3, <1>4
  <2>5. compat' = "down" /\ listening' /\ "reported" \in past' /\ "switched" \notin past'
          => suppress'
    <3>1. ASSUME compat' = "down", listening, "reported" \in past', "switched" \notin past'
          PROVE  gesture.active /\ Tracked
      BY <3>1, <1>1, <1>2, <2>2 DEF NoEcho
    <3> QED  BY <3>1, <1>2, <1>5
  <2> QED  BY <2>1, <2>2, <2>3, <2>4, <2>5 DEF NoEcho
<1> QED  BY <1>5, <1>6 DEF Good, Once, Sent

(* A finger beside the canvas lands or is lifted. *)
LEMMA OutsideGood ==
  ASSUME PointerInv, NEW f \in Outside, OutsideMoves(f)
  PROVE  Good
<1> USE DEF PointerInv
<1>1. /\ pos' \in [All -> Cells \cup {Up}]
      /\ \A h \in Fingers : pos'[h] = pos[h] /\ (Down(pos', h) <=> Down(pos, h))
      /\ Free(pos') <=> Free(pos)
  <2>1. pos' = [pos EXCEPT ![f] = IF @ = Up THEN 0 ELSE Up] /\ f \notin Fingers
    BY PointerAssumption DEF OutsideMoves
  <2>2. 0 \in Cells  BY PointerAssumption DEF Cells
  <2>3. pos' \in [All -> Cells \cup {Up}]  BY <2>1, <2>2 DEF Typed, All
  <2>4. \A h \in Fingers : pos'[h] = pos[h] /\ (Down(pos', h) <=> Down(pos, h))
    BY <2>1 DEF Typed, All, Down
  <2> QED  BY <2>3, <2>4, FreeMeans
<1>2. /\ report' = Null /\ past' = past \cup Crowded(pos')
      /\ UNCHANGED <<held, cut, gesture, suppress, compat, listening, tracking,
                     readOnly>>
      /\ Tracked' = Tracked
  BY DEF OutsideMoves, Silent, settings, Tracked
<1>3. Typed'  BY <1>1, <1>2 DEF Typed, Gestured
<1>4. gesture.finger # Null =>
        /\ "canvas" \notin past'
        /\ (\E h \in Outside : Down(pos', h)) => "page" \in past'
  BY <1>1, <1>2, CrowdedBy DEF OneFinger, Down, Typed, Gestured
<1>5. OneFinger' /\ ProgramKnows'
  <2>1. Latest(gesture)' = Latest(gesture)  BY <1>2 DEF Latest
  <2>2. gesture.finger # Null => gesture.finger \in Fingers
    BY DEF Typed, Gestured
  <2>3. OneFinger'  BY <1>1, <1>2, <1>4 DEF OneFinger
  <2>4. ProgramKnows'  BY <1>1, <1>2, <1>4, <2>1, <2>2 DEF ProgramKnows, Down
  <2> QED  BY <2>3, <2>4
<1>6. NoEcho'
  <2>1. \A x \in {"reported", "switched"} : x \in past' <=> x \in past
    BY <1>2, CrowdedBy
  <2>2. "canvas" \notin past' => "canvas" \notin past
    BY <1>2
  <2> QED  BY <1>1, <1>2, <2>1, <2>2 DEF NoEcho
<1> QED  BY <1>2, <1>3, <1>5, <1>6, SilentGood DEF Good

(* The animation frame sends the drag that is pending. *)
LEMMA FrameGood ==
  ASSUME PointerInv, Frame
  PROVE  Good
<1> USE DEF PointerInv
<1>1. /\ gesture.pending # Up /\ gesture.finger # Null
      /\ UNCHANGED <<pos, compat, listening, tracking, readOnly>>
      /\ Tracked' = Tracked /\ Free(pos') = Free(pos)
      /\ past' = past \cup (IF report' = Null THEN {} ELSE {"reported"})
  BY DEF Frame, OneFinger, settings, Tracked
<1>2. compat = "none" /\ ~Free(pos) /\ "canvas" \notin past /\ "canvas" \notin past'
  BY <1>1, FreeMeans DEF NoEcho, OneFinger, Down, Typed, Gestured
<1>3. /\ Typed' /\ OneFinger' /\ ProgramKnows' /\ Paired /\ ~Sent("mouse")
      /\ report' # Null => Tracked
      /\ Tracked => gesture'.active
  <2>1. CASE ~Tracked
    <3>1. Forget  BY <2>1 DEF Frame
    <3>2. Typed'  BY <1>1, <3>1, ForgetCuts DEF Typed
    <3> QED  BY <2>1, <3>1, <3>2, ForgetCuts, NoFinger, SilentGood DEF Sent
  <2>2. CASE Tracked
    <3>1. /\ suppress' = suppress
          /\ \/ /\ gesture.pending = gesture.last
                /\ gesture' = [gesture EXCEPT !.pending = Up] /\ Silent
             \/ /\ gesture' = [gesture EXCEPT !.pending = Up,
                                              !.last = gesture.pending]
                /\ Send("touch", "drag", gesture.pending)
      BY <2>2 DEF Frame, Becomes, Forget
    <3>2. /\ Gestured' /\ gesture'.active = gesture.active
          /\ gesture'.finger = gesture.finger /\ gesture'.pair = gesture.pair
          /\ gesture'.pending = Up /\ gesture'.last = gesture.pending
      BY <3>1 DEF Typed, Gestured
    <3>3. /\ UNCHANGED <<held, cut>>
          /\ report' # Null => report' = [by |-> "touch", kind |-> "drag",
                                          cell |-> gesture.pending]
      BY <3>1 DEF Silent, Send, Typed
    <3>4. Typed'  BY <1>1, <3>1, <3>2, <3>3 DEF Typed
    <3>5. Latest(gesture) = gesture.pending /\ Latest(gesture)' = gesture.pending
      BY <1>1, <3>2 DEF Latest
    <3>6. OneFinger'  BY <1>1, <1>2, <3>2 DEF OneFinger
    <3>7. ProgramKnows'  BY <1>1, <3>2, <3>3, <3>5 DEF ProgramKnows
    <3>8. Paired /\ ~Sent("mouse")
      BY <1>1, <1>2, <3>3, <3>5 DEF Paired, Sent, ProgramKnows
    <3> QED  BY <1>1, <2>2, <3>2, <3>4, <3>6, <3>7, <3>8 DEF OneFinger
  <2> QED  BY <2>1, <2>2
<1>4. NoEcho'
  BY <1>1, <1>2, <1>3 DEF NoEcho
<1> QED  BY <1>3, <1>4 DEF Good, Once, Sent

(* The end of the suppression, and of the two handlers. *)
LEMMA ExpireGood ==
  ASSUME PointerInv, Expire
  PROVE  Good
<1> USE DEF PointerInv
<1>1. /\ compat = "none" /\ suppress' = FALSE /\ report' = Null
      /\ UNCHANGED <<held, cut, pos, gesture, compat, listening, tracking, readOnly,
                     past>>
  BY DEF Expire, Silent, settings
<1>2. Typed' /\ OneFinger'  BY <1>1 DEF Typed, Gestured, OneFinger
<1>3. ProgramKnows'  BY <1>1 DEF ProgramKnows, Latest
<1>4. NoEcho'  BY <1>1 DEF NoEcho, Free, Touches, Tracked
<1> QED  BY <1>1, <1>2, <1>3, <1>4, SilentGood DEF Good

LEMMA DisposeGood ==
  ASSUME PointerInv, Dispose
  PROVE  Good
<1> USE DEF PointerInv
<1>1. /\ listening' = FALSE /\ gesture' = Idle
      /\ UNCHANGED <<pos, suppress, compat, mouse, tracking, readOnly, past>>
      /\ \/ /\ gesture.finger # Null /\ Tracked
            /\ SendRelease(Latest(gesture))
         \/ /\ report' = Null /\ held' = held
            /\ cut' = (cut \/ "touch" \in held)
  BY DEF Dispose
<1>2. Gestured' /\ gesture'.finger = Null /\ gesture'.pending = Up
  BY <1>1, NotNone DEF Idle, Gestured
<1>3. /\ held' \subseteq {"touch", "mouse"} /\ cut' \in BOOLEAN
      /\ ~cut' => "touch" \notin held'
      /\ Paired /\ ~Sent("mouse")
  <2>1. CASE SendRelease(Latest(gesture))
    BY <2>1, ReleaseSent DEF ProgramKnows
  <2>2. CASE report' = Null /\ held' = held /\ cut' = (cut \/ "touch" \in held)
    BY <2>2, SilentGood DEF Typed, Sent
  <2> QED  BY <1>1, <2>1, <2>2
<1>4. Typed'  BY <1>1, <1>2, <1>3 DEF Typed
<1>5. NoEcho'  BY <1>1 DEF NoEcho, Free, Touches, Tracked
<1> QED  BY <1>2, <1>3, <1>4, <1>5, NoFinger DEF Good, Once, Sent

(* Reports are switched off, or on. *)
LEMMA SwitchGood ==
  ASSUME PointerInv, SetTracking \/ SetReadOnly
  PROVE  Good
<1> USE DEF PointerInv
<1>1. /\ report' = Null /\ past' = past \cup {"switched"}
      /\ UNCHANGED <<pos, gesture, suppress, compat, listening>>
      /\ tracking' \in BOOLEAN /\ readOnly' \in BOOLEAN
      /\ \/ held' = {} /\ cut' = (gesture.finger # Null)
         \/ UNCHANGED <<held, cut>>
  <2>1. CASE SetTracking  BY <2>1 DEF SetTracking, Typed
  <2>2. CASE SetReadOnly  BY <2>2 DEF SetReadOnly, Silent, Typed
  <2> QED  BY <2>1, <2>2
<1>2. Typed'  BY <1>1 DEF Typed, Gestured
<1>3. OneFinger'  BY <1>1 DEF OneFinger
<1>4. ProgramKnows'
  <2>1. ~cut' => ("touch" \in held' <=> gesture'.finger # Null)
    <3>1. CASE held' = {} /\ cut' = (gesture.finger # Null)  BY <3>1, <1>1
    <3>2. CASE UNCHANGED <<held, cut>>  BY <3>2, <1>1 DEF ProgramKnows
    <3> QED  BY <1>1, <3>1, <3>2
  <2> QED  BY <1>1, <2>1 DEF ProgramKnows, Latest
<1>5. NoEcho'  BY <1>1 DEF NoEcho, Free, Touches
<1> QED  BY <1>1, <1>2, <1>3, <1>4, <1>5, SilentGood DEF Good

-----------------------------------------------------------------------------
(* All of them, and the theorems. *)

LEMMA PointerStarts == PointerInit => PointerInv
<1> SUFFICES ASSUME PointerInit PROVE PointerInv
  OBVIOUS
<1>1. /\ pos = [f \in All |-> Up]
      /\ suppress = FALSE /\ compat = "none"
      /\ listening = TRUE /\ tracking = TRUE /\ readOnly = FALSE
      /\ held = {} /\ cut = FALSE /\ past = {}
      /\ gesture = Idle
  BY DEF PointerInit
<1>2. /\ DOMAIN gesture = {"active", "finger", "last", "pending", "pair"}
      /\ gesture.active = FALSE /\ gesture.finger = Null
      /\ gesture.last = Up /\ gesture.pending = Up
  BY <1>1 DEF Idle
<1>3. Typed  BY <1>1, <1>2 DEF Typed, Gestured
<1>4. OneFinger /\ ProgramKnows  BY <1>1, <1>2 DEF OneFinger, ProgramKnows
<1>5. Free(pos)  BY <1>1, FreeMeans DEF Down, All
<1>6. NoEcho  BY <1>1, <1>5 DEF NoEcho, All
<1> QED  BY <1>3, <1>4, <1>5, <1>6 DEF PointerInv

(* Every step of the pointer's. *)
LEMMA PointerStep ==
  ASSUME PointerInv, PointerNext
  PROVE  Good
<1>1. ASSUME NEW fs \in (SUBSET Fingers) \ {{}}, NEW p \in [fs -> Cells], Land(fs, p)
      PROVE  Good
  BY <1>1, LandGood
<1>2. ASSUME NEW fs \in (SUBSET Fingers) \ {{}}, NEW cancel \in BOOLEAN,
             Lift(fs, cancel)
      PROVE  Good
  BY <1>2, LiftGood
<1>3. ASSUME NEW f \in Fingers, NEW c \in Cells, Drag(f, c) PROVE Good
  BY <1>3, DragGood
<1>4. ASSUME NEW f \in Outside, OutsideMoves(f) PROVE Good
  BY <1>4, OutsideGood
<1>5. CASE Frame  BY <1>5, FrameGood
<1>6. CASE Expire  BY <1>6, ExpireGood
<1>7. CASE Dispose  BY <1>7, DisposeGood
<1>8. CASE \/ MouseDown \/ (\E inside \in BOOLEAN : MouseUp(inside)) \/ MouseMove
           \/ MouseWheel \/ CompatDown \/ CompatUp
  BY <1>8, MouseGood
<1>9. CASE SetTracking \/ SetReadOnly  BY <1>9, SwitchGood
<1> QED
  BY <1>1, <1>2, <1>3, <1>4, <1>5, <1>6, <1>7, <1>8, <1>9 DEF PointerNext

(* The invariant: it holds whatever the fingers, the mouse and the program do,
   and while the user types. *)
THEOREM PointerInvariance == UserSpec => []PointerInv
<1>1. UserInit => PointerInv
  BY PointerStarts DEF UserInit
<1>2. PointerInv /\ [UserNext]_<<device, pointerVars, keyVars>> => PointerInv'
  <2> SUFFICES ASSUME PointerInv, [UserNext]_<<device, pointerVars, keyVars>>
               PROVE  PointerInv'
    OBVIOUS
  <2>1. CASE PointerNext  BY <2>1, PointerStep DEF Good
  <2>2. CASE UNCHANGED pointerVars
    BY <2>2 DEF pointerVars, settings, PointerInv, Typed, Gestured, OneFinger, ProgramKnows,
       NoEcho, Latest, Free, Touches, Tracked
  <2> QED  BY <2>1, <2>2 DEF UserNext
<1> QED  BY <1>1, <1>2, PTL DEF UserSpec

(* No button is stuck once the fingers have left the canvas, unless reports were
   switched off before the touch ended (NothingHeld). *)
THEOREM FingersLetGo == UserSpec => []NothingHeld
<1>1. PointerInv => NothingHeld
  BY FreeMeans
     DEF PointerInv, Typed, Gestured, OneFinger, ProgramKnows, NothingHeld, Down
<1> QED  BY <1>1, PointerInvariance, PTL

(* Presses, drags and releases come in an order that makes sense to the program,
   at the cells where the finger was, and none follows a pinch (TouchesPaired). *)
THEOREM TouchesMakeSense == UserSpec => TouchesPaired
<1>1. PointerInv /\ [UserNext]_<<device, pointerVars, keyVars>> => [Paired]_pointerVars
  BY PointerStep DEF UserNext, Good
<1> QED  BY <1>1, PointerInvariance, PTL DEF UserSpec, TouchesPaired, Paired

(* A touch that was reported is not reported once more by the mouse events that
   the browser makes up for it (NotReportedTwice). *)
THEOREM ToldOnce == UserSpec => NotReportedTwice
<1>1. PointerInv /\ [UserNext]_<<device, pointerVars, keyVars>> => [Once]_pointerVars
  BY PointerStep DEF UserNext, Good
<1> QED  BY <1>1, PointerInvariance, PTL DEF UserSpec, NotReportedTwice, Once

-----------------------------------------------------------------------------
(* Keys, compositions and pastes. *)

Keyed == Texts \cup {Keys!Enter}
Paths == Keys!Paths
Ages == 0 .. Window

KeysTyped ==
  /\ \A r \in {lastKeyDown, lastBeforeInput, lastComposition} :
       r \in [text : Keyed \cup {Keys!Nothing}, age : Ages]
  /\ lastPaste \in [text : Texts \cup {Keys!Nothing},
                    from : {"paste", "beforeinput", Keys!Nothing}, age : Ages]
  /\ composing \in BOOLEAN
  /\ browser \in Keys!Announcements
  /\ doing \in [text : Keyed, path : Paths, doubtful : BOOLEAN]
  /\ doing.text = Keys!Enter => doing.path \in {"key", "input"}
  /\ count \in {0, 1}
  /\ recent \in [Keyed \X Paths -> Ages]

(* A record tells of text t. *)
Tells(r, t) == r.text = t /\ r.age < Window

StartEnd == <<"compositionstart", "compositionend">>
InputWithin == <<"compositionstart", "beforeinput", "compositionend">>
InputAfter == <<"compositionstart", "compositionend", "beforeinput">>
InputFirst == <<"beforeinput", "compositionend">>

(* What a record tells of has come not longer ago than the record's age; an
   input that was sent for a composition is of a browser that announces both
   without a composition around them. *)
Recorded ==
  \A t \in Keyed :
    /\ Tells(lastKeyDown, t) => recent[<<t, "key">>] <= lastKeyDown.age
    /\ Tells(lastComposition, t) =>
         /\ t # Keys!Enter
         /\ recent[<<t, "composition">>] <= lastComposition.age
         /\ ~Tells(lastBeforeInput, t)
    /\ Tells(lastBeforeInput, t) =>
         /\ t # Keys!Enter
         /\ \/ recent[<<t, "input">>] <= lastBeforeInput.age
            \/ browser.composition \in {InputAfter, InputFirst}

(* While the events of one thing come, a record of its text is one of them, or
   the text was doubtful from the start. *)
Doubted ==
  pending # <<>> =>
    /\ Tells(lastKeyDown, doing.text) => doing.path = "key" \/ doing.doubtful
    /\ Tells(lastComposition, doing.text) =>
         doing.path = "composition" \/ doing.doubtful
    /\ Tells(lastBeforeInput, doing.text) /\ doing.path = "composition" =>
         browser.composition \in {InputAfter, InputFirst} \/ doing.doubtful

(* How far the events have come, and what has been sent. *)
Announced ==
  LET t == doing.text
      path == doing.path
      way == browser.composition
  IN
  \/ pending = <<>> /\ ~composing /\ (count = 1 \/ doing.doubtful)
  \/ pending = browser[path] /\ ~composing /\ count = 0
  \/ /\ path = "key" /\ pending = <<"beforeinput">> /\ ~composing /\ count = 1
     /\ Tells(lastKeyDown, t)
  \/ /\ path = "composition" /\ composing /\ count = 0
     /\ \/ way \in {StartEnd, InputWithin} /\ pending = <<"compositionend">>
        \/ way = InputWithin /\ pending = <<"beforeinput", "compositionend">>
        \/ way = InputAfter /\ pending = <<"compositionend", "beforeinput">>
  \/ /\ path = "composition" /\ way = InputAfter /\ ~composing
     /\ pending = <<"beforeinput">>
     /\ count = 1 <=> Tells(lastComposition, t)
  \/ /\ path = "composition" /\ way = InputFirst /\ ~composing
     /\ pending = <<"compositionend">>
     /\ count = 1 => Tells(lastBeforeInput, t)
     /\ count = 0 => doing.doubtful \/ ~Tells(lastBeforeInput, t)
  \/ /\ path = "paste" /\ ~composing /\ count = 0
     /\ browser.paste = <<"ctrl-v", "paste", "insertFromPaste">>
     /\ pending = <<"paste", "insertFromPaste">>
  \/ /\ path = "paste" /\ ~composing /\ count = 1 /\ Tells(lastPaste, t)
     /\ \/ /\ browser.paste = <<"ctrl-v", "paste", "insertFromPaste">>
           /\ pending = <<"insertFromPaste">> /\ lastPaste.from = "paste"
        \/ /\ browser.paste = <<"insertFromPaste", "paste">>
           /\ pending = <<"paste">> /\ lastPaste.from = "beforeinput"

(* A paste of which one announcement is remembered is over in a browser that
   makes no other. *)
PasteKnown ==
  lastPaste.age < Window =>
    \/ browser.paste = <<"paste">> /\ lastPaste.from = "paste"
    \/ browser.paste = <<"insertFromPaste">> /\ lastPaste.from = "beforeinput"
    \/ /\ doing.path = "paste" /\ Len(pending) = 1
       /\ browser.paste \in {<<"ctrl-v", "paste", "insertFromPaste">>,
                             <<"insertFromPaste", "paste">>}

KeysInv == KeysTyped /\ Recorded /\ Doubted /\ Announced /\ PasteKnown

(* The next event of each list, and the rest of it. *)
LEMMA Lists ==
  /\ \A e \in {"keydown", "beforeinput", "compositionend", "paste", "insertFromPaste"} :
       <<e>> # <<>> /\ Head(<<e>>) = e /\ Tail(<<e>>) = <<>> /\ Len(<<e>>) = 1
  /\ Head(<<"keydown", "beforeinput">>) = "keydown"
  /\ Tail(<<"keydown", "beforeinput">>) = <<"beforeinput">>
  /\ Head(StartEnd) = "compositionstart" /\ Tail(StartEnd) = <<"compositionend">>
  /\ Head(InputWithin) = "compositionstart"
  /\ Tail(InputWithin) = <<"beforeinput", "compositionend">>
  /\ Head(InputFirst) = "beforeinput" /\ Tail(InputFirst) = <<"compositionend">>
  /\ Head(InputAfter) = "compositionstart"
  /\ Tail(InputAfter) = <<"compositionend", "beforeinput">>
  /\ Head(<<"compositionend", "beforeinput">>) = "compositionend"
  /\ Tail(<<"compositionend", "beforeinput">>) = <<"beforeinput">>
  /\ Head(<<"insertFromPaste", "paste">>) = "insertFromPaste"
  /\ Tail(<<"insertFromPaste", "paste">>) = <<"paste">>
  /\ Head(<<"paste", "insertFromPaste">>) = "paste"
  /\ Tail(<<"paste", "insertFromPaste">>) = <<"insertFromPaste">>
  /\ Head(<<"ctrl-v", "paste", "insertFromPaste">>) = "ctrl-v"
  /\ Tail(<<"ctrl-v", "paste", "insertFromPaste">>) = <<"paste", "insertFromPaste">>
  /\ Len(<<"ctrl-v", "paste", "insertFromPaste">>) = 3
  /\ Len(<<"paste", "insertFromPaste">>) = 2
  /\ Len(<<"insertFromPaste", "paste">>) = 2
  /\ \A a, b, c : <<a, b>> # <<>> /\ <<a, b, c>> # <<>>
  BY DEF StartEnd, InputWithin, InputAfter, InputFirst

(* The events of a browser for what the user does by each path. *)
LEMMA Ways ==
  ASSUME KeysTyped
  PROVE  /\ browser.key \in {<<"keydown">>, <<"keydown", "beforeinput">>}
         /\ browser.input = <<"beforeinput">>
         /\ browser.composition \in {StartEnd, InputWithin, InputAfter, InputFirst}
         /\ browser.paste \in {<<"paste">>, <<"insertFromPaste">>,
                               <<"ctrl-v", "paste", "insertFromPaste">>,
                               <<"insertFromPaste", "paste">>}
  BY DEF KeysTyped, Keys!Announcements, StartEnd, InputWithin, InputAfter, InputFirst

(* What handles each event. *)
LEMMA Handlers ==
  ASSUME NEW t
  PROVE  /\ Keys!Handle("keydown", t) <=> Keys!KeyDown(t)
         /\ Keys!Handle("ctrl-v", t) <=> Keys!KeyDownPaste
         /\ Keys!Handle("beforeinput", t) <=> Keys!BeforeInput(t)
         /\ Keys!Handle("compositionstart", t) <=> Keys!CompositionStart
         /\ Keys!Handle("compositionend", t) <=> Keys!CompositionEnd(t)
         /\ Keys!Handle("paste", t) <=> Keys!Paste(t, "paste")
         /\ ~composing => (Keys!Handle("insertFromPaste", t)
                             <=> Keys!Paste(t, "beforeinput"))
  BY DEF Keys!Handle

(* What an event does to the records: a record is kept or forgotten, or tells of
   this text, which came by the record's path and of which no other tells. *)
Effect ==
  LET t == doing.text
      path == doing.path
      now == [text |-> t, age |-> 0]
  IN
  /\ \/ lastKeyDown' \in {lastKeyDown, Keys!Blank}
     \/ path = "key" /\ lastKeyDown' = now
  /\ \/ lastComposition' \in {lastComposition, Keys!Blank}
     \/ /\ path = "composition" /\ lastComposition' = now
        /\ lastBeforeInput' = lastBeforeInput /\ ~Tells(lastBeforeInput, t)
  /\ \/ lastBeforeInput' \in {lastBeforeInput, Keys!Blank}
     \/ /\ t # Keys!Enter /\ lastBeforeInput' = now
        /\ lastComposition' = lastComposition /\ ~Tells(lastComposition, t)
        /\ \/ path = "input"
           \/ path = "composition" /\ browser.composition \in {InputAfter, InputFirst}

(* The handlers, in the terms of the invariant. *)
LEMMA InputEffect ==
  ASSUME NEW t \in Keyed, KeysTyped, ~composing, Keys!BeforeInput(t)
  PROVE  /\ lastPaste' = lastPaste /\ composing' = FALSE
         /\ lastKeyDown' \in {lastKeyDown, Keys!Blank}
         /\ \/ /\ Tells(lastKeyDown, t) /\ count' = count
               /\ UNCHANGED <<lastBeforeInput, lastComposition>>
            \/ /\ ~Tells(lastKeyDown, t)
               /\ t # Keys!Enter /\ Tells(lastComposition, t) /\ count' = count
               /\ lastComposition' = Keys!Blank /\ lastBeforeInput' = lastBeforeInput
            \/ /\ ~Tells(lastKeyDown, t)
               /\ t = Keys!Enter \/ ~Tells(lastComposition, t)
               /\ count' = count + 1 /\ lastComposition' = lastComposition
               /\ lastBeforeInput' = IF t = Keys!Enter THEN lastBeforeInput
                                     ELSE [text |-> t, age |-> 0]
  BY DEF Keys!BeforeInput, Keys!EchoesKeyDown, Keys!Fresh, Keys!Sends, Keys!SendsNot,
     Keys!Remember, Tells, KeysTyped

LEMMA EndEffect ==
  ASSUME NEW t, KeysTyped, Keys!CompositionEnd(t)
  PROVE  /\ UNCHANGED <<lastPaste, lastKeyDown>> /\ composing' = FALSE
         /\ \/ /\ Tells(lastBeforeInput, t) /\ count' = count
               /\ lastBeforeInput' = Keys!Blank /\ lastComposition' = lastComposition
            \/ /\ ~Tells(lastBeforeInput, t) /\ count' = count + 1
               /\ lastComposition' = [text |-> t, age |-> 0]
               /\ lastBeforeInput' = lastBeforeInput
  BY DEF Keys!CompositionEnd, Keys!Fresh, Keys!Sends, Keys!SendsNot, Keys!Remember,
     Tells

LEMMA PasteEffect ==
  ASSUME NEW t, NEW from, KeysTyped, Keys!Paste(t, from)
  PROVE  /\ UNCHANGED <<lastKeyDown, lastBeforeInput, lastComposition, composing>>
         /\ \/ /\ Tells(lastPaste, t) /\ lastPaste.from # from /\ count' = count
               /\ lastPaste' = [text |-> Keys!Nothing, from |-> Keys!Nothing,
                                age |-> Window]
            \/ /\ ~(Tells(lastPaste, t) /\ lastPaste.from # from)
               /\ count' = count + 1
               /\ lastPaste' = [text |-> t, from |-> from, age |-> 0]
  BY DEF Keys!Paste, Keys!Fresh, Keys!Sends, Keys!SendsNot, Tells

(* The next event of what the user does: its handler keeps the order in which
   things are announced and sent. *)
LEMMA EventEffect ==
  ASSUME KeysInv, Keys!Event
  PROVE  /\ Effect /\ Announced' /\ PasteKnown'
         /\ count' \in {0, 1} /\ composing' \in BOOLEAN
         /\ lastPaste' \in [text : Texts \cup {Keys!Nothing},
                            from : {"paste", "beforeinput", Keys!Nothing}, age : Ages]
<1> USE DEF KeysInv
<1> DEFINE t == doing.text
           path == doing.path
           way == browser.composition
           Result == /\ Effect /\ Announced' /\ PasteKnown'
                     /\ count' \in {0, 1} /\ composing' \in BOOLEAN
                     /\ lastPaste' \in [text : Texts \cup {Keys!Nothing},
                                        from : {"paste", "beforeinput", Keys!Nothing},
                                        age : Ages]
<1> SUFFICES Result
  OBVIOUS
<1>1. /\ pending # <<>> /\ pending' = Tail(pending)
      /\ Keys!Handle(Head(pending), t)
      /\ UNCHANGED <<browser, doing>>
  BY DEF Keys!Event
<1>2. t \in Keyed /\ path \in Paths /\ (path \in {"composition", "paste"} => t \in Texts)
      /\ count \in {0, 1} /\ composing \in BOOLEAN
  BY DEF KeysTyped, Paths, Keys!Paths, Keyed
<1> HIDE DEF Result
<1>3. CASE path = "key" /\ pending = browser.key /\ ~composing /\ count = 0
  <2>1. Keys!KeyDown(t) /\ (pending' = <<>> \/ pending' = <<"beforeinput">>)
    BY <1>1, <1>3, Ways, Handlers, Lists
  <2>2. /\ lastKeyDown' = [text |-> t, age |-> 0] /\ count' = 1
        /\ UNCHANGED <<lastBeforeInput, lastComposition, lastPaste, composing>>
    BY <1>3, <2>1 DEF Keys!KeyDown, Keys!Sends, Keys!Remember
  <2>3. Effect  BY <1>3, <2>2 DEF Effect
  <2>4. Tells(lastKeyDown, t)'
    BY <1>1, <2>2, KeysAssumption DEF Tells
  <2>5. Announced'  BY <1>1, <1>3, <2>1, <2>2, <2>4 DEF Announced
  <2>6. PasteKnown'  BY <1>1, <1>3, <2>2 DEF PasteKnown
  <2> QED  BY <1>2, <1>3, <2>2, <2>3, <2>5, <2>6 DEF Result, KeysTyped
<1>4. CASE /\ path = "key" /\ pending = <<"beforeinput">> /\ ~composing /\ count = 1
           /\ Tells(lastKeyDown, t)
  <2>1. Keys!BeforeInput(t) /\ pending' = <<>>
    BY <1>1, <1>4, Handlers, Lists
  <2>2. /\ UNCHANGED <<lastPaste, count, lastBeforeInput, lastComposition>>
        /\ composing' = FALSE /\ lastKeyDown' \in {lastKeyDown, Keys!Blank}
    BY <1>2, <1>4, <2>1, InputEffect
  <2>3. Effect  BY <2>2 DEF Effect
  <2>4. Announced'  BY <1>1, <1>4, <2>1, <2>2 DEF Announced
  <2>5. PasteKnown'  BY <1>1, <1>4, <2>2 DEF PasteKnown
  <2> QED  BY <1>2, <1>4, <2>2, <2>3, <2>4, <2>5 DEF Result, KeysTyped
<1>5. CASE path = "input" /\ pending = browser.input /\ ~composing /\ count = 0
  <2>1. Keys!BeforeInput(t) /\ pending' = <<>>
    BY <1>1, <1>5, Ways, Handlers, Lists
  <2>2. /\ lastPaste' = lastPaste /\ composing' = FALSE
        /\ lastKeyDown' \in {lastKeyDown, Keys!Blank}
        /\ count' = 1 \/ (count' = 0 /\ doing.doubtful)
        /\ Effect
    <3>1. \/ Tells(lastKeyDown, t) /\ count' = count
               /\ UNCHANGED <<lastBeforeInput, lastComposition>>
          \/ Tells(lastComposition, t) /\ count' = count
               /\ lastComposition' = Keys!Blank /\ lastBeforeInput' = lastBeforeInput
          \/ /\ t = Keys!Enter \/ ~Tells(lastComposition, t)
             /\ count' = count + 1 /\ lastComposition' = lastComposition
             /\ lastBeforeInput' = IF t = Keys!Enter THEN lastBeforeInput
                                   ELSE [text |-> t, age |-> 0]
      BY <1>2, <1>5, <2>1, InputEffect
    <3>2. /\ lastPaste' = lastPaste /\ composing' = FALSE
          /\ lastKeyDown' \in {lastKeyDown, Keys!Blank}
      BY <1>2, <1>5, <2>1, InputEffect
    <3>3. count' = 1 \/ (count' = 0 /\ doing.doubtful)
      BY <1>1, <1>5, <3>1 DEF Doubted
    <3>4. Effect  BY <1>5, <3>1, <3>2 DEF Effect
    <3> QED  BY <3>2, <3>3, <3>4
  <2>3. Announced'  BY <1>1, <2>1, <2>2 DEF Announced
  <2>4. PasteKnown'  BY <1>1, <1>5, <2>2 DEF PasteKnown
  <2> QED  BY <1>2, <2>2, <2>3, <2>4 DEF Result, KeysTyped
<1>6. CASE /\ path = "composition" /\ pending = way /\ ~composing /\ count = 0
           /\ way # InputFirst
  <2>1. /\ Keys!CompositionStart
        /\ \/ way = StartEnd /\ pending' = <<"compositionend">>
           \/ way = InputWithin /\ pending' = <<"beforeinput", "compositionend">>
           \/ way = InputAfter /\ pending' = <<"compositionend", "beforeinput">>
    BY <1>1, <1>6, Ways, Handlers, Lists
  <2>2. /\ composing' = TRUE
        /\ UNCHANGED <<lastKeyDown, lastBeforeInput, lastComposition, lastPaste, count>>
    BY <2>1 DEF Keys!CompositionStart, Keys!records
  <2>3. Effect  BY <2>2 DEF Effect
  <2>4. Announced'  BY <1>1, <1>6, <2>1, <2>2 DEF Announced
  <2>5. PasteKnown'  BY <1>1, <1>6, <2>2 DEF PasteKnown
  <2> QED  BY <1>2, <2>2, <2>3, <2>4, <2>5 DEF Result, KeysTyped
<1>7. CASE /\ path = "composition" /\ pending = way /\ ~composing /\ count = 0
           /\ way = InputFirst
  <2>1. Keys!BeforeInput(t) /\ pending' = <<"compositionend">>
    BY <1>1, <1>7, Handlers, Lists
  <2>2. t # Keys!Enter /\ t \in Keyed
    BY <1>2, <1>7, KeysAssumption
  <2>3. /\ lastPaste' = lastPaste /\ composing' = FALSE
        /\ lastKeyDown' \in {lastKeyDown, Keys!Blank}
    BY <1>7, <2>1, <2>2, InputEffect
  <2>4. \/ Tells(lastKeyDown, t) /\ count' = count
             /\ UNCHANGED <<lastBeforeInput, lastComposition>>
        \/ Tells(lastComposition, t) /\ count' = count
             /\ lastComposition' = Keys!Blank /\ lastBeforeInput' = lastBeforeInput
        \/ /\ ~Tells(lastComposition, t) /\ count' = count + 1
           /\ lastComposition' = lastComposition
           /\ lastBeforeInput' = [text |-> t, age |-> 0]
    BY <1>7, <2>1, <2>2, InputEffect
  <2>5. Effect  BY <1>7, <2>2, <2>3, <2>4 DEF Effect
  <2>6. /\ count' = 1 => Tells(lastBeforeInput', t)
        /\ count' = 0 => doing.doubtful \/ ~Tells(lastBeforeInput', t)
    <3>1. Tells(lastKeyDown, t) => doing.doubtful
      BY <1>1, <1>7 DEF Doubted
    <3>2. Tells(lastComposition, t) => ~Tells(lastBeforeInput, t)
      BY <2>2 DEF Recorded
    <3>3. lastBeforeInput' = [text |-> t, age |-> 0] => Tells(lastBeforeInput', t)
      BY KeysAssumption DEF Tells
    <3> QED  BY <1>7, <2>4, <3>1, <3>2, <3>3
  <2>7. count' \in {0, 1}  BY <1>7, <2>4
  <2>8. Announced'  BY <1>1, <1>7, <2>1, <2>3, <2>6 DEF Announced
  <2>9. PasteKnown'  BY <1>1, <1>7, <2>3 DEF PasteKnown
  <2> QED  BY <1>2, <2>3, <2>5, <2>7, <2>8, <2>9 DEF Result, KeysTyped
<1>8. CASE /\ path = "composition" /\ composing /\ count = 0
           /\ way \in {StartEnd, InputWithin} /\ pending = <<"compositionend">>
  <2>1. Keys!CompositionEnd(t) /\ pending' = <<>>
    BY <1>1, <1>8, Handlers, Lists
  <2>2. /\ UNCHANGED <<lastPaste, lastKeyDown>> /\ composing' = FALSE
        /\ \/ /\ Tells(lastBeforeInput, t) /\ count' = count
              /\ lastBeforeInput' = Keys!Blank /\ lastComposition' = lastComposition
           \/ /\ ~Tells(lastBeforeInput, t) /\ count' = count + 1
              /\ lastComposition' = [text |-> t, age |-> 0]
              /\ lastBeforeInput' = lastBeforeInput
    BY <1>8, <2>1, EndEffect
  <2>3. Effect  BY <1>8, <2>2 DEF Effect
  <2>4. count' = 1 \/ (count' = 0 /\ doing.doubtful)
    <3>1. way \notin {InputAfter, InputFirst}
      BY <1>8 DEF StartEnd, InputWithin, InputAfter, InputFirst
    <3> QED  BY <1>1, <1>8, <2>2, <3>1 DEF Doubted
  <2>5. Announced'  BY <1>1, <2>1, <2>2, <2>4 DEF Announced
  <2>6. PasteKnown'  BY <1>1, <1>8, <2>2 DEF PasteKnown
  <2> QED  BY <2>2, <2>3, <2>4, <2>5, <2>6 DEF Result, KeysTyped
<1>9. CASE /\ path = "composition" /\ composing /\ count = 0
           /\ way = InputWithin /\ pending = <<"beforeinput", "compositionend">>
  <2>1. Keys!BeforeInput(t) /\ pending' = <<"compositionend">>
    BY <1>1, <1>9, Handlers, Lists
  <2>2. UNCHANGED <<lastKeyDown, lastBeforeInput, lastComposition, lastPaste, composing,
                    count>>
    BY <1>9, <2>1 DEF Keys!BeforeInput, Keys!records, Keys!SendsNot
  <2>3. Effect  BY <2>2 DEF Effect
  <2>4. Announced'  BY <1>1, <1>9, <2>1, <2>2 DEF Announced
  <2>5. PasteKnown'  BY <1>1, <1>9, <2>2 DEF PasteKnown
  <2> QED  BY <1>2, <2>2, <2>3, <2>4, <2>5 DEF Result, KeysTyped
<1>10. CASE /\ path = "composition" /\ composing /\ count = 0
            /\ way = InputAfter /\ pending = <<"compositionend", "beforeinput">>
  <2>1. Keys!CompositionEnd(t) /\ pending' = <<"beforeinput">>
    BY <1>1, <1>10, Handlers, Lists
  <2>2. /\ UNCHANGED <<lastPaste, lastKeyDown>> /\ composing' = FALSE
        /\ \/ /\ Tells(lastBeforeInput, t) /\ count' = count
              /\ lastBeforeInput' = Keys!Blank /\ lastComposition' = lastComposition
           \/ /\ ~Tells(lastBeforeInput, t) /\ count' = count + 1
              /\ lastComposition' = [text |-> t, age |-> 0]
              /\ lastBeforeInput' = lastBeforeInput
    BY <1>10, <2>1, EndEffect
  <2>3. Effect  BY <1>10, <2>2 DEF Effect
  <2>4. count' \in {0, 1} /\ (count' = 1 <=> Tells(lastComposition', t))
    <3>1. Tells(lastBeforeInput, t) => ~Tells(lastComposition, t)
      BY <1>2 DEF Recorded
    <3>2. lastComposition' = [text |-> t, age |-> 0] => Tells(lastComposition', t)
      BY KeysAssumption DEF Tells
    <3> QED  BY <1>10, <2>2, <3>1, <3>2
  <2>5. Announced'  BY <1>1, <1>10, <2>1, <2>2, <2>4 DEF Announced
  <2>6. PasteKnown'  BY <1>1, <1>10, <2>2 DEF PasteKnown
  <2> QED  BY <2>2, <2>3, <2>4, <2>5, <2>6 DEF Result, KeysTyped
<1>11. CASE /\ path = "composition" /\ way = InputAfter /\ ~composing
            /\ pending = <<"beforeinput">>
            /\ count = 1 <=> Tells(lastComposition, t)
  <2>1. Keys!BeforeInput(t) /\ pending' = <<>>
    BY <1>1, <1>11, Handlers, Lists
  <2>2. t # Keys!Enter /\ t \in Keyed
    BY <1>2, <1>11, KeysAssumption
  <2>3. /\ lastPaste' = lastPaste /\ composing' = FALSE
        /\ lastKeyDown' \in {lastKeyDown, Keys!Blank}
    BY <1>11, <2>1, <2>2, InputEffect
  <2>4. \/ Tells(lastKeyDown, t) /\ count' = count
             /\ UNCHANGED <<lastBeforeInput, lastComposition>>
        \/ Tells(lastComposition, t) /\ count' = count
             /\ lastComposition' = Keys!Blank /\ lastBeforeInput' = lastBeforeInput
        \/ /\ ~Tells(lastComposition, t) /\ count' = count + 1
           /\ lastComposition' = lastComposition
           /\ lastBeforeInput' = [text |-> t, age |-> 0]
    BY <1>11, <2>1, <2>2, InputEffect
  <2>5. Effect  BY <1>11, <2>2, <2>3, <2>4 DEF Effect
  <2>6. count' = 1 \/ (count' = 0 /\ doing.doubtful)
    BY <1>1, <1>2, <1>11, <2>4 DEF Doubted
  <2>7. Announced'  BY <1>1, <2>1, <2>3, <2>6 DEF Announced
  <2>8. PasteKnown'  BY <1>1, <1>11, <2>3 DEF PasteKnown
  <2> QED  BY <2>3, <2>5, <2>6, <2>7, <2>8 DEF Result, KeysTyped
<1>12. CASE /\ path = "composition" /\ way = InputFirst /\ ~composing
            /\ pending = <<"compositionend">>
            /\ count = 1 => Tells(lastBeforeInput, t)
            /\ count = 0 => doing.doubtful \/ ~Tells(lastBeforeInput, t)
  <2>1. Keys!CompositionEnd(t) /\ pending' = <<>>
    BY <1>1, <1>12, Handlers, Lists
  <2>2. /\ UNCHANGED <<lastPaste, lastKeyDown>> /\ composing' = FALSE
        /\ \/ /\ Tells(lastBeforeInput, t) /\ count' = count
              /\ lastBeforeInput' = Keys!Blank /\ lastComposition' = lastComposition
           \/ /\ ~Tells(lastBeforeInput, t) /\ count' = count + 1
              /\ lastComposition' = [text |-> t, age |-> 0]
              /\ lastBeforeInput' = lastBeforeInput
    BY <2>1, EndEffect
  <2>3. Effect  BY <1>12, <2>2 DEF Effect
  <2>4. count' = 1 \/ (count' = 0 /\ doing.doubtful)
    BY <1>2, <1>12, <2>2
  <2>5. Announced'  BY <1>1, <2>1, <2>2, <2>4 DEF Announced
  <2>6. PasteKnown'  BY <1>1, <1>12, <2>2 DEF PasteKnown
  <2> QED  BY <2>2, <2>3, <2>4, <2>5, <2>6 DEF Result, KeysTyped
<1>13. CASE /\ path = "paste" /\ ~composing /\ count = 0
            /\ \/ pending = browser.paste
               \/ /\ browser.paste = <<"ctrl-v", "paste", "insertFromPaste">>
                  /\ pending = <<"paste", "insertFromPaste">>
  <2>1. CASE pending = <<"ctrl-v", "paste", "insertFromPaste">>
    <3>1. Keys!KeyDownPaste /\ pending' = <<"paste", "insertFromPaste">>
      BY <1>1, <2>1, Handlers, Lists
    <3>2. UNCHANGED <<lastKeyDown, lastBeforeInput, lastComposition, lastPaste,
                      composing, count>>
      BY <3>1 DEF Keys!KeyDownPaste, Keys!records
    <3>3. Effect  BY <3>2 DEF Effect
    <3>4. browser.paste = <<"ctrl-v", "paste", "insertFromPaste">>
      BY <1>13, <2>1, Lists
    <3>5. Announced'  BY <1>1, <1>13, <3>1, <3>2, <3>4 DEF Announced
    <3>6. ~(lastPaste.age < Window)
      BY <2>1, <3>4, Lists DEF PasteKnown
    <3>7. PasteKnown'  BY <3>2, <3>6 DEF PasteKnown
    <3> QED  BY <1>2, <3>2, <3>3, <3>5, <3>7 DEF Result, KeysTyped
  <2>2. CASE pending # <<"ctrl-v", "paste", "insertFromPaste">>
    <3>1. \E from \in {"paste", "beforeinput"} :
            /\ Keys!Paste(t, from)
            /\ lastPaste.age < Window => lastPaste.from = from
            /\ \/ browser.paste = <<"paste">> /\ from = "paste" /\ pending' = <<>>
               \/ /\ browser.paste = <<"insertFromPaste">> /\ from = "beforeinput"
                  /\ pending' = <<>>
               \/ /\ browser.paste = <<"insertFromPaste", "paste">>
                  /\ from = "beforeinput" /\ pending' = <<"paste">>
               \/ /\ browser.paste = <<"ctrl-v", "paste", "insertFromPaste">>
                  /\ from = "paste" /\ pending' = <<"insertFromPaste">>
      <4>1. CASE browser.paste = <<"paste">>
        BY <1>1, <1>13, <4>1, Handlers, Lists DEF PasteKnown
      <4>2. CASE browser.paste = <<"insertFromPaste">>
        BY <1>1, <1>13, <4>2, Handlers, Lists DEF PasteKnown
      <4>3. CASE browser.paste = <<"insertFromPaste", "paste">>
        <5>1. pending = browser.paste  BY <1>13, <4>3, Lists
        <5>2. ~(lastPaste.age < Window)
          BY <4>3, <5>1, Lists DEF PasteKnown
        <5> QED  BY <1>1, <1>13, <4>3, <5>1, <5>2, Handlers, Lists
      <4>4. CASE browser.paste = <<"ctrl-v", "paste", "insertFromPaste">>
        <5>1. pending = <<"paste", "insertFromPaste">>
          BY <1>13, <2>2, <4>4
        <5>2. ~(lastPaste.age < Window)
          BY <4>4, <5>1, Lists DEF PasteKnown
        <5> QED  BY <1>1, <1>13, <4>4, <5>1, <5>2, Handlers, Lists
      <4> QED  BY <4>1, <4>2, <4>3, <4>4, Ways
    <3>2. PICK from \in {"paste", "beforeinput"} :
            /\ Keys!Paste(t, from)
            /\ lastPaste.age < Window => lastPaste.from = from
            /\ \/ browser.paste = <<"paste">> /\ from = "paste" /\ pending' = <<>>
               \/ /\ browser.paste = <<"insertFromPaste">> /\ from = "beforeinput"
                  /\ pending' = <<>>
               \/ /\ browser.paste = <<"insertFromPaste", "paste">>
                  /\ from = "beforeinput" /\ pending' = <<"paste">>
               \/ /\ browser.paste = <<"ctrl-v", "paste", "insertFromPaste">>
                  /\ from = "paste" /\ pending' = <<"insertFromPaste">>
      BY <3>1
    <3>3. /\ UNCHANGED <<lastKeyDown, lastBeforeInput, lastComposition, composing>>
          /\ count' = 1 /\ lastPaste' = [text |-> t, from |-> from, age |-> 0]
      BY <1>13, <3>2, PasteEffect DEF Tells
    <3>4. Effect  BY <3>3 DEF Effect
    <3>5. Tells(lastPaste', t)  BY <3>3, KeysAssumption DEF Tells
    <3>6. Announced'  BY <1>1, <1>13, <3>2, <3>3, <3>5 DEF Announced
    <3>7. PasteKnown'  BY <1>1, <1>13, <3>2, <3>3, Lists DEF PasteKnown
    <3>8. lastPaste' \in [text : Texts \cup {Keys!Nothing},
                          from : {"paste", "beforeinput", Keys!Nothing}, age : Ages]
      BY <1>2, <1>13, <3>3, KeysAssumption DEF Ages
    <3> QED  BY <1>2, <3>3, <3>4, <3>6, <3>7, <3>8 DEF Result
  <2> QED  BY <2>1, <2>2
<1>14. CASE /\ path = "paste" /\ ~composing /\ count = 1 /\ Tells(lastPaste, t)
            /\ \/ pending = <<"insertFromPaste">> /\ lastPaste.from = "paste"
               \/ pending = <<"paste">> /\ lastPaste.from = "beforeinput"
  <2>1. /\ pending' = <<>>
        /\ \E from : Keys!Paste(t, from) /\ lastPaste.from # from
    BY <1>1, <1>14, Handlers, Lists
  <2>2. /\ UNCHANGED <<lastKeyDown, lastBeforeInput, lastComposition, composing>>
        /\ count' = 1
        /\ lastPaste' = [text |-> Keys!Nothing, from |-> Keys!Nothing, age |-> Window]
    BY <1>14, <2>1, PasteEffect
  <2>3. Effect  BY <2>2 DEF Effect
  <2>4. Announced'  BY <1>1, <1>14, <2>1, <2>2 DEF Announced
  <2>5. PasteKnown'  BY <2>2, KeysAssumption DEF PasteKnown
  <2>6. lastPaste' \in [text : Texts \cup {Keys!Nothing},
                        from : {"paste", "beforeinput", Keys!Nothing}, age : Ages]
    BY <2>2, KeysAssumption DEF Ages
  <2> QED  BY <1>2, <2>2, <2>3, <2>4, <2>5, <2>6 DEF Result
<1>15. Result
  <2>1. CASE pending = browser[path] /\ ~composing /\ count = 0
    BY <2>1, <1>2, <1>3, <1>5, <1>6, <1>7, <1>13 DEF Paths, Keys!Paths
  <2>2. CASE ~(pending = browser[path] /\ ~composing /\ count = 0)
    BY <2>2, <1>1, <1>4, <1>8, <1>9, <1>10, <1>11, <1>12, <1>13, <1>14 DEF Announced
  <2> QED  BY <2>1, <2>2
<1> QED  BY <1>15

(* An event of the browser. *)
LEMMA EventKeeps ==
  ASSUME KeysInv, Keys!Event
  PROVE  KeysInv'
<1> USE DEF KeysInv
<1> DEFINE t == doing.text
           path == doing.path
           now == [text |-> t, age |-> 0]
<1>1. /\ Effect /\ Announced' /\ PasteKnown'
      /\ count' \in {0, 1} /\ composing' \in BOOLEAN
      /\ lastPaste' \in [text : Texts \cup {Keys!Nothing},
                         from : {"paste", "beforeinput", Keys!Nothing}, age : Ages]
  BY EventEffect
<1>2. /\ pending # <<>> /\ UNCHANGED <<browser, doing>>
      /\ recent' = [recent EXCEPT ![<<t, path>>] = 0]
  BY DEF Keys!Event
<1>3. /\ t \in Keyed /\ path \in Paths
      /\ recent \in [Keyed \X Paths -> Ages]
      /\ \A k \in Keyed \X Paths : recent[k] \in Nat
      /\ 0 \in Ages /\ 0 < Window /\ Window \in Nat
  BY KeysAssumption DEF KeysTyped, Ages
<1>4. /\ recent' \in [Keyed \X Paths -> Ages]
      /\ recent'[<<t, path>>] = 0
      /\ \A k \in Keyed \X Paths : recent'[k] = recent[k] \/ recent'[k] = 0
  BY <1>2, <1>3
<1>5. /\ {"key", "input", "composition"} \subseteq Paths
      /\ \A x : ~Tells(Keys!Blank, x)
      /\ \A x : Tells(now, x) <=> x = t
  BY <1>3 DEF Paths, Keys!Paths, Tells, Keys!Blank
<1>6. KeysTyped'
  <2>1. Keys!Blank \in [text : Keyed \cup {Keys!Nothing}, age : Ages]
    BY <1>3 DEF Keys!Blank, Ages
  <2>2. now \in [text : Keyed \cup {Keys!Nothing}, age : Ages]
    BY <1>3
  <2>3. \A r \in {lastKeyDown', lastBeforeInput', lastComposition'} :
          r \in [text : Keyed \cup {Keys!Nothing}, age : Ages]
    BY <1>1, <2>1, <2>2 DEF Effect, KeysTyped
  <2> QED  BY <1>1, <1>2, <1>4, <2>3 DEF KeysTyped
<1>7. Recorded'
  <2> SUFFICES ASSUME NEW x \in Keyed
               PROVE
       /\ Tells(lastKeyDown', x) => recent'[<<x, "key">>] <= lastKeyDown'.age
       /\ Tells(lastComposition', x) =>
            /\ x # Keys!Enter
            /\ recent'[<<x, "composition">>] <= lastComposition'.age
            /\ ~Tells(lastBeforeInput', x)
       /\ Tells(lastBeforeInput', x) =>
            /\ x # Keys!Enter
            /\ \/ recent'[<<x, "input">>] <= lastBeforeInput'.age
               \/ browser.composition \in {InputAfter, InputFirst}
    BY <1>2 DEF Recorded
  <2>0. /\ <<x, "key">> \in Keyed \X Paths /\ <<x, "input">> \in Keyed \X Paths
        /\ <<x, "composition">> \in Keyed \X Paths
        /\ \A r \in {lastKeyDown, lastBeforeInput, lastComposition} : r.age \in Nat
    BY <1>3, <1>5 DEF KeysTyped, Ages
  <2>00. path = "composition" => t # Keys!Enter
    BY DEF KeysTyped
  <2>1. Tells(lastKeyDown', x) => recent'[<<x, "key">>] <= lastKeyDown'.age
    <3>1. CASE lastKeyDown' = lastKeyDown
      BY <3>1, <2>0, <1>4 DEF Recorded
    <3>2. CASE lastKeyDown' = Keys!Blank  BY <3>2, <1>5
    <3>3. CASE path = "key" /\ lastKeyDown' = now
      BY <3>3, <1>4, <1>5
    <3> QED  BY <1>1, <3>1, <3>2, <3>3 DEF Effect
  <2>2. Tells(lastComposition', x) =>
            /\ x # Keys!Enter
            /\ recent'[<<x, "composition">>] <= lastComposition'.age
    <3>1. CASE lastComposition' = lastComposition
      BY <3>1, <2>0, <1>4 DEF Recorded
    <3>2. CASE lastComposition' = Keys!Blank  BY <3>2, <1>5
    <3>3. CASE path = "composition" /\ lastComposition' = now
      BY <3>3, <2>00, <1>4, <1>5
    <3> QED  BY <1>1, <3>1, <3>2, <3>3 DEF Effect
  <2>3. Tells(lastBeforeInput', x) =>
            /\ x # Keys!Enter
            /\ \/ recent'[<<x, "input">>] <= lastBeforeInput'.age
               \/ browser.composition \in {InputAfter, InputFirst}
    <3>1. CASE lastBeforeInput' = lastBeforeInput
      BY <3>1, <2>0, <1>4 DEF Recorded
    <3>2. CASE lastBeforeInput' = Keys!Blank  BY <3>2, <1>5
    <3>3. CASE /\ t # Keys!Enter /\ lastBeforeInput' = now
               /\ \/ path = "input"
                  \/ /\ path = "composition"
                     /\ browser.composition \in {InputAfter, InputFirst}
      BY <3>3, <1>4, <1>5
    <3> QED  BY <1>1, <3>1, <3>2, <3>3 DEF Effect
  <2>4. ~(Tells(lastComposition', x) /\ Tells(lastBeforeInput', x))
    <3>1. ~(Tells(lastComposition, x) /\ Tells(lastBeforeInput, x))
      BY DEF Recorded
    <3> QED  BY <1>1, <1>5, <3>1 DEF Effect
  <2> QED  BY <2>1, <2>2, <2>3, <2>4
<1>8. Doubted'
  <2>1. Tells(lastKeyDown', t) => path = "key" \/ doing.doubtful
    BY <1>1, <1>2, <1>5 DEF Effect, Doubted
  <2>2. Tells(lastComposition', t) => path = "composition" \/ doing.doubtful
    BY <1>1, <1>2, <1>5 DEF Effect, Doubted
  <2>3. Tells(lastBeforeInput', t) /\ path = "composition" =>
          browser.composition \in {InputAfter, InputFirst} \/ doing.doubtful
    BY <1>1, <1>2, <1>5 DEF Effect, Doubted
  <2> QED  BY <1>2, <2>1, <2>2, <2>3 DEF Doubted
<1> QED  BY <1>1, <1>6, <1>7, <1>8

(* The user does the next thing. *)
LEMMA DoKeeps ==
  ASSUME KeysInv, NEW t \in Texts \cup {Keys!Enter}, NEW p \in Keys!Paths,
         Keys!Do(t, p)
  PROVE  KeysInv'
<1> USE DEF KeysInv
<1> DEFINE doubt == \E q \in Keys!Paths \ {p} : recent[<<t, q>>] < Window
<1>1. /\ pending = <<>> /\ (t = Keys!Enter => p \in {"key", "input"})
      /\ doing' = [text |-> t, path |-> p, doubtful |-> doubt]
      /\ pending' = browser[p] /\ count' = 0
      /\ UNCHANGED <<lastKeyDown, lastBeforeInput, lastComposition, lastPaste,
                     composing, browser, recent>>
  BY DEF Keys!Do, Keys!records
<1>2. doubt \in BOOLEAN  OBVIOUS
<1>3. KeysTyped'
  BY <1>1, <1>2 DEF KeysTyped, Keyed, Paths
<1>4. Recorded'
  BY <1>1 DEF Recorded
<1>5. Doubted'
  <2>1. \A q \in Paths : q # p /\ recent[<<t, q>>] < Window => doubt
    BY DEF Paths
  <2>2. /\ \A q \in Paths : recent[<<t, q>>] \in Nat
        /\ \A r \in {lastKeyDown, lastBeforeInput, lastComposition} : r.age \in Nat
        /\ {"key", "input", "composition"} \subseteq Paths /\ Window \in Nat
        /\ t \in Keyed
    BY KeysAssumption DEF KeysTyped, Ages, Keyed, Paths, Keys!Paths
  <2> HIDE DEF doubt
  <2>3. Tells(lastKeyDown, t) => p = "key" \/ doubt
    <3>1. Tells(lastKeyDown, t) => recent[<<t, "key">>] < Window
      <4>1. recent[<<t, "key">>] \in Nat /\ lastKeyDown.age \in Nat  BY <2>2
      <4>2. Tells(lastKeyDown, t) => recent[<<t, "key">>] <= lastKeyDown.age
        BY <2>2 DEF Recorded
      <4>3. Tells(lastKeyDown, t) => lastKeyDown.age < Window  BY DEF Tells
      <4> QED  BY <2>2, <4>1, <4>2, <4>3
    <3> QED  BY <2>1, <2>2, <3>1
  <2>4. Tells(lastComposition, t) => p = "composition" \/ doubt
    <3>1. Tells(lastComposition, t) => recent[<<t, "composition">>] < Window
      <4>1. recent[<<t, "composition">>] \in Nat /\ lastComposition.age \in Nat  BY <2>2
      <4>2. Tells(lastComposition, t) => recent[<<t, "composition">>] <= lastComposition.age
        BY <2>2 DEF Recorded
      <4>3. Tells(lastComposition, t) => lastComposition.age < Window  BY DEF Tells
      <4> QED  BY <2>2, <4>1, <4>2, <4>3
    <3> QED  BY <2>1, <2>2, <3>1
  <2>5. Tells(lastBeforeInput, t) /\ p = "composition" =>
          browser.composition \in {InputAfter, InputFirst} \/ doubt
    <3>1. Tells(lastBeforeInput, t) => \/ recent[<<t, "input">>] < Window
                                       \/ browser.composition \in {InputAfter, InputFirst}
      <4>1. recent[<<t, "input">>] \in Nat /\ lastBeforeInput.age \in Nat  BY <2>2
      <4>2. Tells(lastBeforeInput, t) =>
              \/ recent[<<t, "input">>] <= lastBeforeInput.age
              \/ browser.composition \in {InputAfter, InputFirst}
        BY <2>2 DEF Recorded
      <4>3. Tells(lastBeforeInput, t) => lastBeforeInput.age < Window  BY DEF Tells
      <4> QED  BY <2>2, <4>1, <4>2, <4>3
    <3> QED  BY <2>1, <2>2, <3>1
  <2> QED  BY <1>1, <2>3, <2>4, <2>5 DEF Doubted
<1>6. Announced'
  <2>1. ~composing  BY <1>1, Lists DEF Announced
  <2> QED  BY <1>1, <2>1 DEF Announced
<1>7. PasteKnown'
  <2>1. lastPaste.age < Window =>
          \/ browser.paste = <<"paste">> /\ lastPaste.from = "paste"
          \/ browser.paste = <<"insertFromPaste">> /\ lastPaste.from = "beforeinput"
    <3>1. Len(pending) # 1
      <4>1. Len(<<>>) = 0  OBVIOUS
      <4> QED  BY <1>1, <4>1
    <3> QED  BY <3>1 DEF PasteKnown
  <2> QED  BY <1>1, <2>1 DEF PasteKnown
<1> QED  BY <1>3, <1>4, <1>5, <1>6, <1>7

(* A record grows older by a tick, until it is forgotten. *)
LEMMA OlderRecord ==
  ASSUME NEW r, r.age \in Ages
  PROVE  /\ Keys!Older(r) = r \/ Keys!Older(r) = [r EXCEPT !.age = r.age + 1]
         /\ Keys!Older(r) # r => r.age + 1 \in Ages
         /\ r.age < Window => Keys!Older(r) = [r EXCEPT !.age = r.age + 1]
  BY KeysAssumption DEF Keys!Older, Keys!Fresh, Ages

(* What an older record tells, it told before; it has aged by one. *)
LEMMA OlderTells ==
  ASSUME NEW X, NEW r \in [text : X, age : Ages]
  PROVE  /\ Keys!Older(r) \in [text : X, age : Ages]
         /\ \A t : Tells(Keys!Older(r), t) =>
                   Tells(r, t) /\ Keys!Older(r).age = r.age + 1
<1>1. r.age \in Int /\ r.age \in Ages /\ Window \in Nat
  BY KeysAssumption DEF Ages
<1>2. CASE r.age < Window
  <2>1. Keys!Older(r) = [r EXCEPT !.age = r.age + 1]
    BY <1>1, <1>2, OlderRecord
  <2>2. r.age + 1 \in Ages  BY <1>1, <1>2 DEF Ages
  <2> QED  BY <1>1, <1>2, <2>1, <2>2 DEF Tells
<1>3. CASE ~(r.age < Window)
  <2>1. Keys!Older(r) = r  BY <1>3 DEF Keys!Older, Keys!Fresh
  <2> QED  BY <1>3, <2>1 DEF Tells
<1> QED  BY <1>2, <1>3

(* Time passes. *)
LEMMA TickKeeps ==
  ASSUME KeysInv, Keys!Tick
  PROVE  KeysInv'
<1> USE DEF KeysInv
<1>1. /\ pending = <<>> \/ composing
      /\ lastKeyDown' = Keys!Older(lastKeyDown)
      /\ lastBeforeInput' = Keys!Older(lastBeforeInput)
      /\ lastComposition' = Keys!Older(lastComposition)
      /\ lastPaste' = Keys!Older(lastPaste)
      /\ recent' = [k \in DOMAIN recent |-> IF recent[k] < Window THEN recent[k] + 1
                                            ELSE Window]
      /\ UNCHANGED <<composing, browser, pending, doing, count>>
  BY DEF Keys!Tick
<1> DEFINE X == Keyed \cup {Keys!Nothing}
<1>2. \A r \in {lastKeyDown, lastBeforeInput, lastComposition} :
        /\ Keys!Older(r) \in [text : X, age : Ages]
        /\ \A t : Tells(Keys!Older(r), t) =>
                  Tells(r, t) /\ Keys!Older(r).age = r.age + 1
  BY OlderTells DEF KeysTyped
<1>3. /\ lastPaste' \in [text : Texts \cup {Keys!Nothing},
                          from : {"paste", "beforeinput", Keys!Nothing}, age : Ages]
      /\ lastPaste'.age < Window => lastPaste.age < Window
      /\ lastPaste'.from = lastPaste.from
  <2>1. lastPaste.age \in Ages /\ lastPaste.age \in Int
    BY KeysAssumption DEF KeysTyped, Ages
  <2>2. CASE lastPaste.age < Window
    <3>1. lastPaste' = [lastPaste EXCEPT !.age = lastPaste.age + 1]
      BY <1>1, <2>1, <2>2, OlderRecord
    <3>2. lastPaste.age + 1 \in Ages  BY <2>1, <2>2, KeysAssumption DEF Ages
    <3> QED  BY <2>2, <3>1, <3>2 DEF KeysTyped
  <2>3. CASE ~(lastPaste.age < Window)
    BY <1>1, <2>3 DEF Keys!Older, Keys!Fresh, KeysTyped
  <2> QED  BY <2>2, <2>3
<1>4. /\ recent' \in [Keyed \X Paths -> Ages]
      /\ \A k \in Keyed \X Paths : recent'[k] <= recent[k] + 1
  <2>1. /\ recent \in [Keyed \X Paths -> Ages] /\ DOMAIN recent = Keyed \X Paths
        /\ \A k \in Keyed \X Paths : recent[k] \in Int /\ 0 <= recent[k]
                                      /\ recent[k] <= Window
    BY KeysAssumption DEF KeysTyped, Ages
  <2>2. \A k \in Keyed \X Paths :
          (IF recent[k] < Window THEN recent[k] + 1 ELSE Window) \in Ages
    BY <2>1, KeysAssumption DEF Ages
  <2> QED  BY <1>1, <2>1, <2>2, KeysAssumption
<1>5. KeysTyped'
  BY <1>1, <1>2, <1>3, <1>4 DEF KeysTyped
<1>6. Recorded'
  <2> SUFFICES ASSUME NEW t \in Keyed
               PROVE
       /\ Tells(lastKeyDown', t) => recent'[<<t, "key">>] <= lastKeyDown'.age
       /\ Tells(lastComposition', t) =>
            /\ t # Keys!Enter
            /\ recent'[<<t, "composition">>] <= lastComposition'.age
            /\ ~Tells(lastBeforeInput', t)
       /\ Tells(lastBeforeInput', t) =>
            /\ t # Keys!Enter
            /\ \/ recent'[<<t, "input">>] <= lastBeforeInput'.age
               \/ browser.composition \in {InputAfter, InputFirst}
    BY <1>1 DEF Recorded
  <2>1. \A p \in {"key", "composition", "input"} :
          /\ recent'[<<t, p>>] <= recent[<<t, p>>] + 1
          /\ recent[<<t, p>>] \in Int /\ recent'[<<t, p>>] \in Int
    BY <1>4, KeysAssumption DEF Paths, Keys!Paths, KeysTyped, Ages
  <2>2. \A r \in {lastKeyDown, lastBeforeInput, lastComposition} : r.age \in Int
    BY KeysAssumption DEF KeysTyped, Ages
  <2>3. Tells(lastKeyDown', t) => recent'[<<t, "key">>] <= lastKeyDown'.age
    BY <1>1, <1>2, <2>1, <2>2 DEF Recorded
  <2>4. Tells(lastComposition', t) =>
            /\ t # Keys!Enter
            /\ recent'[<<t, "composition">>] <= lastComposition'.age
            /\ ~Tells(lastBeforeInput', t)
    BY <1>1, <1>2, <2>1, <2>2 DEF Recorded
  <2>5. Tells(lastBeforeInput', t) =>
            /\ t # Keys!Enter
            /\ \/ recent'[<<t, "input">>] <= lastBeforeInput'.age
               \/ browser.composition \in {InputAfter, InputFirst}
    BY <1>1, <1>2, <2>1, <2>2 DEF Recorded
  <2> QED  BY <2>3, <2>4, <2>5
<1>7. Doubted'
  BY <1>1, <1>2 DEF Doubted
<1>8. Announced'
  BY <1>1, Lists DEF Announced
<1>9. PasteKnown'
  BY <1>1, <1>3 DEF PasteKnown
<1> QED  BY <1>5, <1>6, <1>7, <1>8, <1>9

LEMMA KeysStart == Keys!Init => KeysInv
<1> SUFFICES ASSUME Keys!Init PROVE KeysInv
  OBVIOUS
<1>1. /\ lastKeyDown = Keys!Blank /\ lastBeforeInput = Keys!Blank
      /\ lastComposition = Keys!Blank
      /\ lastPaste = [text |-> Keys!Nothing, from |-> Keys!Nothing, age |-> Window]
      /\ composing = FALSE /\ browser \in Keys!Announcements
      /\ pending = <<>> /\ count = 1
      /\ doing = [text |-> Keys!Enter, path |-> "key", doubtful |-> FALSE]
      /\ recent = [k \in (Texts \cup {Keys!Enter}) \X Keys!Paths |-> Window]
  BY DEF Keys!Init
<1>2. Window \in Nat /\ Window \in Ages /\ ~(Window < Window)
  BY KeysAssumption DEF Ages
<1>3. \A t : ~Tells(Keys!Blank, t)
  BY <1>2 DEF Tells, Keys!Blank
<1>4. Keys!Blank \in [text : Keyed \cup {Keys!Nothing}, age : Ages]
  BY <1>2 DEF Keys!Blank
<1>5. recent \in [Keyed \X Paths -> Ages]
  BY <1>1, <1>2 DEF Keyed, Paths
<1>6. KeysTyped
  BY <1>1, <1>2, <1>4, <1>5 DEF KeysTyped, Keyed, Paths, Keys!Paths
<1>7. Recorded  BY <1>1, <1>3 DEF Recorded
<1>8. Doubted /\ Announced  BY <1>1 DEF Doubted, Announced
<1>9. PasteKnown  BY <1>1, <1>2 DEF PasteKnown
<1> QED  BY <1>6, <1>7, <1>8, <1>9 DEF KeysInv

(* The invariant of the keyboard holds whichever events the browser has for
   what the user does, for any texts and any window. *)
THEOREM KeysInvariance == UserSpec => []KeysInv
<1>1. UserInit => KeysInv
  BY KeysStart DEF UserInit
<1>2. KeysInv /\ [UserNext]_<<device, pointerVars, keyVars>> => KeysInv'
  <2> SUFFICES ASSUME KeysInv, [UserNext]_<<device, pointerVars, keyVars>>
               PROVE  KeysInv'
    OBVIOUS
  <2>1. CASE Keys!Next
    <3>1. ASSUME NEW t \in Texts \cup {Keys!Enter}, NEW p \in Keys!Paths,
                 Keys!Do(t, p)
          PROVE  KeysInv'
      BY <3>1, DoKeeps
    <3>2. CASE Keys!Event  BY <3>2, EventKeeps
    <3>3. CASE Keys!Tick  BY <3>3, TickKeeps
    <3> QED  BY <2>1, <3>1, <3>2, <3>3 DEF Keys!Next
  <2>2. CASE UNCHANGED keyVars
    <3>1. UNCHANGED <<lastKeyDown, lastBeforeInput, lastComposition, lastPaste,
                      composing, browser, pending, doing, count, recent>>
      BY <2>2 DEF keyVars
    <3>2. KeysTyped' /\ Recorded'  BY <3>1 DEF KeysInv, KeysTyped, Recorded
    <3>3. Doubted' /\ Announced'  BY <3>1 DEF KeysInv, Doubted, Announced
    <3>4. PasteKnown'  BY <3>1 DEF KeysInv, PasteKnown
    <3> QED  BY <3>2, <3>3, <3>4 DEF KeysInv
  <2> QED  BY <2>1, <2>2 DEF UserNext
<1> QED  BY <1>1, <1>2, PTL DEF UserSpec

(* What the user types, composes or pastes reaches the program once, or its
   text came by another path within the window (SentOnce). *)
THEOREM OnceSent == UserSpec => []SentOnce
<1>1. KeysInv => SentOnce
  <2> SUFFICES ASSUME KeysInv, pending = <<>>
               PROVE  count = 1 \/ (count = 0 /\ doing.doubtful)
    BY DEF SentOnce, Keys!OnceEach
  <2>1. browser[doing.path] # <<>>
    BY Ways, Lists DEF KeysInv, KeysTyped, Paths, Keys!Paths, StartEnd, InputWithin,
       InputAfter, InputFirst
  <2>2. count = 1 \/ doing.doubtful
    BY <2>1, Lists DEF KeysInv, Announced
  <2> QED  BY <2>2 DEF KeysInv, KeysTyped
<1> QED  BY <1>1, KeysInvariance, PTL
===============================================================================
