--------------------------- MODULE EngineHeap_proofs ---------------------------
(***************************************************************************)
(* Proofs about EngineHeap.  A path is safe when states can be put between *)
(* its steps so that each step finds what it needs in the state before it  *)
(* and makes the one after it (Leads).  What the paths of a method do to   *)
(* the memory then follows from what those of its parts do: most leave it  *)
(* as they found it (Neutral), the others end in one of a few states       *)
(* (Goes), and whatever is called and whatever fails, nothing is left over *)
(* at the end (Safe).  The invariant says that what is left of the path    *)
(* that runs is safe from the state as it is.                              *)
(***************************************************************************)
EXTENDS EngineHeap, Integers, TLAPS

-----------------------------------------------------------------------------
(* What a step needs and what it does. *)

Acts == {"get", "put", "put if held", "engine", "field", "look", "use", "becomes"}
Objects == {"none", "live", "freed"}
Views == {"memory", "rgb", "colors", "limit", "row", "codepoints", "style", "uri", "answer",
          "report", "size", "pixels", "placement", "scroll", "image"}

(* What a method takes and gives back before it returns. *)
Passing ==
  {"option", "text", "slot", "color", "palette", "limit", "lines", "mode", "medium", "out",
   "mode slot", "bound", "dirty", "raw", "wrap", "option value", "row value",
   "long grapheme", "length", "style", "cell", "wide", "grapheme", "point", "ref",
   "codepoint", "input", "pixels", "graphics", "pixel slot"}

Blocks == OfKeys \cup ImageParts \cup {"terminal", "route"} \cup Handles \cup Passing

Moves == [act : Acts, of : SUBSET (Blocks \cup Views \cup Objects)]
States == [heap : SUBSET Blocks, fresh : SUBSET Views, object : Objects]
Ends == {"on", "return", "throw"}

(* Between two calls. *)
Kept(h, o) ==
  IF o = "live"
  THEN /\ h \ (OfKeys \cup ImageParts) = {"terminal", "route"} \cup Handles
       /\ h \cap ImageParts \in {{}, ImageParts}
  ELSE h \subseteq OfKeys

(* What a step asks of a state of which fresh are the views that are surely fresh. *)
Fits(m, a) ==
  /\ m.act = "get" => m.of \cap a.heap \subseteq OfKeys
  /\ m.act \in {"put", "engine", "field"} => m.of \subseteq a.heap
  /\ m.act = "use" =>
       \/ m.of \subseteq a.fresh
       \/ m.of \subseteq {"memory"} /\ Kept(a.heap, a.object)

(* The state after it, with no view too many. *)
Makes(m, a, b) ==
  /\ b.heap = CASE m.act = "get" -> a.heap \cup m.of
                [] m.act \in {"put", "put if held"} -> a.heap \ m.of
                [] OTHER -> a.heap
  /\ b.fresh \subseteq CASE m.act \in {"get", "engine"} -> {}
                         [] m.act = "look" -> a.fresh \cup m.of
                         [] OTHER -> a.fresh
  /\ b.object = IF m.act = "becomes" THEN CHOOSE o \in m.of : TRUE ELSE a.object

Passes(c, s) ==
  /\ c \in [0 .. Len(s) -> States]
  /\ \A i \in 1 .. Len(s) : Fits(s[i], c[i - 1]) /\ Makes(s[i], c[i - 1], c[i])

(* The steps can be taken from one state and lead to another one. *)
Leads(s, a, b) ==
  s \in Seq(Moves) /\ \E c : Passes(c, s) /\ c[0] = a /\ c[Len(s)] = b

LEMMA LeadsTyped ==
  ASSUME NEW s, NEW a, NEW b, Leads(s, a, b)
  PROVE  s \in Seq(Moves) /\ a \in States /\ b \in States
<1>1. PICK c : Passes(c, s) /\ c[0] = a /\ c[Len(s)] = b
  BY DEF Leads
<1>2. s \in Seq(Moves) /\ Len(s) \in Nat
  BY DEF Leads
<1>3. 0 \in 0 .. Len(s) /\ Len(s) \in 0 .. Len(s)
  BY <1>2
<1> QED
  BY <1>1, <1>2, <1>3 DEF Passes

LEMMA NoStep ==
  ASSUME NEW a \in States
  PROVE  Leads(<<>>, a, a)
<1> DEFINE c == [i \in 0 .. 0 |-> a]
<1>1. Passes(c, <<>>) /\ c[0] = a /\ c[Len(<<>>)] = a
  BY DEF Passes
<1> QED
  BY <1>1 DEF Leads

LEMMA OneStep ==
  ASSUME NEW act \in Acts, NEW of \in SUBSET (Blocks \cup Views \cup Objects),
         NEW a \in States, NEW b \in States,
         Fits([act |-> act, of |-> of], a), Makes([act |-> act, of |-> of], a, b)
  PROVE  Leads(Step(act, of), a, b)
<1> DEFINE m == [act |-> act, of |-> of]
           c == [i \in 0 .. 1 |-> IF i = 0 THEN a ELSE b]
<1>1. m \in Moves /\ Step(act, of) = <<m>>
  BY DEF Moves, Step
<1>2. <<m>> \in Seq(Moves) /\ Len(<<m>>) = 1 /\ <<m>>[1] = m
  BY <1>1
<1>3. Fits(m, a) /\ Makes(m, a, b)
  OBVIOUS
<1> HIDE DEF m
<1>4. c \in [0 .. 1 -> States] /\ c[0] = a /\ c[1] = b
  OBVIOUS
<1> HIDE DEF c
<1>5. ASSUME NEW i \in 1 .. 1
      PROVE  Fits(<<m>>[i], c[i - 1]) /\ Makes(<<m>>[i], c[i - 1], c[i])
  <2>1. i = 1 /\ i - 1 = 0
    BY <1>5
  <2>2. <<m>>[i] = m /\ c[i - 1] = a /\ c[i] = b
    BY <2>1, <1>2, <1>4
  <2> QED
    BY <2>2, <1>3
<1>6. Passes(c, <<m>>)
  BY <1>2, <1>4, <1>5 DEF Passes
<1> QED
  BY <1>1, <1>2, <1>4, <1>6 DEF Leads

LEMMA Then ==
  ASSUME NEW s, NEW t, NEW a, NEW b, NEW d, Leads(s, a, b), Leads(t, b, d)
  PROVE  Leads(s \o t, a, d)
<1>1. PICK f : Passes(f, s) /\ f[0] = a /\ f[Len(s)] = b
  BY DEF Leads
<1>2. PICK g : Passes(g, t) /\ g[0] = b /\ g[Len(t)] = d
  BY DEF Leads
<1>3. s \in Seq(Moves) /\ t \in Seq(Moves)
  BY DEF Leads
<1> DEFINE m == Len(s)
           n == Len(t)
           c == [i \in 0 .. m + n |-> IF i <= m THEN f[i] ELSE g[i - m]]
<1>4. /\ m \in Nat /\ n \in Nat /\ s \o t \in Seq(Moves) /\ Len(s \o t) = m + n
      /\ \A i \in 1 .. m : (s \o t)[i] = s[i]
      /\ \A i \in m + 1 .. m + n : (s \o t)[i] = t[i - m]
  BY <1>3
<1>5. /\ f \in [0 .. m -> States] /\ g \in [0 .. n -> States]
      /\ \A i \in 1 .. m : Fits(s[i], f[i - 1]) /\ Makes(s[i], f[i - 1], f[i])
      /\ \A i \in 1 .. n : Fits(t[i], g[i - 1]) /\ Makes(t[i], g[i - 1], g[i])
      /\ f[0] = a /\ f[m] = b /\ g[0] = b /\ g[n] = d
  BY <1>1, <1>2 DEF Passes
<1> DEFINE st == s \o t
<1>40. /\ Len(st) = m + n
       /\ \A i \in 1 .. m : st[i] = s[i]
       /\ \A i \in m + 1 .. m + n : st[i] = t[i - m]
  BY <1>4
<1> HIDE DEF m, n, st
<1>6. c \in [0 .. m + n -> States]
  <2> SUFFICES ASSUME NEW i \in 0 .. m + n
               PROVE  (IF i <= m THEN f[i] ELSE g[i - m]) \in States
    OBVIOUS
  <2>1. CASE i <= m
    BY <2>1, <1>4, <1>5
  <2>2. CASE ~(i <= m)
    <3>1. i - m \in 0 .. n
      BY <2>2, <1>4
    <3> QED
      BY <3>1, <2>2, <1>5
  <2> QED
    BY <2>1, <2>2
<1>7. c[0] = a /\ c[m + n] = d
  <2>1. c[0] = f[0]
    BY <1>4
  <2>2. CASE n = 0
    <3>1. c[m + n] = f[m]
      BY <1>4, <2>2
    <3> QED
      BY <2>1, <2>2, <3>1, <1>5
  <2>3. CASE n # 0
    <3>1. c[m + n] = g[(m + n) - m] /\ (m + n) - m = n
      BY <1>4, <2>3
    <3> QED
      BY <2>1, <3>1, <1>5
  <2> QED
    BY <2>2, <2>3
<1>8. ASSUME NEW i \in 1 .. m + n
      PROVE  Fits(st[i], c[i - 1]) /\ Makes(st[i], c[i - 1], c[i])
  <2>1. CASE i <= m
    <3>1. i \in 1 .. m /\ c[i - 1] = f[i - 1] /\ c[i] = f[i]
      BY <1>8, <2>1, <1>4
    <3>2. st[i] = s[i]
      BY <3>1, <1>40
    <3> QED
      BY <3>1, <3>2, <1>5
  <2>2. CASE i > m
    <3>1. i \in m + 1 .. m + n /\ i - m \in 1 .. n
      BY <1>8, <2>2, <1>4
    <3>2. c[i] = g[i - m]
      BY <1>8, <2>2, <1>4
    <3>3. c[i - 1] = g[(i - m) - 1]
      <4>1. CASE i - 1 <= m
        <5>0. i - 1 = m /\ (i - m) - 1 = 0 /\ m \in 0 .. m + n
          BY <4>1, <1>8, <2>2, <1>4
        <5>1. c[i - 1] = f[m]
          BY <5>0
        <5> QED
          BY <5>0, <5>1, <1>5
      <4>2. CASE ~(i - 1 <= m)
        <5>1. c[i - 1] = g[(i - 1) - m] /\ (i - 1) - m = (i - m) - 1
          BY <4>2, <1>8, <1>4
        <5> QED
          BY <5>1
      <4> QED
        BY <4>1, <4>2
    <3>4. st[i] = t[i - m]
      BY <3>1, <1>40
    <3> HIDE DEF c
    <3>5. Fits(t[i - m], g[(i - m) - 1]) /\ Makes(t[i - m], g[(i - m) - 1], g[i - m])
      BY <3>1, <1>5
    <3> QED
      BY <3>2, <3>3, <3>4, <3>5
  <2> QED
    BY <1>8, <1>4, <2>1, <2>2
<1> HIDE DEF c
<1>9. Passes(c, st)
  BY <1>40, <1>6, <1>8 DEF Passes
<1>10. st \in Seq(Moves)
  BY <1>4 DEF st
<1>11. Leads(st, a, d)
  BY <1>7, <1>9, <1>10, <1>40 DEF Leads
<1> QED
  BY <1>11 DEF st

(* The first step of a path, and the others. *)
LEMMA First ==
  ASSUME NEW s, NEW a, NEW d, Leads(s, a, d), s # <<>>
  PROVE  /\ Fits(Head(s), a)
         /\ \E b \in States : Makes(Head(s), a, b) /\ Leads(Tail(s), b, d)
<1>1. PICK c : Passes(c, s) /\ c[0] = a /\ c[Len(s)] = d
  BY DEF Leads
<1>2. s \in Seq(Moves)
  BY DEF Leads
<1> DEFINE n == Len(s)
           t == Tail(s)
           g == [i \in 0 .. n - 1 |-> c[i + 1]]
<1>3. /\ n \in Nat \ {0} /\ Head(s) = s[1] /\ t \in Seq(Moves) /\ Len(t) = n - 1
      /\ \A i \in 1 .. n - 1 : t[i] = s[i + 1]
  BY <1>2
<1>4. /\ c \in [0 .. n -> States] /\ c[0] = a /\ c[n] = d
      /\ \A i \in 1 .. n : Fits(s[i], c[i - 1]) /\ Makes(s[i], c[i - 1], c[i])
  BY <1>1 DEF Passes
<1> HIDE DEF n, t
<1>5. 1 \in 1 .. n /\ 1 - 1 = 0 /\ c[1] \in States
  BY <1>3, <1>4
<1>6. Fits(Head(s), a) /\ Makes(Head(s), a, c[1])
  BY <1>3, <1>4, <1>5
<1>7. g \in [0 .. n - 1 -> States]
  BY <1>3, <1>4
<1>8. ASSUME NEW i \in 1 .. n - 1
      PROVE  Fits(t[i], g[i - 1]) /\ Makes(t[i], g[i - 1], g[i])
  <2>1. i + 1 \in 1 .. n /\ (i + 1) - 1 = i
    BY <1>3, <1>8
  <2>2. g[i - 1] = c[i] /\ g[i] = c[i + 1] /\ t[i] = s[i + 1]
    BY <1>3, <1>8
  <2> HIDE DEF g
  <2>3. Fits(s[i + 1], c[i]) /\ Makes(s[i + 1], c[i], c[i + 1])
    BY <2>1, <1>4
  <2> QED
    BY <2>2, <2>3
<1>9. g[0] = c[1] /\ g[n - 1] = d
  BY <1>3, <1>4
<1> HIDE DEF g
<1>10. Passes(g, t)
  BY <1>3, <1>7, <1>8 DEF Passes
<1>11. Leads(t, c[1], d)
  BY <1>3, <1>9, <1>10 DEF Leads
<1> QED
  BY <1>5, <1>6, <1>11 DEF t

-----------------------------------------------------------------------------
(* What the paths of a method do. *)

Paths == [steps : Seq(Moves), ends : Ends]

(* From a state, each path leads to one of the states that there are for its end. *)
Does(S, a, Q) ==
  \A p \in S : p \in Paths /\ \E b \in Q[p.ends] : Leads(p.steps, a, b)

At(h, o) == [heap |-> h, fresh |-> {}, object |-> o]

(* They leave memory and object as they are, and it does not matter which views
   were fresh. *)
Neutral(S, h, o) ==
  \A p \in S : p \in Paths /\ Leads(p.steps, At(h, o), At(h, o))

LEMMA PathFields ==
  ASSUME NEW p \in Paths
  PROVE  p.steps \in Seq(Moves) /\ p.ends \in Ends
  BY DEF Paths

LEMMA PathsJoined ==
  ASSUME NEW r \in Paths, NEW s \in Seq(Moves), NEW e \in Ends
  PROVE  /\ [r EXCEPT !.steps = @ \o s] = [steps |-> r.steps \o s, ends |-> r.ends]
         /\ [r EXCEPT !.ends = e] = [steps |-> r.steps, ends |-> e]
         /\ [steps |-> r.steps \o s, ends |-> e] \in Paths
         /\ [steps |-> r.steps, ends |-> e] \in Paths
<1>1. r.steps \in Seq(Moves) /\ r.ends \in Ends
  BY DEF Paths
<1>2. r.steps \o s \in Seq(Moves)
  BY <1>1
<1>3. [steps |-> r.steps \o s, ends |-> e] \in Paths
      /\ [steps |-> r.steps, ends |-> e] \in Paths
  BY <1>1, <1>2 DEF Paths
<1>6. r = [steps |-> r.steps, ends |-> r.ends]
  BY DEF Paths
<1> DEFINE long == r.steps \o s
<1> HIDE DEF long
<1>7. [r EXCEPT !.steps = long] = [steps |-> long, ends |-> r.ends]
  BY <1>6
<1>4. [r EXCEPT !.steps = @ \o s] = [steps |-> r.steps \o s, ends |-> r.ends]
  BY <1>7 DEF long
<1>5. [r EXCEPT !.ends = e] = [steps |-> r.steps, ends |-> e]
  BY <1>6
<1> QED
  BY <1>3, <1>4, <1>5

LEMMA Longer ==
  ASSUME NEW r \in Paths, NEW s \in Seq(Moves), NEW p, p = [r EXCEPT !.steps = @ \o s]
  PROVE  p = [steps |-> r.steps \o s, ends |-> r.ends] /\ p \in Paths
<1>1. r.ends \in Ends
  BY PathFields
<1> HIDE DEF Paths
<1>2. [r EXCEPT !.steps = @ \o s] = [steps |-> r.steps \o s, ends |-> r.ends]
  BY <1>1, PathsJoined, Zenon
<1>3. p = [steps |-> r.steps \o s, ends |-> r.ends]
  BY <1>2, Zenon
<1>4. [steps |-> r.steps \o s, ends |-> r.ends] \in Paths
  BY <1>1, PathsJoined, Zenon
<1> QED
  BY <1>3, <1>4

LEMMA DoesThen ==
  ASSUME NEW S, NEW R, NEW a, NEW Q1, NEW Q, Does(S, a, Q1),
         \A b \in Q1["on"] : Does(R, b, Q),
         Q1["return"] \subseteq Q["return"], Q1["throw"] \subseteq Q["throw"]
  PROVE  Does(S ## R, a, Q)
<1> SUFFICES ASSUME NEW p \in S ## R
             PROVE  p \in Paths /\ \E b \in Q[p.ends] : Leads(p.steps, a, b)
  BY DEF Does
<1>1. CASE p \in S /\ p.ends # "on"
  <2>1. p \in Paths /\ \E b \in Q1[p.ends] : Leads(p.steps, a, b)
    BY <1>1 DEF Does
  <2>2. p.ends = "return" \/ p.ends = "throw"
    BY <2>1, <1>1 DEF Ends, Paths
  <2> QED
    BY <2>1, <2>2
<1>2. ASSUME NEW r \in S, r.ends = "on", NEW q \in R,
             p = Joined(r, q)
      PROVE  p \in Paths /\ \E b \in Q[p.ends] : Leads(p.steps, a, b)
  <2>0. r \in Paths /\ \E b \in Q1["on"] : Leads(r.steps, a, b)
    BY <1>2 DEF Does
  <2>1. PICK b \in Q1["on"] : Leads(r.steps, a, b)
    BY <2>0
  <2>2. q \in Paths /\ \E d \in Q[q.ends] : Leads(q.steps, b, d)
    BY <2>1 DEF Does
  <2>3. PICK d \in Q[q.ends] : Leads(q.steps, b, d)
    BY <2>2
  <2>4. Leads(r.steps \o q.steps, a, d)
    BY <2>1, <2>3, Then
  <2>5. p.ends = q.ends /\ p.steps = r.steps \o q.steps
    BY <1>2 DEF Joined
  <2>6. p \in Paths
    BY <1>2, <2>0, <2>2, PathsJoined, PathFields DEF Joined
  <2> QED
    BY <2>3, <2>4, <2>5, <2>6
<1>3. \/ p \in S /\ p.ends # "on"
      \/ \E r \in S : \E q \in R :
           r.ends = "on" /\ p = Joined(r, q)
  BY DEF ##
<1> QED
  BY <1>1, <1>2, <1>3

LEMMA DoesFinally ==
  ASSUME NEW S, NEW s, NEW a, NEW Q1, NEW Q, Does(S, a, Q1), s \in Seq(Moves),
         \A e \in Ends : \A b \in Q1[e] : \E d \in Q[e] : Leads(s, b, d)
  PROVE  Does(Finally(S, s), a, Q)
<1> SUFFICES ASSUME NEW p, NEW r \in S, p = [r EXCEPT !.steps = @ \o s]
             PROVE  p \in Paths /\ \E b \in Q[p.ends] : Leads(p.steps, a, b)
  BY DEF Does, Finally
<1>1. r \in Paths /\ \E b \in Q1[r.ends] : Leads(r.steps, a, b)
  BY DEF Does
<1>0. r \in Paths /\ r.ends \in Ends
  BY <1>1, PathFields
<1>2. p = [steps |-> r.steps \o s, ends |-> r.ends] /\ p \in Paths
  BY <1>0, Longer, Zenon
<1>3. p.ends = r.ends /\ p.steps = r.steps \o s /\ r.ends \in Ends
  BY <1>1, <1>2, PathFields
<1>4. PICK b \in Q1[r.ends] : Leads(r.steps, a, b)
  BY <1>1
<1>5. PICK d \in Q[r.ends] : Leads(s, b, d)
  BY <1>3
<1>6. Leads(r.steps \o s, a, d)
  BY <1>4, <1>5, Then
<1> QED
  BY <1>2, <1>3, <1>6

LEMMA DoesCatch ==
  ASSUME NEW S, NEW s, NEW a, NEW Q1, NEW Q, Does(S, a, Q1), s \in Seq(Moves),
         Q1["on"] \subseteq Q["on"], Q1["return"] \subseteq Q["return"],
         \A b \in Q1["throw"] : \E d \in Q["throw"] : Leads(s, b, d)
  PROVE  Does(Catch(S, s), a, Q)
<1> SUFFICES ASSUME NEW p, NEW r \in S,
                    p = IF r.ends = "throw" THEN [r EXCEPT !.steps = @ \o s] ELSE r
             PROVE  p \in Paths /\ \E b \in Q[p.ends] : Leads(p.steps, a, b)
  BY DEF Does, Catch
<1>1. r \in Paths /\ \E b \in Q1[r.ends] : Leads(r.steps, a, b)
  BY DEF Does
<1>2. CASE r.ends # "throw"
  <2>1. p = r /\ r.ends \in {"on", "return"}
    BY <1>1, <1>2 DEF Paths, Ends
  <2> QED
    BY <1>1, <2>1
<1>3. CASE r.ends = "throw"
  <2>0. r \in Paths /\ r.ends \in Ends
    BY <1>1, PathFields
  <2>1. p = [r EXCEPT !.steps = @ \o s]
    BY <1>3
  <2>2. p = [steps |-> r.steps \o s, ends |-> r.ends] /\ p \in Paths
    BY <2>0, <2>1, Longer, Zenon
  <2>3. p.ends = r.ends /\ p.steps = r.steps \o s
    BY <2>2
  <2>4. PICK b \in Q1["throw"] : Leads(r.steps, a, b)
    BY <1>1, <1>3
  <2>5. PICK d \in Q["throw"] : Leads(s, b, d)
    BY <2>4
  <2>6. Leads(r.steps \o s, a, d)
    BY <2>4, <2>5, Then
  <2> QED
    BY <1>3, <2>2, <2>3, <2>5, <2>6
<1> QED
  BY <1>2, <1>3

LEMMA DoesEither ==
  ASSUME NEW S, NEW R, NEW a, NEW Q, Does(S, a, Q), Does(R, a, Q)
  PROVE  Does(S \cup R, a, Q)
  BY DEF Does

LEMMA DoesOn ==
  ASSUME NEW s, NEW a, NEW b, NEW Q, Leads(s, a, b), b \in Q["on"]
  PROVE  Does(On(s), a, Q)
<1>1. s \in Seq(Moves)
  BY DEF Leads
<1>2. [steps |-> s, ends |-> "on"] \in Paths
  BY <1>1 DEF Paths, Ends
<1> QED
  BY <1>2 DEF Does, On, Ending

LEMMA DoesNeutral ==
  ASSUME NEW S, NEW h, NEW o, Neutral(S, h, o), NEW Q,
         At(h, o) \in Q["on"] \cap Q["return"] \cap Q["throw"]
  PROVE  Does(S, At(h, o), Q)
<1> SUFFICES ASSUME NEW p \in S
             PROVE  p \in Paths /\ \E b \in Q[p.ends] : Leads(p.steps, At(h, o), b)
  BY DEF Does
<1>1. p \in Paths /\ Leads(p.steps, At(h, o), At(h, o))
  BY DEF Neutral
<1>2. p.ends \in {"on", "return", "throw"}
  BY <1>1, PathFields DEF Ends
<1> QED
  BY <1>1, <1>2

(* The same for methods that are neutral. *)

Same(h, o) == [e \in Ends |-> {At(h, o)}]

LEMMA NeutralDoes ==
  ASSUME NEW S, NEW h, NEW o, Does(S, At(h, o), Same(h, o))
  PROVE  Neutral(S, h, o)
<1> SUFFICES ASSUME NEW p \in S
             PROVE  p \in Paths /\ Leads(p.steps, At(h, o), At(h, o))
  BY DEF Neutral
<1>1. p \in Paths /\ \E b \in Same(h, o)[p.ends] : Leads(p.steps, At(h, o), b)
  BY DEF Does
<1>2. Same(h, o)[p.ends] = {At(h, o)}
  BY <1>1, PathFields DEF Same
<1> QED
  BY <1>1, <1>2

LEMMA DoesSame ==
  ASSUME NEW S, NEW h, NEW o, Neutral(S, h, o)
  PROVE  Does(S, At(h, o), Same(h, o))
<1>1. At(h, o) \in Same(h, o)["on"] \cap Same(h, o)["return"] \cap Same(h, o)["throw"]
  BY DEF Same, Ends
<1> QED
  BY <1>1, DoesNeutral

LEMMA NeutralThen ==
  ASSUME NEW h, NEW o, NEW S, NEW R, Neutral(S, h, o), Neutral(R, h, o)
  PROVE  Neutral(S ## R, h, o)
<1> DEFINE Q == Same(h, o)
<1>1. Does(S, At(h, o), Q) /\ Does(R, At(h, o), Q)
  BY DoesSame
<1>2. Q["on"] = {At(h, o)}
  BY DEF Same, Ends
<1>3. \A b \in Q["on"] : Does(R, b, Q)
  BY <1>1, <1>2
<1> HIDE DEF Q
<1>4. Does(S ## R, At(h, o), Q)
  BY <1>1, <1>3, DoesThen
<1> QED
  BY <1>4, NeutralDoes DEF Q

LEMMA NeutralEither ==
  ASSUME NEW h, NEW o, NEW S, NEW R, Neutral(S, h, o), Neutral(R, h, o)
  PROVE  Neutral(S \cup R, h, o)
  BY DEF Neutral

LEMMA NeutralEnds ==
  ASSUME NEW h \in SUBSET Blocks, NEW o \in Objects
  PROVE  /\ Neutral(Skip, h, o) /\ Neutral(Return, h, o) /\ Neutral(Throw, h, o)
         /\ Neutral(MayThrow, h, o) /\ Neutral(MayReturn, h, o)
<1>1. At(h, o) \in States
  BY DEF At, States
<1>2. Leads(<<>>, At(h, o), At(h, o))
  BY <1>1, NoStep
<1>3. \A e \in Ends : [steps |-> <<>>, ends |-> e] \in Paths
  BY DEF Paths
<1>4. \A e \in Ends : Neutral(Ending(e, <<>>), h, o)
  BY <1>2, <1>3 DEF Neutral, Ending
<1>5. Neutral(Skip, h, o) /\ Neutral(Return, h, o) /\ Neutral(Throw, h, o)
  BY <1>4 DEF Skip, On, Return, Throw, Ends
<1> QED
  BY <1>5, NeutralEither DEF MayThrow, MayReturn

LEMMA NeutralLoop ==
  ASSUME NEW h \in SUBSET Blocks, NEW o \in Objects, NEW S, Neutral(S, h, o)
  PROVE  Neutral(Loop(S), h, o)
<1>1. Neutral(S ## S, h, o) /\ Neutral(Skip, h, o)
  BY NeutralThen, NeutralEnds
<1>2. Neutral(Skip \cup S, h, o)
  BY <1>1, NeutralEither
<1> QED
  BY <1>1, <1>2, NeutralEither DEF Loop

LEMMA NeutralCall ==
  ASSUME NEW h, NEW o, NEW S, Neutral(S, h, o)
  PROVE  Neutral(Call(S), h, o) /\ Neutral(Caught(S), h, o)
<1>1. ASSUME NEW r \in S, NEW e \in Ends
      PROVE  [r EXCEPT !.ends = e] \in Paths /\ [r EXCEPT !.ends = e].steps = r.steps
  <2>1. r \in Paths
    BY DEF Neutral
  <2>2. [r EXCEPT !.ends = e] = [steps |-> r.steps, ends |-> e]
    BY <2>1 DEF Paths
  <2> QED
    BY <2>1, <2>2 DEF Paths
<1>2. "on" \in Ends /\ "return" \in Ends
  BY DEF Ends
<1>3. \A r \in S : r \in Paths /\ Leads(r.steps, At(h, o), At(h, o))
  BY DEF Neutral
<1>4. Neutral(Call(S), h, o)
  <2> SUFFICES ASSUME NEW p, NEW r \in S,
                      p = IF r.ends = "return" THEN [r EXCEPT !.ends = "on"] ELSE r
               PROVE  p \in Paths /\ Leads(p.steps, At(h, o), At(h, o))
    BY Zenon DEF Neutral, Call
  <2>1. p = r \/ p = [r EXCEPT !.ends = "on"]
    BY Zenon
  <2> QED
    BY <2>1, <1>1, <1>2, <1>3
<1>5. Neutral(Caught(S), h, o)
  <2> SUFFICES ASSUME NEW p, NEW r \in S,
                      p = IF r.ends = "throw" THEN [r EXCEPT !.ends = "return"] ELSE r
               PROVE  p \in Paths /\ Leads(p.steps, At(h, o), At(h, o))
    BY Zenon DEF Neutral, Caught
  <2>1. p = r \/ p = [r EXCEPT !.ends = "return"]
    BY Zenon
  <2> QED
    BY <2>1, <1>1, <1>2, <1>3
<1> QED
  BY <1>4, <1>5

LEMMA NeutralOn ==
  ASSUME NEW h, NEW o, NEW s, Leads(s, At(h, o), At(h, o))
  PROVE  Neutral(On(s), h, o)
<1>1. At(h, o) \in Same(h, o)["on"]
  BY DEF Same, Ends
<1> QED
  BY <1>1, DoesOn, NeutralDoes

(* The steps. *)

LEMMA KnownActs ==
  /\ "get" \in Acts /\ "put" \in Acts /\ "put if held" \in Acts /\ "engine" \in Acts
  /\ "field" \in Acts /\ "look" \in Acts /\ "use" \in Acts /\ "becomes" \in Acts
  /\ \A S \in SUBSET Blocks : S \in SUBSET (Blocks \cup Views \cup Objects)
  /\ \A v \in Views : {v} \in SUBSET (Blocks \cup Views \cup Objects)
<1>1. \A S \in SUBSET Blocks : S \in SUBSET (Blocks \cup Views \cup Objects)
  OBVIOUS
<1>2. \A v \in Views : {v} \in SUBSET (Blocks \cup Views \cup Objects)
  OBVIOUS
<1> QED
  BY <1>1, <1>2 DEF Acts

LEMMA Gets ==
  ASSUME NEW h \in SUBSET Blocks, NEW o \in Objects, NEW S \in SUBSET Blocks,
         S \cap h \subseteq OfKeys
  PROVE  Leads(Get(S), At(h, o), At(h \cup S, o))
<1>1. At(h, o) \in States /\ At(h \cup S, o) \in States
  BY DEF At, States
<1>2. Fits([act |-> "get", of |-> S], At(h, o))
  BY DEF Fits, At
<1>3. Makes([act |-> "get", of |-> S], At(h, o), At(h \cup S, o))
  BY DEF Makes, At
<1> QED
  BY <1>1, <1>2, <1>3, OneStep, KnownActs, Zenon DEF Get

LEMMA Puts ==
  ASSUME NEW h \in SUBSET Blocks, NEW o \in Objects, NEW S \in SUBSET Blocks
  PROVE  /\ S \subseteq h => Leads(Put(S), At(h, o), At(h \ S, o))
         /\ Leads(PutIfHeld(S), At(h, o), At(h \ S, o))
<1>1. At(h, o) \in States /\ At(h \ S, o) \in States
  BY DEF At, States
<1>2. S \subseteq h => Fits([act |-> "put", of |-> S], At(h, o))
  BY DEF Fits, At
<1>3. Makes([act |-> "put", of |-> S], At(h, o), At(h \ S, o))
  BY DEF Makes, At
<1>4. Fits([act |-> "put if held", of |-> S], At(h, o))
  BY DEF Fits, At
<1>5. Makes([act |-> "put if held", of |-> S], At(h, o), At(h \ S, o))
  BY DEF Makes, At
<1>6. ASSUME S \subseteq h PROVE Leads(Put(S), At(h, o), At(h \ S, o))
  BY <1>1, <1>2, <1>3, <1>6, OneStep, KnownActs, Zenon DEF Put
<1>7. Leads(PutIfHeld(S), At(h, o), At(h \ S, o))
  BY <1>1, <1>4, <1>5, OneStep, KnownActs, Zenon DEF PutIfHeld
<1> QED
  BY <1>6, <1>7

LEMMA Calls ==
  ASSUME NEW h \in SUBSET Blocks, NEW o \in Objects, NEW S \in SUBSET Blocks, S \subseteq h
  PROVE  /\ Leads(Engine(S), At(h, o), At(h, o))
         /\ Leads(Field(S), At(h, o), At(h, o))
<1>1. At(h, o) \in States
  BY DEF At, States
<1>2. Fits([act |-> "engine", of |-> S], At(h, o))
      /\ Makes([act |-> "engine", of |-> S], At(h, o), At(h, o))
  BY DEF Fits, Makes, At
<1>3. Fits([act |-> "field", of |-> S], At(h, o))
      /\ Makes([act |-> "field", of |-> S], At(h, o), At(h, o))
  BY DEF Fits, Makes, At
<1>4. Leads(Engine(S), At(h, o), At(h, o))
  BY <1>1, <1>2, OneStep, KnownActs, Zenon DEF Engine
<1>5. Leads(Field(S), At(h, o), At(h, o))
  BY <1>1, <1>3, OneStep, KnownActs, Zenon DEF Field
<1> QED
  BY <1>4, <1>5

(* With a view that is fresh. *)
Seeing(h, o, v) == [heap |-> h, fresh |-> {v}, object |-> o]

LEMMA Looks ==
  ASSUME NEW h \in SUBSET Blocks, NEW o \in Objects, NEW v \in Views
  PROVE  /\ Leads(Look(v), At(h, o), Seeing(h, o, v))
         /\ Leads(Look(v), At(h, o), At(h, o))
         /\ Leads(Use(v), Seeing(h, o, v), At(h, o))
         /\ Leads(Look(v) \o Use(v), At(h, o), At(h, o))
<1>1. At(h, o) \in States /\ Seeing(h, o, v) \in States /\ {v} \in SUBSET Views
  BY DEF At, Seeing, States
<1>2. Fits([act |-> "look", of |-> {v}], At(h, o))
      /\ Makes([act |-> "look", of |-> {v}], At(h, o), Seeing(h, o, v))
      /\ Makes([act |-> "look", of |-> {v}], At(h, o), At(h, o))
  BY DEF Fits, Makes, At, Seeing
<1>3. Fits([act |-> "use", of |-> {v}], Seeing(h, o, v))
      /\ Makes([act |-> "use", of |-> {v}], Seeing(h, o, v), At(h, o))
  BY DEF Fits, Makes, At, Seeing
<1>4. Leads(Look(v), At(h, o), Seeing(h, o, v)) /\ Leads(Look(v), At(h, o), At(h, o))
  BY <1>1, <1>2, OneStep, KnownActs, Zenon DEF Look
<1>5. Leads(Use(v), Seeing(h, o, v), At(h, o))
  BY <1>1, <1>3, OneStep, KnownActs, Zenon DEF Use
<1> QED
  BY <1>4, <1>5, Then

LEMMA NeutralWith ==
  ASSUME NEW h \in SUBSET Blocks, NEW o \in Objects, NEW S \in SUBSET Blocks,
         S \cap h = {}, NEW R, Neutral(R, h \cup S, o)
  PROVE  Neutral(With(S, R), h, o)
<1> DEFINE g == h \cup S
           Q == Same(h, o)
<1>1. g \in SUBSET Blocks /\ g \ S = h /\ S \subseteq g
  OBVIOUS
<1>2. Leads(Get(S), At(h, o), At(g, o))
  BY Gets
<1>3. Leads(Put(S), At(g, o), At(h, o))
  BY <1>1, Puts
<1>4. Put(S) \in Seq(Moves)
  BY <1>3 DEF Leads
<1>5. Does(R, At(g, o), Same(g, o))
  BY DoesSame
<1> HIDE DEF g
<1>6. \A e \in Ends : \A b \in Same(g, o)[e] : \E d \in Q[e] : Leads(Put(S), b, d)
  BY <1>3 DEF Same
<1>7. Does(Finally(R, Put(S)), At(g, o), Q)
  BY <1>4, <1>5, <1>6, DoesFinally, Zenon
<1> DEFINE Q1 == [e \in Ends |-> IF e = "on" THEN {At(g, o)} ELSE {}]
<1>8. Q1["on"] = {At(g, o)} /\ Q1["return"] = {} /\ Q1["throw"] = {}
  BY DEF Ends
<1>9. Does(On(Get(S)), At(h, o), Q1)
  BY <1>2, <1>8, DoesOn
<1> HIDE DEF Q1, Q
<1>10. \A b \in Q1["on"] : Does(Finally(R, Put(S)), b, Q)
  BY <1>7, <1>8
<1>11. Does(On(Get(S)) ## Finally(R, Put(S)), At(h, o), Q)
  BY <1>8, <1>9, <1>10, DoesThen
<1> QED
  BY <1>11, NeutralDoes DEF With, Q

-----------------------------------------------------------------------------
(* The methods that leave the memory as they found it. *)

(* Steps in a row. *)
LEMMA Rows ==
  ASSUME NEW h \in SUBSET Blocks, NEW o \in Objects, NEW v \in Views,
         NEW F \in SUBSET Blocks, F \subseteq h
  PROVE  /\ Leads(Field(F) \o Look(v) \o Use(v), At(h, o), At(h, o))
         /\ Leads(Look(v) \o Field(F) \o Use(v), At(h, o), At(h, o))
         /\ Leads(Look(v) \o Use(v) \o Engine(F), At(h, o), At(h, o))
<1>1. Leads(Field(F), At(h, o), At(h, o)) /\ Leads(Engine(F), At(h, o), At(h, o))
  BY Calls
<1>2. /\ Leads(Look(v), At(h, o), Seeing(h, o, v)) /\ Leads(Use(v), Seeing(h, o, v), At(h, o))
      /\ Leads(Look(v) \o Use(v), At(h, o), At(h, o))
  BY Looks
<1>3. Leads(Field(F), Seeing(h, o, v), Seeing(h, o, v))
  <2>1. Seeing(h, o, v) \in States
    BY <1>2, LeadsTyped
  <2>2. Fits([act |-> "field", of |-> F], Seeing(h, o, v))
        /\ Makes([act |-> "field", of |-> F], Seeing(h, o, v), Seeing(h, o, v))
    BY DEF Fits, Makes, Seeing
  <2> QED
    BY <2>1, <2>2, OneStep, KnownActs, Zenon DEF Field
<1>4. Leads(Field(F) \o Look(v), At(h, o), Seeing(h, o, v))
  BY <1>1, <1>2, Then
<1>5. Leads(Look(v) \o Field(F), At(h, o), Seeing(h, o, v))
  BY <1>2, <1>3, Then
<1> QED
  BY <1>1, <1>2, <1>4, <1>5, Then

LEMMA Brackets ==
  ASSUME NEW h \in SUBSET Blocks, NEW o \in Objects, NEW S \in SUBSET Blocks, S \cap h = {}
  PROVE  /\ h \cup S \in SUBSET Blocks
         /\ Leads(Get(S), At(h, o), At(h \cup S, o))
         /\ Leads(Put(S), At(h \cup S, o), At(h, o))
<1>1. h \cup S \in SUBSET Blocks /\ (h \cup S) \ S = h /\ S \subseteq h \cup S
  OBVIOUS
<1>2. Leads(Put(S), At(h \cup S, o), At((h \cup S) \ S, o))
  BY <1>1, Puts
<1> QED
  BY <1>1, <1>2, Gets

LEMMA Bracketed ==
  ASSUME NEW h \in SUBSET Blocks, NEW o \in Objects, NEW S \in SUBSET Blocks, S \cap h = {},
         NEW s, Leads(s, At(h \cup S, o), At(h \cup S, o))
  PROVE  Neutral(On(Get(S) \o s \o Put(S)), h, o)
<1>1. Leads(Get(S) \o s, At(h, o), At(h \cup S, o))
  BY Brackets, Then
<1>2. Leads(Get(S) \o s \o Put(S), At(h, o), At(h, o))
  BY <1>1, Brackets, Then
<1> QED
  BY <1>2, NeutralOn

LEMMA Writes ==
  ASSUME NEW h \in SUBSET Blocks, NEW o \in Objects, NEW S \in SUBSET Blocks, S \cap h = {},
         NEW v \in Views, NEW F \in SUBSET Blocks, F \subseteq h
  PROVE  Neutral(On(Get(S) \o Look(v) \o Use(v) \o Engine(F) \o Put(S)), h, o)
<1> DEFINE g == h \cup S
<1>1. /\ g \in SUBSET Blocks /\ F \subseteq g
      /\ Leads(Get(S), At(h, o), At(g, o)) /\ Leads(Put(S), At(g, o), At(h, o))
  BY Brackets
<1> HIDE DEF g
<1>2. /\ Leads(Look(v), At(g, o), Seeing(g, o, v)) /\ Leads(Use(v), Seeing(g, o, v), At(g, o))
      /\ Leads(Engine(F), At(g, o), At(g, o))
  BY <1>1, Looks, Calls
<1>3. Leads(Get(S) \o Look(v), At(h, o), Seeing(g, o, v))
  BY <1>1, <1>2, Then
<1>4. Leads(Get(S) \o Look(v) \o Use(v), At(h, o), At(g, o))
  BY <1>3, <1>2, Then
<1>5. Leads(Get(S) \o Look(v) \o Use(v) \o Engine(F), At(h, o), At(g, o))
  BY <1>4, <1>2, Then
<1>6. Leads(Get(S) \o Look(v) \o Use(v) \o Engine(F) \o Put(S), At(h, o), At(h, o))
  BY <1>5, <1>1, Then
<1> QED
  BY <1>6, NeutralOn

(* A call, a read, a view that is used at once. *)
LEMMA NeutralSteps ==
  ASSUME NEW h \in SUBSET Blocks, NEW o \in Objects
  PROVE  /\ \A F \in SUBSET Blocks : F \subseteq h =>
              Neutral(On(Engine(F)), h, o) /\ Neutral(On(Field(F)), h, o)
         /\ \A v \in Views : Neutral(On(Look(v) \o Use(v)), h, o)
         /\ \A v \in Views : \A F \in SUBSET Blocks : F \subseteq h =>
              /\ Neutral(On(Field(F) \o Look(v) \o Use(v)), h, o)
              /\ Neutral(On(Look(v) \o Field(F) \o Use(v)), h, o)
              /\ Neutral(On(Look(v) \o Use(v) \o Engine(F)), h, o)
  BY Calls, Looks, Rows, NeutralOn

-----------------------------------------------------------------------------
(* A terminal that is whole. *)
Parts == {"terminal", "route"} \cup Handles
Whole(h) == h \in SUBSET Blocks /\ Parts \subseteq h /\ h \cap Passing = {}

(* While a method has some of its blocks. *)
Within(h, S) == h \in SUBSET Blocks /\ Parts \subseteq h /\ h \cap Passing = S

LEMMA WholeWithin == \A h : Whole(h) => Within(h, {})
  BY DEF Whole, Within

LEMMA Takes ==
  ASSUME NEW h, NEW S, Within(h, S), NEW U \in SUBSET Passing, U \cap S = {}
  PROVE  /\ h \in SUBSET Blocks /\ U \in SUBSET Blocks /\ U \cap h = {}
         /\ Within(h \cup U, S \cup U)
  BY DEF Within, Blocks

LEMMA WithTakes ==
  ASSUME NEW h, NEW S, Within(h, S), NEW o \in Objects, NEW U \in SUBSET Passing,
         U \cap S = {}, NEW R, Neutral(R, h \cup U, o)
  PROVE  Neutral(With(U, R), h, o)
  BY Takes, NeutralWith

LEMMA Held ==
  ASSUME NEW h, NEW S, Within(h, S)
  PROVE  /\ h \in SUBSET Blocks
         /\ \A F \in SUBSET (Parts \cup S) : F \in SUBSET Blocks /\ F \subseteq h
  BY DEF Within

LEMMA StepsWithin ==
  ASSUME NEW h, NEW S, Within(h, S), NEW o \in Objects, NEW F \in SUBSET (Parts \cup S),
         NEW v \in Views
  PROVE  /\ Neutral(On(Engine(F)), h, o) /\ Neutral(On(Field(F)), h, o)
         /\ Neutral(On(Look(v) \o Use(v)), h, o)
         /\ Neutral(On(Field(F) \o Look(v) \o Use(v)), h, o)
         /\ Neutral(On(Look(v) \o Field(F) \o Use(v)), h, o)
         /\ Neutral(On(Look(v) \o Use(v) \o Engine(F)), h, o)
<1>1. h \in SUBSET Blocks /\ F \in SUBSET Blocks /\ F \subseteq h
  BY Held
<1> QED
  BY <1>1, NeutralSteps

LEMMA EndsWithin ==
  ASSUME NEW h, NEW S, Within(h, S), NEW o \in Objects
  PROVE  /\ Neutral(Skip, h, o) /\ Neutral(Return, h, o) /\ Neutral(Throw, h, o)
         /\ Neutral(MayThrow, h, o) /\ Neutral(MayReturn, h, o)
         /\ \A R : Neutral(R, h, o) => Neutral(Loop(R), h, o)
  BY NeutralEnds, NeutralLoop DEF Within

LEMMA Reading ==
  ASSUME NEW h, NEW S, Within(h, S), NEW o \in Objects
  PROVE  /\ "out" \notin S => Neutral(rsGet, h, o) /\ Neutral(tGet, h, o)
         /\ "mode slot" \notin S => Neutral(getMode, h, o)
         /\ "bound" \notin S => Neutral(RowIterator, h, o) /\ Neutral(RowCells, h, o)
         /\ "out" \notin S => Neutral(update, h, o)
<1>0. /\ h \in SUBSET Blocks
      /\ {"render"} \in SUBSET (Parts \cup S) /\ {"terminal"} \in SUBSET (Parts \cup S)
      /\ {"render", "rowIter"} \in SUBSET (Parts \cup S)
      /\ {"rowIter", "rowCells"} \in SUBSET (Parts \cup S)
      /\ {"render", "terminal"} \in SUBSET (Parts \cup S)
      /\ {"out"} \in SUBSET Passing /\ {"mode slot"} \in SUBSET Passing
      /\ {"bound"} \in SUBSET Passing
  BY Held DEF Parts, Handles, Passing
<1>1. ASSUME NEW U \in SUBSET Passing, U \cap S = {}, NEW F \in SUBSET (Parts \cup S)
      PROVE  /\ Neutral(On(Get(U) \o Field(F) \o Put(U)), h, o)
             /\ Neutral(On(Get(U) \o Engine(F) \o Put(U)), h, o)
             /\ Neutral(With(U, On(Field(F))), h, o)
  <2>1. /\ U \in SUBSET Blocks /\ U \cap h = {} /\ Within(h \cup U, S \cup U)
    BY Takes, <1>1
  <2>2. h \cup U \in SUBSET Blocks /\ F \in SUBSET Blocks /\ F \subseteq h \cup U
    BY <2>1, Held, <1>1
  <2>3. Leads(Field(F), At(h \cup U, o), At(h \cup U, o))
        /\ Leads(Engine(F), At(h \cup U, o), At(h \cup U, o))
    BY <2>2, Calls
  <2>4. Neutral(On(Field(F)), h \cup U, o)
    BY <2>3, NeutralOn
  <2> QED
    BY <1>0, <1>1, <2>1, <2>3, <2>4, Bracketed, WithTakes
<1>2. "out" \notin S => {"out"} \cap S = {}
  OBVIOUS
<1>3. "out" \notin S => Neutral(rsGet, h, o) /\ Neutral(tGet, h, o)
  BY <1>0, <1>1, <1>2 DEF rsGet, tGet
<1>4. "mode slot" \notin S => Neutral(getMode, h, o)
  <2>1. "mode slot" \notin S => {"mode slot"} \cap S = {}
    OBVIOUS
  <2> QED
    BY <1>0, <1>1, <2>1 DEF getMode
<1>5. "bound" \notin S => Neutral(RowIterator, h, o) /\ Neutral(RowCells, h, o)
  <2>1. "bound" \notin S => {"bound"} \cap S = {}
    OBVIOUS
  <2> QED
    BY <1>0, <1>1, <2>1 DEF RowIterator, RowCells, populateHandle
<1>6. Neutral(On(Engine({"render", "terminal"})), h, o) /\ Neutral(MayThrow, h, o)
  <2>1. "row" \in Views
    BY DEF Views
  <2> QED
    BY <1>0, <2>1, StepsWithin, EndsWithin
<1>7. "out" \notin S => Neutral(update, h, o)
  BY <1>3, <1>6, NeutralThen DEF update
<1> QED
  BY <1>3, <1>4, <1>5, <1>7

LEMMA WholeTakes ==
  ASSUME NEW h, Whole(h), NEW U \in SUBSET Passing
  PROVE  /\ Within(h, {}) /\ Within(h \cup U, U) /\ U \cap h = {} /\ U \cap {} = {}
         /\ h \in SUBSET Blocks /\ U \in SUBSET Blocks
<1>1. Within(h, {}) /\ U \cap {} = {} /\ {} \cup U = U
  BY WholeWithin
<1>2. Within(h \cup U, {} \cup U) /\ U \cap h = {} /\ h \in SUBSET Blocks /\ U \in SUBSET Blocks
  BY <1>1, Takes
<1> QED
  BY <1>1, <1>2

LEMMA WholeReads ==
  ASSUME NEW h, Whole(h), NEW o \in Objects
  PROVE  /\ Neutral(rsGet, h, o) /\ Neutral(tGet, h, o) /\ Neutral(getMode, h, o)
         /\ Neutral(update, h, o) /\ Neutral(RowIterator, h, o) /\ Neutral(RowCells, h, o)
         /\ Neutral(MayReturn, h, o) /\ Neutral(MayThrow, h, o)
         /\ Neutral(update ## RowIterator, h, o)
<1>1. Within(h, {})
  BY WholeWithin
<1>2. PICK S : S = {}
  OBVIOUS
<1>5. Within(h, S) /\ "out" \notin S /\ "mode slot" \notin S /\ "bound" \notin S
  BY <1>1, <1>2
<1>3. /\ Neutral(rsGet, h, o) /\ Neutral(tGet, h, o) /\ Neutral(getMode, h, o)
      /\ Neutral(update, h, o) /\ Neutral(RowIterator, h, o) /\ Neutral(RowCells, h, o)
  BY <1>5, Reading
<1>4. Neutral(MayReturn, h, o) /\ Neutral(MayThrow, h, o)
  BY <1>1, EndsWithin
<1> QED
  BY <1>3, <1>4, NeutralThen

LEMMA Spanning ==
  ASSUME NEW h, NEW S, Within(h, S), NEW o \in Objects, NEW U \in SUBSET Passing,
         U \cap S = {}, NEW R, Neutral(R, h, o), NEW s, Leads(s, At(h \cup U, o), At(h \cup U, o))
  PROVE  Neutral(R ## On(Get(U)) ## Loop(On(s)) ## On(Put(U)), h, o)
<1> DEFINE g == h \cup U
           Q == Same(h, o)
           Q1 == [e \in Ends |-> IF e = "on" THEN {At(g, o)} ELSE {At(h, o)}]
<1>1. /\ g \in SUBSET Blocks
      /\ Leads(Get(U), At(h, o), At(g, o)) /\ Leads(Put(U), At(g, o), At(h, o))
  BY Takes, Brackets
<1>2. Leads(<<>>, At(g, o), At(g, o)) /\ Leads(s, At(g, o), At(g, o))
  BY <1>1, NoStep DEF At, States
<1>3. /\ Q["on"] = {At(h, o)} /\ Q["return"] = {At(h, o)} /\ Q["throw"] = {At(h, o)}
      /\ Q1["on"] = {At(g, o)} /\ Q1["return"] = {At(h, o)} /\ Q1["throw"] = {At(h, o)}
  BY DEF Same, Ends
<1>4. Does(R, At(h, o), Q)
  BY DoesSame
<1> HIDE DEF g, Q, Q1
<1>5. Does(On(Get(U)), At(h, o), Q1) /\ Does(On(Put(U)), At(g, o), Q)
  BY <1>1, <1>3, DoesOn
<1>6. Does(R ## On(Get(U)), At(h, o), Q1)
  BY <1>3, <1>4, <1>5, DoesThen
<1>7. Does(Skip, At(g, o), Q1) /\ Does(On(s), At(g, o), Q1)
  BY <1>2, <1>3, DoesOn DEF Skip
<1>8. Does(On(s) ## On(s), At(g, o), Q1)
  BY <1>3, <1>7, DoesThen
<1>9. Does(Loop(On(s)), At(g, o), Q1)
  BY <1>7, <1>8, DoesEither DEF Loop
<1>10. Does(R ## On(Get(U)) ## Loop(On(s)), At(h, o), Q1)
  BY <1>3, <1>6, <1>9, DoesThen
<1>11. Does(R ## On(Get(U)) ## Loop(On(s)) ## On(Put(U)), At(h, o), Q)
  BY <1>3, <1>5, <1>10, DoesThen
<1> QED
  BY <1>11, NeutralDoes DEF Q

LEMMA RowsMarked ==
  ASSUME NEW h, Whole(h), NEW o \in Objects
  PROVE  Neutral(refreshRowMetaCache, h, o) /\ Neutral(markClean, h, o)
<1>1. Within(h, {}) /\ h \in SUBSET Blocks
  BY WholeWithin DEF Whole
<1>2. Neutral(RowIterator, h, o)
  BY WholeReads
<1>3. Neutral(update ## RowIterator, h, o)
  BY WholeReads
<1>4. Neutral(refreshRowMetaCache, h, o)
  <2> DEFINE U == {"dirty", "raw", "wrap"}
  <2>1. U \in SUBSET Passing /\ "row" \in Views /\ {"rowIter"} \in SUBSET (Parts \cup U)
    BY DEF Passing, Views, Parts, Handles
  <2>2. Within(h \cup U, U)
    BY <2>1, WholeTakes
  <2>3. Neutral(On(Look("row") \o Field({"rowIter"}) \o Use("row")), h \cup U, o)
    BY <2>1, <2>2, StepsWithin
  <2>4. Neutral(Loop(On(Look("row") \o Field({"rowIter"}) \o Use("row"))), h \cup U, o)
    BY <2>2, <2>3, EndsWithin
  <2>5. Neutral(With(U, Loop(On(Look("row") \o Field({"rowIter"}) \o Use("row")))), h, o)
    BY <1>1, <2>1, <2>4, WithTakes
  <2> QED
    BY <1>3, <2>5, NeutralThen DEF refreshRowMetaCache
<1>5. Neutral(markClean, h, o)
  <2> DEFINE U == {"row value"}
             V == {"option value"}
  <2>1. /\ U \in SUBSET Passing /\ V \in SUBSET Passing
        /\ {"rowIter"} \in SUBSET (Parts \cup U) /\ {"render"} \in SUBSET (Parts \cup V)
    BY DEF Passing, Parts, Handles
  <2>2. /\ Within(h \cup U, U) /\ Within(h \cup V, V) /\ V \cap h = {} /\ V \in SUBSET Blocks
        /\ U \cap {} = {}
    BY <2>1, WholeTakes
  <2> HIDE DEF U, V
  <2>31. /\ h \cup U \in SUBSET Blocks
         /\ {"rowIter"} \in SUBSET Blocks /\ {"rowIter"} \subseteq h \cup U
    BY <2>1, <2>2, Held
  <2>32. /\ h \cup V \in SUBSET Blocks
         /\ {"render"} \in SUBSET Blocks /\ {"render"} \subseteq h \cup V
    BY <2>1, <2>2, Held
  <2>4. /\ Leads(Field({"rowIter"}), At(h \cup U, o), At(h \cup U, o))
        /\ Leads(Field({"render"}), At(h \cup V, o), At(h \cup V, o))
    BY <2>31, <2>32, Calls
  <2>5. Neutral(On(Get(V) \o Field({"render"}) \o Put(V)), h, o)
    BY <1>1, <2>2, <2>4, Bracketed
  <2>6. Neutral(On(Get(V) \o Field({"render"}) \o Put(V)) ## RowIterator, h, o)
    BY <1>2, <2>5, NeutralThen
  <2> QED
    <3>1. Neutral(On(Get(V) \o Field({"render"}) \o Put(V)) ## RowIterator
                   ## On(Get(U)) ## Loop(On(Field({"rowIter"}))) ## On(Put(U)), h, o)
      BY <1>1, <2>1, <2>2, <2>4, <2>6, Spanning
    <3> QED
      BY <3>1 DEF markClean, U, V
<1> QED
  BY <1>4, <1>5

LEMMA CellsRead ==
  ASSUME NEW h, Whole(h), NEW o \in Objects
  PROVE  Neutral(getViewport, h, o)
<1> DEFINE U == CellSlots
           V == {"long grapheme"}
           g == h \cup U
           k == g \cup V
<1>1. Within(h, {})
  BY WholeWithin
<1>2. /\ U \in SUBSET Passing /\ V \in SUBSET Passing /\ V \cap U = {}
      /\ "bound" \notin U /\ "codepoints" \in Views /\ "style" \in Views
      /\ {"rowCells"} \in SUBSET (Parts \cup U) /\ {"rowIter"} \in SUBSET (Parts \cup U)
      /\ {"rowCells"} \in SUBSET (Parts \cup (U \cup V))
  BY DEF Passing, Views, Parts, Handles, CellSlots
<1>4. Within(g, U) /\ U \cap {} = {}
  BY <1>2, WholeTakes
<1> HIDE DEF g, U, V
<1>5. Within(k, U \cup V)
  BY <1>2, <1>4, Takes
<1> HIDE DEF k
<1>6. Neutral(Grapheme, g, o) /\ Neutral(Grapheme, k, o)
  BY <1>2, <1>4, <1>5, StepsWithin DEF Grapheme
<1>7. Neutral(With(V, Grapheme), g, o)
  BY <1>2, <1>4, <1>6, WithTakes DEF k
<1>8. Neutral(Skip \cup Grapheme \cup With(V, Grapheme), g, o)
  BY <1>4, <1>6, <1>7, EndsWithin, NeutralEither
<1>9. /\ Neutral(On(Field({"rowCells"})), g, o) /\ Neutral(On(Field({"rowIter"})), g, o)
      /\ Neutral(On(Look("style") \o Use("style")), g, o)
  BY <1>2, <1>4, StepsWithin
<1>10. Neutral(Cell, g, o)
  BY <1>8, <1>9, NeutralThen DEF Cell, V
<1>11. Neutral(RowCells, g, o)
  BY <1>2, <1>4, Reading
<1>12. Neutral(Loop(Cell), g, o)
  BY <1>4, <1>10, EndsWithin
<1>13. Neutral(On(Field({"rowIter"})) ## RowCells ## Loop(Cell), g, o)
  BY <1>9, <1>11, <1>12, NeutralThen
<1>14. Neutral(Loop(On(Field({"rowIter"})) ## RowCells ## Loop(Cell)), g, o)
  BY <1>4, <1>13, EndsWithin
<1>15. Neutral(With(U, Loop(On(Field({"rowIter"})) ## RowCells ## Loop(Cell))), h, o)
  BY <1>1, <1>2, <1>4, <1>14, WithTakes DEF g
<1>16. Neutral(update ## RowIterator, h, o)
  BY WholeReads
<1> QED
  BY <1>15, <1>16, NeutralThen DEF getViewport, U

LEMMA GraphemeRead ==
  ASSUME NEW h, Whole(h), NEW o \in Objects
  PROVE  Neutral(getGrapheme, h, o)
<1> DEFINE U == {"length"}
           V == {"grapheme"}
<1>1. Within(h, {})
  BY WholeWithin
<1>2. /\ U \in SUBSET Passing /\ V \in SUBSET Passing /\ "codepoints" \in Views
      /\ {"rowCells"} \in SUBSET (Parts \cup U) /\ {"rowCells"} \in SUBSET (Parts \cup V)
      /\ {"rowIter"} \in SUBSET (Parts \cup {})
  BY DEF Passing, Views, Parts, Handles
<1>3. Within(h \cup U, U) /\ Within(h \cup V, V) /\ U \cap {} = {} /\ V \cap {} = {}
  BY <1>2, WholeTakes
<1> HIDE DEF U, V
<1>4. /\ Neutral(MayReturn, h, o) /\ Neutral(update, h, o) /\ Neutral(RowIterator, h, o)
      /\ Neutral(RowCells, h, o) /\ Neutral(On(Field({"rowIter"})), h, o)
  BY <1>1, <1>2, WholeReads, StepsWithin
<1>5. Neutral(On(Field({"rowCells"})), h \cup U, o)
  BY <1>2, <1>3, StepsWithin
<1>6. Neutral(On(Field({"rowCells"}) \o Look("codepoints") \o Use("codepoints")), h \cup V, o)
  BY <1>2, <1>3, StepsWithin
<1>7. /\ Neutral(With(U, On(Field({"rowCells"}))), h, o)
      /\ Neutral(With(V, On(Field({"rowCells"}) \o Look("codepoints") \o Use("codepoints"))),
                 h, o)
  BY <1>1, <1>2, <1>3, <1>5, <1>6, WithTakes
<1>8. Neutral(MayReturn ## update ## RowIterator ## On(Field({"rowIter"})) ## MayReturn, h, o)
  BY <1>4, NeutralThen
<1>9. Neutral(MayReturn ## update ## RowIterator ## On(Field({"rowIter"})) ## MayReturn
               ## RowCells ## MayReturn, h, o)
  BY <1>4, <1>8, NeutralThen
<1>10. Neutral(MayReturn ## update ## RowIterator ## On(Field({"rowIter"})) ## MayReturn
                ## RowCells ## MayReturn ## With(U, On(Field({"rowCells"}))) ## MayReturn, h, o)
  BY <1>4, <1>7, <1>9, NeutralThen
<1> QED
  BY <1>7, <1>10, NeutralThen DEF getGrapheme, U, V

(* With a reference into the grid. *)
LEMMA Refers ==
  ASSUME NEW h, Whole(h), NEW o \in Objects, NEW R,
         Neutral(R, h \cup {"point", "ref"}, o)
  PROVE  Neutral(GridRef(R), h, o)
<1> DEFINE U == {"point", "ref"}
<1>1. U \in SUBSET Passing /\ {"terminal"} \in SUBSET (Parts \cup U) /\ "row" \in Views
  BY DEF Passing, Parts, Views
<1>2. Within(h \cup U, U) /\ Within(h, {}) /\ U \cap {} = {}
  BY <1>1, WholeTakes
<1>3. Neutral(R, h \cup U, o)
  OBVIOUS
<1> HIDE DEF U
<1>4. Neutral(On(Field({"terminal"})), h \cup U, o) /\ Neutral(MayReturn, h \cup U, o)
  BY <1>1, <1>2, StepsWithin, EndsWithin
<1>5. Neutral(On(Field({"terminal"})) ## MayReturn ## R, h \cup U, o)
  BY <1>3, <1>4, NeutralThen
<1>6. Neutral(With(U, On(Field({"terminal"})) ## MayReturn ## R), h, o)
  BY <1>1, <1>2, <1>5, WithTakes
<1> QED
  BY <1>6 DEF GridRef, U

LEMMA LineRead ==
  ASSUME NEW h, Whole(h), NEW o \in Objects
  PROVE  Neutral(readGridLine, h, o)
<1> DEFINE U == {"point", "ref"}
           V == {"palette", "cell", "codepoint", "wide", "style"}
           g == h \cup U
           k == g \cup V
           R == On(Field({"ref"})) ## (Skip \cup On(Look("style") \o Use("style")))
<1>1. /\ U \in SUBSET Passing /\ V \in SUBSET Passing /\ V \cap U = {} /\ "style" \in Views
      /\ {"ref"} \in SUBSET (Parts \cup (U \cup V))
  BY DEF Passing, Views
<1>2. Within(g, U)
  BY <1>1, WholeTakes
<1> HIDE DEF g, U, V
<1>3. Within(k, U \cup V)
  BY <1>1, <1>2, Takes
<1> HIDE DEF k
<1>4. /\ Neutral(On(Field({"ref"})), k, o) /\ Neutral(Skip, k, o)
      /\ Neutral(On(Look("style") \o Use("style")), k, o)
  BY <1>1, <1>3, StepsWithin, EndsWithin
<1>5. Neutral(R, k, o)
  BY <1>4, NeutralThen, NeutralEither
<1> HIDE DEF R
<1>6. Neutral(Loop(R), k, o)
  BY <1>3, <1>5, EndsWithin
<1>7. Neutral(With(V, Loop(R)), g, o)
  BY <1>1, <1>2, <1>6, WithTakes DEF k
<1>8. Neutral(GridRef(With(V, Loop(R))), h, o)
  BY <1>7, Refers DEF g, U
<1> QED
  BY <1>8 DEF readGridLine, R, V

LEMMA TextsRead ==
  ASSUME NEW h, Whole(h), NEW o \in Objects
  PROVE  Neutral(readHyperlinkUri, h, o) /\ Neutral(getScrollbackGrapheme, h, o)
<1> DEFINE U == {"point", "ref"}
           V == {"length"}
           W == {"text"}
           g == h \cup U
           k == g \cup V
           m == k \cup W
           R(v) == On(Field({"ref"})) ## MayReturn ## On(Look(v) \o Use(v))
<1>1. /\ U \in SUBSET Passing /\ V \in SUBSET Passing /\ W \in SUBSET Passing
      /\ V \cap U = {} /\ W \cap (U \cup V) = {}
      /\ "uri" \in Views /\ "codepoints" \in Views
      /\ {"ref"} \in SUBSET (Parts \cup (U \cup V))
      /\ {"ref"} \in SUBSET (Parts \cup (U \cup V \cup W))
  BY DEF Passing, Views
<1>2. Within(g, U)
  BY <1>1, WholeTakes
<1> HIDE DEF g, U, V, W
<1>3. Within(k, U \cup V)
  BY <1>1, <1>2, Takes
<1> HIDE DEF k
<1>4. Within(m, U \cup V \cup W)
  <2> DEFINE S == U \cup V
  <2>1. Within(k, S) /\ W \cap S = {} /\ W \in SUBSET Passing
    BY <1>1, <1>3
  <2> HIDE DEF S
  <2>2. Within(m, S \cup W)
    BY <2>1, Takes DEF m
  <2> QED
    BY <2>2 DEF S
<1> HIDE DEF m
<1>5. ASSUME NEW v \in Views
      PROVE  Neutral(GridRef(Text(R(v))), h, o)
  <2>1. /\ Neutral(On(Field({"ref"})), m, o) /\ Neutral(MayReturn, m, o)
        /\ Neutral(On(Look(v) \o Use(v)), m, o)
    BY <1>1, <1>4, StepsWithin, EndsWithin
  <2>2. Neutral(R(v), m, o)
    BY <2>1, NeutralThen
  <2> HIDE DEF R
  <2> DEFINE S == U \cup V
  <2>30. Within(k, S) /\ W \cap S = {} /\ W \in SUBSET Passing
    BY <1>1, <1>3
  <2> HIDE DEF S
  <2>3. Neutral(With(W, R(v)), k, o)
    BY <2>30, <2>2, WithTakes DEF m
  <2>4. Neutral(On(Field({"ref"})), k, o) /\ Neutral(MayReturn, k, o)
    BY <1>1, <1>3, StepsWithin, EndsWithin
  <2>5. Neutral(On(Field({"ref"})) ## MayReturn ## With(W, R(v)), k, o)
    BY <2>3, <2>4, NeutralThen
  <2>6. Neutral(With(V, On(Field({"ref"})) ## MayReturn ## With(W, R(v))), g, o)
    BY <1>1, <1>2, <2>5, WithTakes DEF k
  <2>7. Neutral(Text(R(v)), g, o)
    BY <2>6 DEF Text, V, W
  <2> QED
    BY <2>7, Refers DEF g, U
<1> QED
  BY <1>1, <1>5 DEF readHyperlinkUri, getScrollbackGrapheme

(* Writing, with what the engine calls back. *)
LEMMA StatusCalledBack ==
  ASSUME NEW h \in SUBSET Blocks, NEW o \in Objects
  PROVE  Neutral(programStatus, h, o)
<1> DEFINE look == Look("report")
           use == Use("report")
<1>1. "report" \in Views
  BY DEF Views
<1>2. /\ Leads(look, At(h, o), Seeing(h, o, "report"))
      /\ Leads(use, Seeing(h, o, "report"), At(h, o)) /\ Leads(look, At(h, o), At(h, o))
  BY <1>1, Looks
<1>3. look \in Seq(Moves) /\ use \in Seq(Moves)
  BY <1>2 DEF Leads
<1> HIDE DEF look, use
<1>4. look \o <<>> = look
  BY <1>3
<1>5. ASSUME NEW r \in MayReturn
      PROVE  r.steps = <<>> /\ r.ends \in {"on", "return"}
  BY <1>5 DEF MayReturn, Skip, Return, On, Ending
<1>6. ASSUME NEW p \in On(look) ## MayReturn
      PROVE  /\ p.steps = look /\ p.ends \in {"on", "return"}
             /\ p = Joined(p, [steps |-> <<>>, ends |-> p.ends])
  <2>1. PICK q \in On(look), r \in MayReturn : p = Joined(q, r)
    BY DEF ##, On, Ending
  <2>2. q.steps = look
    BY <2>1 DEF On, Ending
  <2>3. p = [steps |-> look, ends |-> r.ends] /\ r.ends \in {"on", "return"}
    BY <2>1, <2>2, <1>4, <1>5 DEF Joined
  <2> QED
    BY <2>3, <1>4 DEF Joined
<1>7. ASSUME NEW p \in On(look) ## MayReturn ## On(use)
      PROVE  p \in Paths /\ Leads(p.steps, At(h, o), At(h, o))
  <2>1. CASE p \in On(look) ## MayReturn /\ p.ends # "on"
    <3>1. p = [steps |-> look, ends |-> "return"]
      BY <2>1, <1>6, <1>4 DEF Joined
    <3> QED
      BY <3>1, <1>2, <1>3 DEF Paths, Ends
  <2>2. ASSUME NEW q \in On(look) ## MayReturn, NEW r \in On(use), p = Joined(q, r)
        PROVE  p \in Paths /\ Leads(p.steps, At(h, o), At(h, o))
    <3>0. q.steps = look
      BY <1>6
    <3>5. r = [steps |-> use, ends |-> "on"]
      BY DEF On, Ending
    <3>1. q.steps = look /\ r.steps = use /\ r.ends = "on"
      BY <3>0, <3>5
    <3>2. p = [steps |-> look \o use, ends |-> "on"]
      BY <2>2, <3>1 DEF Joined
    <3>3. Leads(look \o use, At(h, o), At(h, o))
      BY <1>2, Then
    <3>4. look \o use \in Seq(Moves)
      BY <3>3 DEF Leads
    <3> QED
      BY <3>2, <3>3, <3>4 DEF Paths, Ends
  <2> QED
    BY <2>1, <2>2 DEF ##
<1> QED
  BY <1>7 DEF Neutral, programStatus, look, use

LEMMA Callbacks ==
  ASSUME NEW h \in SUBSET Blocks, NEW o \in Objects, "pixels" \notin h
  PROVE  Neutral(Callback, h, o)
<1> DEFINE U == {"pixels"}
           g == h \cup U
<1>1. U \in SUBSET Blocks /\ U \cap h = {} /\ "pixels" \in Views /\ "answer" \in Views
      /\ "size" \in Views
  BY DEF Blocks, Passing, Views
<1>2. /\ g \in SUBSET Blocks /\ Leads(Get(U), At(h, o), At(g, o))
      /\ Leads(Put(U), At(g, o), At(h, o))
  BY <1>1, Brackets
<1> HIDE DEF g, U
<1>3. /\ Neutral(MayReturn, h, o) /\ Neutral(MayThrow, h, o)
      /\ Neutral(On(Look("answer") \o Use("answer")), h, o)
      /\ Neutral(On(Look("size") \o Use("size")), h, o)
  BY <1>1, NeutralEnds, NeutralSteps
<1>4. Neutral(writePty, h, o) /\ Neutral(size, h, o) /\ Neutral(programStatus, h, o)
  BY <1>3, NeutralThen, StatusCalledBack DEF writePty, size
<1>5. Neutral(Handed, h, o)
  <2> DEFINE Q == [e \in Ends |-> IF e = "on" THEN {At(g, o)} ELSE {}]
             s == Look("pixels") \o Use("pixels") \o Put(U)
  <2>1. /\ Q["on"] = {At(g, o)} /\ Q["return"] = {} /\ Q["throw"] = {}
        /\ At(h, o) \in Same(h, o)["on"]
    BY DEF Same, Ends
  <2>2. Leads(s, At(g, o), At(h, o))
    BY <1>1, <1>2, Looks, Then
  <2> HIDE DEF Q, s
  <2>3. Does(On(Get(U)), At(h, o), Q) /\ Does(On(s), At(g, o), Same(h, o))
    BY <1>2, <2>1, <2>2, DoesOn
  <2>4. Does(On(Get(U)) ## On(s), At(h, o), Same(h, o))
    BY <2>1, <2>3, DoesThen
  <2> QED
    BY <2>4, NeutralDoes DEF Handed, s, U
<1>6. Neutral(decodePng, h, o)
  BY <1>3, <1>5, NeutralCall, NeutralThen DEF decodePng
<1>7. Neutral(Ending("return", Get(U) \o Put(U)), h, o)
  <2>1. Leads(Get(U) \o Put(U), At(h, o), At(h, o))
    BY <1>2, Then
  <2> DEFINE s == Get(U) \o Put(U)
  <2>2. s \in Seq(Moves)
    BY <2>1 DEF Leads
  <2> HIDE DEF s
  <2>3. [steps |-> s, ends |-> "return"] \in Paths
    BY <2>2 DEF Paths, Ends
  <2> SUFFICES ASSUME NEW p \in Ending("return", s)
               PROVE  p \in Paths /\ Leads(p.steps, At(h, o), At(h, o))
    BY DEF Neutral, s
  <2>4. p = [steps |-> s, ends |-> "return"]
    BY DEF Ending
  <2>5. p \in Paths /\ p.steps = s
    BY <2>3, <2>4
  <2>6. Leads(s, At(h, o), At(h, o))
    BY <2>1 DEF s
  <2> QED
    BY <2>5, <2>6
<1>8. Neutral(readSharedMemory, h, o)
  BY <1>3, <1>5, <1>7, NeutralThen, NeutralEither DEF readSharedMemory, U
<1>9. Neutral(writePty \cup programStatus \cup size \cup decodePng \cup readSharedMemory, h, o)
  BY <1>4, <1>6, <1>8, NeutralEither
<1> QED
  BY <1>9, NeutralCall DEF Callback

LEMMA Written ==
  ASSUME NEW h, Whole(h), NEW o \in Objects
  PROVE  Neutral(write, h, o)
<1> DEFINE U == {"input"}
           g == h \cup U
<1>1. /\ U \in SUBSET Passing /\ {"terminal", "input"} \in SUBSET (Parts \cup U)
      /\ "row" \in Views /\ "pixels" \notin U /\ "pixels" \in Passing
  BY DEF Passing, Parts, Views
<1>2. Within(g, U) /\ Within(h, {}) /\ U \cap {} = {}
  BY <1>1, WholeTakes
<1> HIDE DEF U, g
<1>3. g \in SUBSET Blocks /\ "pixels" \notin g
  BY <1>1, <1>2 DEF Within
<1>4. Neutral(On(Engine({"terminal", "input"})), g, o)
  BY <1>1, <1>2, StepsWithin
<1>5. Neutral(Loop(Callback), g, o)
  BY <1>3, Callbacks, NeutralLoop
<1>6. Neutral(On(Engine({"terminal", "input"})) ## Loop(Callback)
                ## On(Engine({"terminal", "input"})), g, o)
  BY <1>4, <1>5, NeutralThen
<1> QED
  BY <1>1, <1>2, <1>6, WithTakes DEF write, g, U

LEMMA Small ==
  ASSUME NEW h, Whole(h), NEW o \in Objects
  PROVE  /\ Neutral(resize, h, o) /\ Neutral(setProgramStatusHandler, h, o)
         /\ Neutral(setKittyImageStorageLimit, h, o) /\ Neutral(getKittyGraphics, h, o)
<1> DEFINE U == {"limit"}
           V == {"graphics"}
<1>1. /\ U \in SUBSET Passing /\ V \in SUBSET Passing /\ "limit" \in Views
      /\ {"terminal"} \in SUBSET (Parts \cup {}) /\ {"terminal"} \in SUBSET (Parts \cup V)
  BY DEF Passing, Parts, Views
<1>2. /\ Within(h, {}) /\ Within(h \cup V, V) /\ U \cap h = {} /\ V \cap {} = {}
      /\ h \in SUBSET Blocks /\ U \in SUBSET Blocks
  BY <1>1, WholeTakes
<1>3. {"terminal"} \in SUBSET Blocks /\ {"terminal"} \subseteq h
  BY <1>1, <1>2, Held
<1>4. Neutral(On(Engine({"terminal"})), h, o) /\ Neutral(MayReturn, h, o) /\ Neutral(MayThrow, h, o)
  BY <1>1, <1>2, StepsWithin, EndsWithin
<1>5. Neutral(resize, h, o) /\ Neutral(setProgramStatusHandler, h, o)
  BY <1>4, NeutralThen DEF resize, setProgramStatusHandler
<1> HIDE DEF V
<1>6. Neutral(On(Field({"terminal"})) ## MayReturn, h \cup V, o)
  BY <1>1, <1>2, StepsWithin, EndsWithin, NeutralThen
<1>7. Neutral(getKittyGraphics, h, o)
  BY <1>1, <1>2, <1>6, WithTakes DEF getKittyGraphics, V
<1> HIDE DEF U
<1>8. Neutral(On(Get(U) \o Look("limit") \o Use("limit") \o Engine({"terminal"}) \o Put(U)), h, o)
  BY <1>1, <1>2, <1>3, Writes
<1> QED
  BY <1>5, <1>7, <1>8 DEF setKittyImageStorageLimit, U

-----------------------------------------------------------------------------
(* Methods that leave another memory than they found: what it is after them when
   their caller goes on, when they return and when they throw. *)

Outcome(B, D, E, o) ==
  [e \in Ends |-> IF e = "on" THEN {At(x, o) : x \in B}
                  ELSE IF e = "return" THEN {At(x, o) : x \in D}
                  ELSE {At(x, o) : x \in E}]

Goes(S, h, o, B, D, E) == Does(S, At(h, o), Outcome(B, D, E, o))

LEMMA Outcomes ==
  ASSUME NEW B, NEW D, NEW E, NEW o
  PROVE  /\ Outcome(B, D, E, o)["on"] = {At(x, o) : x \in B}
         /\ Outcome(B, D, E, o)["return"] = {At(x, o) : x \in D}
         /\ Outcome(B, D, E, o)["throw"] = {At(x, o) : x \in E}
BY DEF Outcome, Ends

LEMMA GoesThen ==
  ASSUME NEW S, NEW R, NEW h, NEW o, NEW B, NEW C, NEW D, NEW E,
         Goes(S, h, o, B, D, E), \A x \in B : Goes(R, x, o, C, D, E)
  PROVE  Goes(S ## R, h, o, C, D, E)
<1> DEFINE Q1 == Outcome(B, D, E, o)
           Q == Outcome(C, D, E, o)
<1>5. /\ Q1["return"] = {At(x, o) : x \in D} /\ Q1["throw"] = {At(x, o) : x \in E}
      /\ Q1["on"] = {At(x, o) : x \in B}
  BY Outcomes
<1>6. Q["return"] = {At(x, o) : x \in D} /\ Q["throw"] = {At(x, o) : x \in E}
  BY Outcomes
<1>1. Q1["return"] = Q["return"] /\ Q1["throw"] = Q["throw"]
      /\ Q1["on"] = {At(x, o) : x \in B}
  BY <1>5, <1>6
<1>2. Does(S, At(h, o), Q1) /\ \A x \in B : Does(R, At(x, o), Q)
  BY DEF Goes
<1> HIDE DEF Q1, Q
<1>3. \A b \in Q1["on"] : Does(R, b, Q)
  BY <1>1, <1>2
<1>4. Does(S ## R, At(h, o), Q)
  BY <1>1, <1>2, <1>3, DoesThen
<1> QED
  BY <1>4 DEF Goes, Q

LEMMA GoesWider ==
  ASSUME NEW S, NEW h, NEW o, NEW B, NEW D, NEW E, Goes(S, h, o, B, D, E),
         NEW B2, NEW D2, NEW E2, B \subseteq B2, D \subseteq D2, E \subseteq E2
  PROVE  Goes(S, h, o, B2, D2, E2)
<1> SUFFICES ASSUME NEW p \in S
             PROVE  /\ p \in Paths
                    /\ \E b \in Outcome(B2, D2, E2, o)[p.ends] : Leads(p.steps, At(h, o), b)
  BY DEF Goes, Does
<1>1. p \in Paths /\ \E b \in Outcome(B, D, E, o)[p.ends] : Leads(p.steps, At(h, o), b)
  BY DEF Goes, Does
<1>2. p.ends \in Ends
  BY <1>1, PathFields
<1>3. Outcome(B, D, E, o)[p.ends] \subseteq Outcome(B2, D2, E2, o)[p.ends]
  BY <1>2 DEF Outcome
<1> QED
  BY <1>1, <1>3

LEMMA GoesEither ==
  ASSUME NEW S, NEW R, NEW h, NEW o, NEW B, NEW D, NEW E,
         Goes(S, h, o, B, D, E), Goes(R, h, o, B, D, E)
  PROVE  Goes(S \cup R, h, o, B, D, E)
BY DoesEither DEF Goes

LEMMA GoesOn ==
  ASSUME NEW s, NEW h, NEW o, NEW g, Leads(s, At(h, o), At(g, o)), NEW B, g \in B,
         NEW D, NEW E
  PROVE  Goes(On(s), h, o, B, D, E)
<1>1. At(g, o) \in Outcome(B, D, E, o)["on"]
  BY Outcomes
<1> QED
  BY <1>1, DoesOn DEF Goes

LEMMA GoesEnds ==
  ASSUME NEW h \in SUBSET Blocks, NEW o \in Objects, NEW B, NEW D, NEW E
  PROVE  /\ h \in B => Goes(Skip, h, o, B, D, E)
         /\ h \in D => Goes(Return, h, o, B, D, E)
         /\ h \in E => Goes(Throw, h, o, B, D, E)
         /\ h \in B /\ h \in D => Goes(MayReturn, h, o, B, D, E)
         /\ h \in B /\ h \in E => Goes(MayThrow, h, o, B, D, E)
<1>1. Leads(<<>>, At(h, o), At(h, o))
  BY NoStep DEF At, States
<1>2. \A e \in Ends : [steps |-> <<>>, ends |-> e] \in Paths
  BY DEF Paths
<1>3. /\ h \in B => At(h, o) \in Outcome(B, D, E, o)["on"]
      /\ h \in D => At(h, o) \in Outcome(B, D, E, o)["return"]
      /\ h \in E => At(h, o) \in Outcome(B, D, E, o)["throw"]
  BY Outcomes
<1>4. \A e \in Ends : At(h, o) \in Outcome(B, D, E, o)[e] => Goes(Ending(e, <<>>), h, o, B, D, E)
  BY <1>1, <1>2 DEF Goes, Does, Ending
<1>5. /\ h \in B => Goes(Skip, h, o, B, D, E)
      /\ h \in D => Goes(Return, h, o, B, D, E)
      /\ h \in E => Goes(Throw, h, o, B, D, E)
  BY <1>3, <1>4 DEF Skip, On, Return, Throw, Ends
<1> QED
  BY <1>5, GoesEither DEF MayReturn, MayThrow

LEMMA GoesNeutral ==
  ASSUME NEW S, NEW h, NEW o, Neutral(S, h, o), NEW B, NEW D, NEW E, h \in B \cap D \cap E
  PROVE  Goes(S, h, o, B, D, E)
<1>1. At(h, o) \in Outcome(B, D, E, o)["on"] \cap Outcome(B, D, E, o)["return"]
                     \cap Outcome(B, D, E, o)["throw"]
  BY Outcomes
<1> QED
  BY <1>1, DoesNeutral DEF Goes

LEMMA GoesCatch ==
  ASSUME NEW S, NEW s, NEW h, NEW o, NEW B, NEW D, NEW E, NEW F, Goes(S, h, o, B, D, E),
         s \in Seq(Moves), \A x \in E : \E y \in F : Leads(s, At(x, o), At(y, o))
  PROVE  Goes(Catch(S, s), h, o, B, D, F)
<1> DEFINE Q1 == Outcome(B, D, E, o)
           Q == Outcome(B, D, F, o)
<1>5. /\ Q1["on"] = {At(x, o) : x \in B} /\ Q1["return"] = {At(x, o) : x \in D}
      /\ Q1["throw"] = {At(x, o) : x \in E}
  BY Outcomes
<1>6. /\ Q["on"] = {At(x, o) : x \in B} /\ Q["return"] = {At(x, o) : x \in D}
      /\ Q["throw"] = {At(x, o) : x \in F}
  BY Outcomes
<1>1. /\ Q1["on"] = Q["on"] /\ Q1["return"] = Q["return"]
      /\ Q1["throw"] = {At(x, o) : x \in E} /\ Q["throw"] = {At(x, o) : x \in F}
  BY <1>5, <1>6
<1>2. Does(S, At(h, o), Q1)
  BY DEF Goes
<1> HIDE DEF Q1, Q
<1>3. \A b \in Q1["throw"] : \E d \in Q["throw"] : Leads(s, b, d)
  BY <1>1
<1>4. Does(Catch(S, s), At(h, o), Q)
  BY <1>1, <1>2, <1>3, DoesCatch
<1> QED
  BY <1>4 DEF Goes, Q

LEMMA GoesFinally ==
  ASSUME NEW S, NEW s, NEW h, NEW o, NEW B, NEW D, NEW E, NEW B2, NEW D2, NEW E2,
         Goes(S, h, o, B, D, E), s \in Seq(Moves),
         \A x \in B : \E y \in B2 : Leads(s, At(x, o), At(y, o)),
         \A x \in D : \E y \in D2 : Leads(s, At(x, o), At(y, o)),
         \A x \in E : \E y \in E2 : Leads(s, At(x, o), At(y, o))
  PROVE  Goes(Finally(S, s), h, o, B2, D2, E2)
<1> DEFINE Q1 == Outcome(B, D, E, o)
           Q == Outcome(B2, D2, E2, o)
<1>1. /\ Q1["on"] = {At(x, o) : x \in B} /\ Q["on"] = {At(x, o) : x \in B2}
      /\ Q1["return"] = {At(x, o) : x \in D} /\ Q["return"] = {At(x, o) : x \in D2}
      /\ Q1["throw"] = {At(x, o) : x \in E} /\ Q["throw"] = {At(x, o) : x \in E2}
  BY Outcomes
<1>2. Does(S, At(h, o), Q1)
  BY DEF Goes
<1> HIDE DEF Q1, Q
<1>3. \A e \in Ends : \A b \in Q1[e] : \E d \in Q[e] : Leads(s, b, d)
  <2> SUFFICES ASSUME NEW e \in {"on", "return", "throw"}, NEW b \in Q1[e]
               PROVE  \E d \in Q[e] : Leads(s, b, d)
    BY DEF Ends
  <2>1. CASE e = "on"
    BY <1>1, <2>1
  <2>2. CASE e = "return"
    BY <1>1, <2>2
  <2>3. CASE e = "throw"
    BY <1>1, <2>3
  <2> QED
    BY <2>1, <2>2, <2>3
<1>4. Does(Finally(S, s), At(h, o), Q)
  BY <1>2, <1>3, DoesFinally
<1> QED
  BY <1>4 DEF Goes, Q

LEMMA GoesWith ==
  ASSUME NEW h \in SUBSET Blocks, NEW o \in Objects, NEW U \in SUBSET Blocks, U \cap h = {},
         NEW R, NEW B, NEW D, NEW E, NEW B2, NEW D2, NEW E2, Goes(R, h \cup U, o, B, D, E),
         \A x \in B \cup D \cup E : x \in SUBSET Blocks /\ U \subseteq x,
         \A x \in B : x \ U \in B2, \A x \in D : x \ U \in D2, \A x \in E : x \ U \in E2
  PROVE  Goes(With(U, R), h, o, B2, D2, E2)
<1>1. Leads(Get(U), At(h, o), At(h \cup U, o))
  BY Gets
<1>2. \A x \in B \cup D \cup E : Leads(Put(U), At(x, o), At(x \ U, o))
  BY Puts
<1>3. Put(U) \in Seq(Moves)
  BY Puts DEF Leads
<1> DEFINE g == h \cup U
           s == Put(U)
<1>7. /\ \A x \in B : \E y \in B2 : Leads(s, At(x, o), At(y, o))
      /\ \A x \in D : \E y \in D2 : Leads(s, At(x, o), At(y, o))
      /\ \A x \in E : \E y \in E2 : Leads(s, At(x, o), At(y, o))
  BY <1>2
<1>8. Goes(R, g, o, B, D, E)
  OBVIOUS
<1> HIDE DEF g, s
<1>9. Goes(Finally(R, s), g, o, B2, D2, E2)
  BY <1>3, <1>7, <1>8, GoesFinally DEF s
<1>4. Goes(Finally(R, Put(U)), h \cup U, o, B2, D2, E2)
  BY <1>9 DEF g, s
<1>5. Goes(On(Get(U)), h, o, {h \cup U}, D2, E2)
  BY <1>1, GoesOn
<1>6. \A x \in {h \cup U} : Goes(Finally(R, Put(U)), x, o, B2, D2, E2)
  BY <1>4
<1> QED
  BY <1>5, <1>6, GoesThen DEF With

-----------------------------------------------------------------------------
(* What may be allocated between two calls. *)
Good(o) == {x \in SUBSET Blocks : Kept(x, o)}

LEMMA KeptWhole ==
  ASSUME NEW h \in SUBSET Blocks, Kept(h, "live")
  PROVE  /\ Whole(h) /\ h \cap ImageParts \in {{}, ImageParts}
         /\ h \ (Parts \cup ImageParts) \subseteq OfKeys
<1>1. h \ (OfKeys \cup ImageParts) = Parts /\ h \cap ImageParts \in {{}, ImageParts}
  BY DEF Kept, Parts
<1>2. Parts \cap Passing = {} /\ (OfKeys \cup ImageParts) \cap Passing = {}
  BY DEF Parts, Handles, OfKeys, ImageParts, Passing
<1> QED
  BY <1>1, <1>2 DEF Whole

LEMMA KeysAround ==
  ASSUME NEW o \in Objects, NEW h \in Good(o), NEW K \in SUBSET OfKeys
  PROVE  h \cup K \in Good(o) /\ h \ K \in Good(o) /\ h \in SUBSET Blocks /\ K \in SUBSET Blocks
<1>1. OfKeys \cap ImageParts = {} /\ OfKeys \subseteq Blocks
  BY DEF OfKeys, ImageParts, Blocks
<1>2. (h \cup K) \ (OfKeys \cup ImageParts) = h \ (OfKeys \cup ImageParts)
      /\ (h \ K) \ (OfKeys \cup ImageParts) = h \ (OfKeys \cup ImageParts)
  OBVIOUS
<1>3. (h \cup K) \cap ImageParts = h \cap ImageParts
      /\ (h \ K) \cap ImageParts = h \cap ImageParts
  BY <1>1
<1> QED
  BY <1>1, <1>2, <1>3 DEF Good, Kept

(* The state stays good whatever a key takes and gives back. *)
LEMMA KeySteps ==
  ASSUME NEW o \in Objects, NEW h \in Good(o), NEW K \in SUBSET OfKeys
  PROVE  /\ Leads(Get(K), At(h, o), At(h \cup K, o))
         /\ K \subseteq h => Leads(Put(K), At(h, o), At(h \ K, o))
         /\ \A F \in SUBSET Blocks : F \subseteq h => Leads(Engine(F), At(h, o), At(h, o))
         /\ Leads(Look("memory"), At(h, o), At(h, o))
         /\ Leads(Use("memory"), At(h, o), At(h, o))
<1>1. h \in SUBSET Blocks /\ K \in SUBSET Blocks /\ Kept(h, o) /\ K \cap h \subseteq OfKeys
  BY KeysAround DEF Good
<1>2. At(h, o) \in States /\ "memory" \in Views
  BY <1>1 DEF At, States, Views
<1>3. Fits([act |-> "use", of |-> {"memory"}], At(h, o))
      /\ Makes([act |-> "use", of |-> {"memory"}], At(h, o), At(h, o))
  BY <1>1 DEF Fits, Makes, At
<1>4. Leads(Use("memory"), At(h, o), At(h, o))
  BY <1>2, <1>3, OneStep, KnownActs, Zenon DEF Use
<1>5. Leads(Look("memory"), At(h, o), At(h, o))
  BY <1>1, <1>2, Looks
<1> QED
  BY <1>1, <1>4, <1>5, Gets, Puts, Calls

LEMMA EncoderMade ==
  ASSUME NEW o \in Objects, NEW h \in Good(o)
  PROVE  Goes(NewKeyEncoder, h, o, Good(o), {}, Good(o))
<1> DEFINE K == {"key slot"}
           L == {"encoder"}
           g == h \cup K
           k == (g \cup L) \ K
<1>1. /\ K \in SUBSET OfKeys /\ L \in SUBSET OfKeys /\ {} \in SUBSET Blocks
      /\ K \subseteq g \cup L
  BY DEF OfKeys
<1> HIDE DEF K, L
<1>2. g \in Good(o)
  BY <1>1, KeysAround
<1> HIDE DEF g
<1>3. g \cup L \in Good(o) /\ g \in SUBSET Blocks
  BY <1>1, <1>2, KeysAround
<1>4. k \in Good(o)
  BY <1>1, <1>3, KeysAround
<1>5. Leads(Get(K), At(h, o), At(g, o))
  BY <1>1, KeySteps DEF g
<1>6. Leads(Engine({}), At(g, o), At(g, o))
  BY <1>1, <1>2, KeySteps
<1>7. Leads(Get(K) \o Engine({}), At(h, o), At(g, o))
  BY <1>5, <1>6, Then
<1>8. Goes(On(Get(K) \o Engine({})), h, o, {g}, {}, Good(o))
  BY <1>7, GoesOn
<1>9. Goes(MayThrow, g, o, {g}, {}, Good(o))
  BY <1>2, <1>3, GoesEnds
<1>10. Goes(On(Get(K) \o Engine({})) ## MayThrow, h, o, {g}, {}, Good(o))
  BY <1>8, <1>9, GoesThen
<1>11. Leads(Get(L), At(g, o), At(g \cup L, o))
  BY <1>1, <1>2, KeySteps
<1>12. Leads(Put(K), At(g \cup L, o), At(k, o))
  BY <1>1, <1>3, KeySteps
<1> HIDE DEF k
<1>13. Leads(Get(L) \o Put(K), At(g, o), At(k, o))
  BY <1>11, <1>12, Then
<1>14. Goes(On(Get(L) \o Put(K)), g, o, Good(o), {}, Good(o))
  BY <1>4, <1>13, GoesOn
<1>15. Goes(On(Get(K) \o Engine({})) ## MayThrow ## On(Get(L) \o Put(K)), h, o, Good(o), {},
            Good(o))
  BY <1>10, <1>14, GoesThen
<1> QED
  BY <1>15 DEF NewKeyEncoder, K, L

LEMMA OptionSet ==
  ASSUME NEW h \in Good("live"), "encoder" \in h
  PROVE  Neutral(SetOption, h, "live")
<1> DEFINE U == {"option"}
           F == {"encoder"}
<1>1. h \in SUBSET Blocks /\ Kept(h, "live") /\ "live" \in Objects
  BY DEF Good, Objects
<1>2. Whole(h)
  BY <1>1, KeptWhole
<1>3. U \in SUBSET Passing /\ F \in SUBSET Blocks /\ F \subseteq h \cup U
  BY DEF Passing, Blocks, OfKeys
<1>4. Within(h \cup U, U) /\ U \cap h = {} /\ U \in SUBSET Blocks
  BY <1>2, <1>3, WholeTakes
<1> HIDE DEF U, F
<1>5. h \cup U \in SUBSET Blocks
  BY <1>1, <1>4
<1>6. Neutral(On(Engine(F)), h \cup U, "live")
  BY <1>1, <1>3, <1>5, NeutralSteps
<1>7. Neutral(With(U, On(Engine(F))), h, "live")
  BY <1>1, <1>4, <1>6, NeutralWith
<1> QED
  BY <1>7 DEF SetOption, U, F

LEMMA KeyEncoded ==
  ASSUME NEW h \in Good("live"), "encoder" \in h
  PROVE  Goes(encode, h, "live", Good("live"), {}, Good("live"))
<1> DEFINE o == "live"
           K == {"event slot"}
           L == {"event"}
           M == {"bytes", "written"}
           N == {"bytes", "written", "event"}
           F == {"encoder", "event"}
           U == {"text"}
           g1 == h \cup K
           g2 == g1 \cup L
           g3 == g2 \ K
           g4 == g3 \cup M
           g5 == g4 \ N
<1>1. /\ K \in SUBSET OfKeys /\ L \in SUBSET OfKeys /\ M \in SUBSET OfKeys
      /\ N \in SUBSET OfKeys /\ {} \in SUBSET Blocks /\ F \in SUBSET Blocks
      /\ L \in SUBSET Blocks /\ U \in SUBSET Passing /\ o \in Objects
  BY DEF OfKeys, Blocks, Passing, Objects
<1>2. K \subseteq g2 /\ N \subseteq g4 /\ F \subseteq g4 /\ L \subseteq g3
  OBVIOUS
<1> HIDE DEF o, K, L, M, N, F, U, g1, g2, g3, g4, g5
<1>3. h \in Good(o)
  BY DEF o
<1>4. g1 \in Good(o)
  BY <1>1, <1>3, KeysAround DEF g1
<1>5. g2 \in Good(o)
  BY <1>1, <1>4, KeysAround DEF g2
<1>6. g3 \in Good(o) /\ g3 \in SUBSET Blocks
  BY <1>1, <1>5, KeysAround DEF g3, Good
<1>7. g4 \in Good(o) /\ g4 \in SUBSET Blocks
  BY <1>1, <1>6, KeysAround DEF g4, Good
<1>8. g5 \in Good(o) /\ g1 \in SUBSET Blocks
  BY <1>1, <1>4, <1>7, KeysAround DEF g5
<1>10. Goes(On(Get(K) \o Engine({})) ## MayThrow, h, o, {g1}, {}, Good(o))
  <2>1. Leads(Get(K), At(h, o), At(g1, o))
    BY <1>1, <1>3, KeySteps DEF g1
  <2>2. Leads(Engine({}), At(g1, o), At(g1, o))
    BY <1>1, <1>4, KeySteps
  <2>3. Leads(Get(K) \o Engine({}), At(h, o), At(g1, o))
    BY <2>1, <2>2, Then
  <2>4. Goes(On(Get(K) \o Engine({})), h, o, {g1}, {}, Good(o))
    BY <2>3, GoesOn
  <2>5. Goes(MayThrow, g1, o, {g1}, {}, Good(o))
    BY <1>1, <1>4, <1>8, GoesEnds
  <2> QED
    BY <2>4, <2>5, GoesThen
<1>11. Goes(On(Get(L) \o Look("memory") \o Put(K)), g1, o, {g3}, {}, Good(o))
  <2>1. Leads(Get(L), At(g1, o), At(g2, o))
    BY <1>1, <1>4, KeySteps DEF g2
  <2>2. Leads(Look("memory"), At(g2, o), At(g2, o)) /\ Leads(Put(K), At(g2, o), At(g3, o))
    BY <1>1, <1>2, <1>5, KeySteps DEF g3
  <2>3. Leads(Get(L) \o Look("memory"), At(g1, o), At(g2, o))
    BY <2>1, <2>2, Then
  <2>4. Leads(Get(L) \o Look("memory") \o Put(K), At(g1, o), At(g3, o))
    BY <2>2, <2>3, Then
  <2> QED
    BY <2>4, GoesOn
<1>12. Goes(Skip \cup With(U, On(Engine(L))), g3, o, {g3}, {}, Good(o))
  <2>1. Whole(g3)
    BY <1>6, KeptWhole DEF Good, o
  <2>2. U \cap g3 = {} /\ U \in SUBSET Blocks
    BY <1>1, <2>1, WholeTakes
  <2>3. g3 \cup U \in SUBSET Blocks /\ L \subseteq g3 \cup U
    BY <1>2, <1>6, <2>2
  <2>4. Leads(Engine(L), At(g3 \cup U, o), At(g3 \cup U, o))
    BY <1>1, <2>3, Calls
  <2>5. Goes(On(Engine(L)), g3 \cup U, o, {g3 \cup U}, {}, {})
    BY <2>4, GoesOn
  <2>6. (g3 \cup U) \ U = g3
    BY <2>2
  <2> DEFINE B == {g3 \cup U}
             C == {g3}
  <2>10. /\ \A x \in B \cup {} \cup {} : x \in SUBSET Blocks /\ U \subseteq x
         /\ \A x \in B : x \ U \in C
    BY <2>3, <2>6
  <2> HIDE DEF B
  <2>11. Goes(On(Engine(L)), g3 \cup U, o, B, {}, {})
    BY <2>5 DEF B
  <2> HIDE DEF C
  <2>12. \A x \in {} : x \ U \in {}
    OBVIOUS
  <2>13. Goes(With(U, On(Engine(L))), g3, o, C, {}, {})
    BY <1>1, <1>6, <2>2, <2>10, <2>11, <2>12, GoesWith
  <2>7. Goes(With(U, On(Engine(L))), g3, o, {g3}, {}, {})
    BY <2>13 DEF C
  <2>8. Goes(Skip, g3, o, {g3}, {}, {})
    BY <1>1, <1>6, GoesEnds
  <2>9. Goes(Skip \cup With(U, On(Engine(L))), g3, o, {g3}, {}, {})
    BY <2>7, <2>8, GoesEither
  <2> QED
    BY <2>9, GoesWider
<1>13. Goes(On(Get(M) \o Engine(F)), g3, o, {g4}, {}, Good(o))
  <2>1. Leads(Get(M), At(g3, o), At(g4, o))
    BY <1>1, <1>6, KeySteps DEF g4
  <2>2. Leads(Engine(F), At(g4, o), At(g4, o))
    BY <1>1, <1>2, <1>7, KeySteps
  <2>3. Leads(Get(M) \o Engine(F), At(g3, o), At(g4, o))
    BY <2>1, <2>2, Then
  <2> QED
    BY <2>3, GoesOn
<1>20. Leads(Put(N), At(g4, o), At(g5, o))
  BY <1>1, <1>2, <1>7, KeySteps DEF g5
<1>14. Goes(Skip \cup Finally(Throw, Put(N)), g4, o, {g4}, {}, Good(o))
  <2>1. Put(N) \in Seq(Moves)
    BY <1>20, LeadsTyped
  <2>2. Goes(Throw, g4, o, {}, {}, {g4}) /\ Goes(Skip, g4, o, {g4}, {}, Good(o))
    BY <1>1, <1>7, GoesEnds
  <2>3. Goes(Finally(Throw, Put(N)), g4, o, {g4}, {}, Good(o))
    BY <1>8, <1>20, <2>1, <2>2, GoesFinally
  <2> QED
    BY <2>2, <2>3, GoesEither
<1>15. Goes(On(Use("memory") \o Put(N)), g4, o, Good(o), {}, Good(o))
  <2>1. Leads(Use("memory"), At(g4, o), At(g4, o))
    BY <1>1, <1>7, KeySteps
  <2>2. Leads(Use("memory") \o Put(N), At(g4, o), At(g5, o))
    BY <2>1, <1>20, Then
  <2> QED
    BY <2>2, <1>8, GoesOn
<1> DEFINE P1 == On(Get(K) \o Engine({})) ## MayThrow ## On(Get(L) \o Look("memory") \o Put(K))
           P2 == P1 ## (Skip \cup With(U, On(Engine(L))))
           P3 == P2 ## On(Get(M) \o Engine(F))
           P4 == P3 ## (Skip \cup Finally(Throw, Put(N)))
<1>16. Goes(P1, h, o, {g3}, {}, Good(o))
  BY <1>10, <1>11, GoesThen
<1> HIDE DEF P1
<1>17. Goes(P2, h, o, {g3}, {}, Good(o))
  BY <1>12, <1>16, GoesThen
<1> HIDE DEF P2
<1>18. Goes(P3, h, o, {g4}, {}, Good(o))
  BY <1>13, <1>17, GoesThen
<1> HIDE DEF P3
<1>19. Goes(P4, h, o, {g4}, {}, Good(o))
  BY <1>14, <1>18, GoesThen
<1> HIDE DEF P4
<1>21. Goes(P4 ## On(Use("memory") \o Put(N)), h, o, Good(o), {}, Good(o))
  BY <1>15, <1>19, GoesThen
<1> QED
  BY <1>21 DEF encode, P1, P2, P3, P4, K, L, M, N, F, U, o

-----------------------------------------------------------------------------
(* Construction.  Until it is whole, a terminal that fails is taken down. *)

(* Whatever happens the memory is the same, and no path returns early. *)
Tries(S, h, o) == Goes(S, h, o, {h}, {}, {h})

LEMMA TriesThen ==
  ASSUME NEW S, NEW R, NEW h, NEW o, Tries(S, h, o), Tries(R, h, o)
  PROVE  Tries(S ## R, h, o) /\ Tries(S \cup R, h, o)
BY GoesThen, GoesEither DEF Tries

LEMMA TriesOn ==
  ASSUME NEW s, NEW h, NEW o, Neutral(On(s), h, o)
  PROVE  Tries(On(s), h, o)
<1>1. [steps |-> s, ends |-> "on"] \in On(s)
  BY DEF On, Ending
<1>2. Leads(s, At(h, o), At(h, o))
  BY <1>1 DEF Neutral
<1> QED
  BY <1>2, GoesOn DEF Tries

LEMMA TriesEnds ==
  ASSUME NEW h \in SUBSET Blocks, NEW o \in Objects
  PROVE  Tries(Skip, h, o) /\ Tries(MayThrow, h, o)
BY GoesEnds DEF Tries

(* While a method has a block of its own. *)
LEMMA WithOne ==
  ASSUME NEW h \in SUBSET Blocks, NEW g \in SUBSET Blocks, NEW k \in SUBSET Blocks,
         NEW o \in Objects, NEW U \in SUBSET Blocks, U \cap h = {}, U \cap g = {},
         U \cap k = {}, NEW R, Goes(R, h \cup U, o, {g \cup U}, {}, {k \cup U})
  PROVE  Goes(With(U, R), h, o, {g}, {}, {k})
<1> DEFINE B == {g \cup U}
           E == {k \cup U}
           B2 == {g}
           E2 == {k}
           D == {}
<1>1. /\ \A x \in B : x \ U \in B2
      /\ \A x \in E : x \ U \in E2
      /\ \A x \in B \cup D \cup E : x \in SUBSET Blocks /\ U \subseteq x
  BY Zenon
<1>2. \A x \in D : x \ U \in D
  OBVIOUS
<1> HIDE DEF B, E, B2, E2, D
<1>3. Goes(R, h \cup U, o, B, D, E)
  BY DEF B, D, E
<1>4. Goes(With(U, R), h, o, B2, D, E2)
  BY <1>1, <1>2, <1>3, GoesWith
<1> QED
  BY <1>4 DEF B2, D, E2

LEMMA TriesWith ==
  ASSUME NEW h \in SUBSET Blocks, NEW o \in Objects, NEW U \in SUBSET Blocks, U \cap h = {},
         NEW R, Tries(R, h \cup U, o)
  PROVE  Tries(With(U, R), h, o)
BY WithOne DEF Tries

-----------------------------------------------------------------------------
(* Setting the new terminal up. *)

LEMMA ConfigApplied ==
  ASSUME NEW h \in SUBSET Blocks, NEW o \in Objects, "terminal" \in h, h \cap Passing = {}
  PROVE  Tries(applyConfig, h, o)
<1> DEFINE U == {"color"}
           V == {"palette"}
           F == {"terminal"}
           g == h \cup V
<1>1. /\ U \in SUBSET Blocks /\ V \in SUBSET Blocks /\ F \in SUBSET Blocks /\ F \subseteq h
      /\ U \cap h = {} /\ V \cap h = {} /\ "rgb" \in Views /\ "colors" \in Views
      /\ g \in SUBSET Blocks /\ F \subseteq g
  BY DEF Passing, Blocks, Views
<1> HIDE DEF U, V, F, g
<1>2. Neutral(On(Get(U) \o Look("rgb") \o Use("rgb") \o Engine(F) \o Put(U)), h, o)
  BY <1>1, Writes
<1>3. Tries(setColorOption, h, o)
  BY <1>2, TriesOn DEF setColorOption, U, F
<1> DEFINE s == Field(F) \o Look("colors") \o Use("colors") \o Engine(F)
<1>4. Leads(Field(F) \o Look("colors") \o Use("colors"), At(g, o), At(g, o))
  BY <1>1, Rows
<1>5. Leads(Engine(F), At(g, o), At(g, o))
  BY <1>1, Calls
<1>6. Leads(s, At(g, o), At(g, o))
  BY <1>4, <1>5, Then
<1> HIDE DEF s
<1>7. Neutral(On(s), g, o)
  BY <1>6, NeutralOn
<1>8. Tries(On(s), g, o)
  BY <1>7, TriesOn
<1>9. Tries(With(V, On(s)), h, o)
  BY <1>1, <1>8, TriesWith DEF g
<1>10. Tries(Skip, h, o)
  BY TriesEnds
<1>11. Tries(Skip \cup setColorOption, h, o) /\ Tries(Skip \cup With(V, On(s)), h, o)
  BY <1>3, <1>9, <1>10, TriesThen
<1>12. Tries((Skip \cup setColorOption) ## (Skip \cup With(V, On(s))), h, o)
  BY <1>11, TriesThen
<1> QED
  BY <1>12 DEF applyConfig, s, V, F

LEMMA OptionsTried ==
  ASSUME NEW h \in SUBSET Blocks, NEW o \in Objects, "terminal" \in h, h \cap Passing = {}
  PROVE  /\ \A option \in Passing : Tries(TerminalOption(option), h, o)
         /\ Tries(setKittyImageStorageLimit, h, o)
         /\ Tries(On(Engine({"terminal"})), h, o)
<1> DEFINE F == {"terminal"}
           L == {"limit"}
<1>1. /\ F \in SUBSET Blocks /\ F \subseteq h /\ L \in SUBSET Blocks /\ L \cap h = {}
      /\ "limit" \in Views
  BY DEF Blocks, Passing, Views
<1> HIDE DEF F, L
<1>2. ASSUME NEW option \in Passing
      PROVE  Tries(TerminalOption(option), h, o)
  <2> DEFINE U == {option}
             g == h \cup U
  <2>1. U \in SUBSET Blocks /\ U \cap h = {} /\ g \in SUBSET Blocks /\ F \subseteq g
    BY <1>1 DEF Blocks
  <2> HIDE DEF U, g
  <2>2. Neutral(On(Engine(F)), g, o)
    BY <1>1, <2>1, NeutralSteps
  <2>3. Tries(On(Engine(F)), g, o) /\ Tries(MayThrow, g, o)
    BY <2>1, <2>2, TriesOn, TriesEnds
  <2>4. Tries(On(Engine(F)) ## MayThrow, g, o)
    BY <2>3, TriesThen
  <2>5. Tries(With(U, On(Engine(F)) ## MayThrow), h, o)
    BY <2>1, <2>4, TriesWith DEF g
  <2> QED
    BY <2>5 DEF TerminalOption, U, F
<1>3. Neutral(On(Get(L) \o Look("limit") \o Use("limit") \o Engine(F) \o Put(L)), h, o)
  BY <1>1, Writes
<1>4. Tries(setKittyImageStorageLimit, h, o)
  BY <1>3, TriesOn DEF setKittyImageStorageLimit, L, F
<1>5. Neutral(On(Engine(F)), h, o)
  BY <1>1, NeutralSteps
<1> QED
  BY <1>2, <1>4, <1>5, TriesOn DEF F

LEMMA CallbacksInstalled ==
  ASSUME NEW h \in SUBSET Blocks, NEW o \in Objects, "terminal" \in h, "route" \notin h
  PROVE  Goes(installCallbacks, h, o, {h \cup {"route"}}, {}, {h, h \cup {"route"}})
<1> DEFINE U == {"route"}
           F == {"terminal"}
           g == h \cup U
           E == {h, g}
<1>1. /\ U \in SUBSET Blocks /\ F \in SUBSET Blocks /\ {} \in SUBSET Blocks /\ F \subseteq g
      /\ U \cap h \subseteq OfKeys /\ g \in SUBSET Blocks /\ h \in E
  BY DEF Blocks
<1> HIDE DEF U, F, g, E
<1>2. Leads(Engine({}), At(h, o), At(h, o))
  BY <1>1, Calls
<1>3. Goes(On(Engine({})), h, o, {h}, {}, E)
  BY <1>2, GoesOn
<1>4. Goes(MayThrow, h, o, {h}, {}, E)
  BY <1>1, GoesEnds
<1>5. Goes(On(Engine({})) ## MayThrow, h, o, {h}, {}, E)
  BY <1>3, <1>4, GoesThen
<1>6. Leads(Get(U), At(h, o), At(g, o)) /\ Leads(Engine(F), At(g, o), At(g, o))
  BY <1>1, Gets, Calls DEF g
<1>7. Leads(Get(U) \o Engine(F), At(h, o), At(g, o))
  BY <1>6, Then
<1>8. Goes(On(Get(U) \o Engine(F)), h, o, {g}, {}, E)
  BY <1>7, GoesOn
<1>9. Goes(On(Engine({})) ## MayThrow ## On(Get(U) \o Engine(F)), h, o, {g}, {}, E)
  BY <1>5, <1>8, GoesThen
<1> QED
  BY <1>9 DEF installCallbacks, U, F, g, E

LEMMA Configured ==
  ASSUME NEW h \in SUBSET Blocks, NEW o \in Objects, "terminal" \in h, "route" \notin h,
         h \cap Passing = {}
  PROVE  Goes(Configure, h, o, {h \cup {"route"}}, {}, {h, h \cup {"route"}})
<1> DEFINE r == h \cup {"route"}
           E == {h, r}
<1>1. r \in SUBSET Blocks /\ "terminal" \in r /\ r \cap Passing = {} /\ r \in E
      /\ "lines" \in Passing /\ "mode" \in Passing /\ "medium" \in Passing
  BY DEF Blocks, Passing
<1>2. Goes(installCallbacks, h, o, {r}, {}, E)
  BY CallbacksInstalled
<1> HIDE DEF r, E
<1>3. /\ Tries(Skip, r, o) /\ Tries(MayThrow, r, o) /\ Tries(applyConfig, r, o)
      /\ Tries(On(Engine({"terminal"})), r, o)
      /\ Tries(TerminalOption("lines"), r, o) /\ Tries(TerminalOption("mode"), r, o)
      /\ Tries(TerminalOption("medium"), r, o) /\ Tries(setKittyImageStorageLimit, r, o)
  BY <1>1, TriesEnds, ConfigApplied, OptionsTried
<1>4. Tries(Skip \cup applyConfig, r, o)
  BY <1>3, TriesThen
<1>5. ASSUME NEW S, NEW R, Goes(S, h, o, {r}, {}, E), Tries(R, r, o)
      PROVE  Goes(S ## R, h, o, {r}, {}, E)
  <2>1. {r} \subseteq E
    BY <1>1
  <2>2. Goes(R, r, o, {r}, {}, E)
    BY <1>5, <2>1, GoesWider DEF Tries
  <2> QED
    BY <1>5, <2>2, GoesThen
<1> DEFINE P1 == installCallbacks ## (Skip \cup applyConfig)
           P2 == P1 ## On(Engine({"terminal"}))
           P3 == P2 ## MayThrow
           P4 == P3 ## MayThrow
           P5 == P4 ## TerminalOption("lines")
           P6 == P5 ## TerminalOption("mode")
           P7 == P6 ## setKittyImageStorageLimit
           P8 == P7 ## MayThrow
           P9 == P8 ## TerminalOption("medium")
<1> HIDE DEF P1, P2, P3, P4, P5, P6, P7, P8, P9
<1>11. Goes(P1, h, o, {r}, {}, E)
  BY <1>2, <1>4, <1>5 DEF P1
<1>12. Goes(P2, h, o, {r}, {}, E)
  BY <1>3, <1>5, <1>11 DEF P2
<1>13. Goes(P3, h, o, {r}, {}, E)
  BY <1>3, <1>5, <1>12 DEF P3
<1>14. Goes(P4, h, o, {r}, {}, E)
  BY <1>3, <1>5, <1>13 DEF P4
<1>15. Goes(P5, h, o, {r}, {}, E)
  BY <1>3, <1>5, <1>14 DEF P5
<1>16. Goes(P6, h, o, {r}, {}, E)
  BY <1>3, <1>5, <1>15 DEF P6
<1>17. Goes(P7, h, o, {r}, {}, E)
  BY <1>3, <1>5, <1>16 DEF P7
<1>18. Goes(P8, h, o, {r}, {}, E)
  BY <1>3, <1>5, <1>17 DEF P8
<1>19. Goes(P9, h, o, {r}, {}, E)
  BY <1>3, <1>5, <1>18 DEF P9
<1>20. Goes(P9, h, o, {h \cup {"route"}}, {}, {h, h \cup {"route"}})
  BY <1>19 DEF r, E
<1> QED
  BY <1>20 DEF Configure, P1, P2, P3, P4, P5, P6, P7, P8, P9

-----------------------------------------------------------------------------
(* Taking it down. *)

LEMMA CleanedUp ==
  ASSUME NEW h \in SUBSET Blocks, NEW o \in Objects, "terminal" \in h
  PROVE  Leads(cleanupOnConstructorFailure, At(h, o), At(h \ Parts, o))
<1> DEFINE R == {"route"}
           T == {"terminal"}
           g1 == h \ R
           g2 == g1 \ Handles
           g3 == g2 \ T
<1>1. R \in SUBSET Blocks /\ T \in SUBSET Blocks /\ Handles \in SUBSET Blocks
  BY DEF Blocks
<1>2. T \subseteq g2 /\ g1 \in SUBSET Blocks /\ g2 \in SUBSET Blocks
  BY DEF Handles
<1>3. g3 = h \ Parts
  BY DEF Parts
<1> HIDE DEF R, T, g1, g2, g3
<1>4. Leads(PutIfHeld(R), At(h, o), At(g1, o))
  BY <1>1, Puts DEF g1
<1>5. Leads(PutIfHeld(Handles), At(g1, o), At(g2, o))
  BY <1>1, <1>2, Puts DEF g2
<1>6. Leads(Put(T), At(g2, o), At(g3, o))
  BY <1>1, <1>2, Puts DEF g3
<1>7. Leads(PutIfHeld(R) \o PutIfHeld(Handles), At(h, o), At(g2, o))
  BY <1>4, <1>5, Then
<1>8. Leads(PutIfHeld(R) \o PutIfHeld(Handles) \o Put(T), At(h, o), At(g3, o))
  BY <1>6, <1>7, Then
<1> QED
  BY <1>3, <1>8 DEF cleanupOnConstructorFailure, R, T

LEMMA Opaque ==
  ASSUME NEW h \in SUBSET Blocks, NEW o \in Objects, "terminal" \in h, h \cap Passing = {},
         NEW handle \in Handles, handle \notin h
  PROVE  Goes(allocOpaqueOrFail(handle), h, o, {h \cup {handle}}, {}, {h \ Parts})
<1> DEFINE U == {"slot"}
           H == {handle}
           g == h \cup H
           k == h \ Parts
           y == h \cup U
           s == cleanupOnConstructorFailure
<1>20. /\ "slot" \in Passing /\ "slot" \notin Parts /\ handle # "slot"
       /\ Passing \subseteq Blocks /\ Handles \subseteq Blocks
  BY DEF Blocks, Passing, Handles, Parts
<1>1. /\ U \in SUBSET Blocks /\ H \in SUBSET Blocks /\ {} \in SUBSET Blocks /\ U \cap h = {}
      /\ U \cap g = {} /\ U \cap k = {} /\ g \in SUBSET Blocks /\ k \in SUBSET Blocks
      /\ y \in SUBSET Blocks /\ y \ Parts = k \cup U /\ y \cup H = g \cup U
      /\ H \cap y \subseteq OfKeys
  BY <1>20
<1>2. Leads(s, At(h, o), At(k, o)) /\ Leads(s, At(y, o), At(k \cup U, o))
  <2>1. Leads(s, At(h, o), At(h \ Parts, o))
    BY CleanedUp
  <2>2. Leads(s, At(y, o), At(y \ Parts, o))
    BY <1>1, CleanedUp
  <2> QED
    BY <1>1, <2>1, <2>2
<1> HIDE DEF U, H, g, k, y, s
<1>3. s \in Seq(Moves)
  BY <1>2, LeadsTyped
<1>4. Goes(MayThrow, h, o, {h}, {}, {h}) /\ Goes(MayThrow, y, o, {y}, {}, {y})
  BY <1>1, GoesEnds
<1>5. Goes(Catch(MayThrow, s), h, o, {h}, {}, {k})
  BY <1>2, <1>3, <1>4, GoesCatch
<1>6. Leads(Engine({}), At(y, o), At(y, o)) /\ Leads(Get(H), At(y, o), At(y \cup H, o))
  BY <1>1, Calls, Gets
<1>7. Goes(On(Engine({})), y, o, {y}, {}, {y})
  BY <1>6, GoesOn
<1>8. Goes(On(Engine({})) ## MayThrow, y, o, {y}, {}, {y})
  BY <1>4, <1>7, GoesThen
<1> DEFINE C == Catch(On(Engine({})) ## MayThrow, s)
<1>9. Goes(C, y, o, {y}, {}, {k \cup U})
  BY <1>2, <1>3, <1>8, GoesCatch
<1> HIDE DEF C
<1>10. Goes(On(Get(H)), y, o, {g \cup U}, {}, {k \cup U})
  BY <1>1, <1>6, GoesOn
<1>11. Goes(C ## On(Get(H)), y, o, {g \cup U}, {}, {k \cup U})
  BY <1>9, <1>10, GoesThen
<1>12. Goes(With(U, C ## On(Get(H))), h, o, {g}, {}, {k})
  BY <1>1, <1>11, WithOne DEF y
<1>13. Goes(Catch(MayThrow, s) ## With(U, C ## On(Get(H))), h, o, {g}, {}, {k})
  BY <1>5, <1>12, GoesThen
<1> QED
  BY <1>13 DEF allocOpaqueOrFail, U, C, H, s, g, k

LEMMA NewTerminal ==
  ASSUME NEW h \in SUBSET Blocks, NEW o \in Objects, "terminal" \notin h, h \cap Passing = {}
  PROVE  Goes(TerminalNew, h, o, {h \cup {"terminal"}}, {}, {h})
<1> DEFINE U == {"slot"}
           T == {"terminal"}
           g == h \cup T
           y == h \cup U
<1>1. /\ U \in SUBSET Blocks /\ T \in SUBSET Blocks /\ {} \in SUBSET Blocks /\ U \cap h = {}
      /\ U \cap g = {} /\ g \in SUBSET Blocks /\ y \in SUBSET Blocks
      /\ y \cup T = g \cup U /\ T \cap y \subseteq OfKeys
  BY DEF Blocks, Passing
<1> HIDE DEF U, T, g, y
<1>2. Goes(MayThrow, h, o, {h}, {}, {h}) /\ Goes(MayThrow, y, o, {y}, {}, {y})
  BY <1>1, GoesEnds
<1>3. Leads(Engine({}), At(y, o), At(y, o)) /\ Leads(Get(T), At(y, o), At(g \cup U, o))
  <2>1. Leads(Get(T), At(y, o), At(y \cup T, o))
    BY <1>1, Gets
  <2> QED
    BY <1>1, <2>1, Calls
<1>4. Goes(On(Engine({})), y, o, {y}, {}, {y}) /\ Goes(On(Get(T)), y, o, {g \cup U}, {}, {y})
  BY <1>3, GoesOn
<1>5. Goes(On(Engine({})) ## MayThrow, y, o, {y}, {}, {y})
  BY <1>2, <1>4, GoesThen
<1>6. Goes(On(Engine({})) ## MayThrow ## On(Get(T)), y, o, {g \cup U}, {}, {y})
  BY <1>4, <1>5, GoesThen
<1>7. Goes(With(U, On(Engine({})) ## MayThrow ## On(Get(T))), h, o, {g}, {}, {h})
  BY <1>1, <1>6, WithOne DEF y
<1>8. Goes(MayThrow ## With(U, On(Engine({})) ## MayThrow ## On(Get(T))), h, o, {g}, {}, {h})
  BY <1>2, <1>7, GoesThen
<1> QED
  BY <1>8 DEF TerminalNew, U, T, g

-----------------------------------------------------------------------------
(* A terminal from nothing, and back to nothing. *)

(* A method ends in a state in which nothing is left over. *)
GoodEnds == [e \in Ends |-> {b \in States : Kept(b.heap, b.object)}]
Safe(S, h, o) == Does(S, At(h, o), GoodEnds)

LEMMA GoodStates ==
  /\ GoodEnds["on"] = {b \in States : Kept(b.heap, b.object)}
  /\ GoodEnds["return"] = {b \in States : Kept(b.heap, b.object)}
  /\ GoodEnds["throw"] = {b \in States : Kept(b.heap, b.object)}
  /\ \A o \in Objects : \A h \in Good(o) :
       At(h, o) \in States /\ Kept(At(h, o).heap, At(h, o).object)
<1>1. /\ GoodEnds["on"] = {b \in States : Kept(b.heap, b.object)}
      /\ GoodEnds["return"] = {b \in States : Kept(b.heap, b.object)}
      /\ GoodEnds["throw"] = {b \in States : Kept(b.heap, b.object)}
  BY DEF GoodEnds, Ends
<1>2. \A o \in Objects : \A h \in Good(o) :
        At(h, o) \in States /\ At(h, o).heap = h /\ At(h, o).object = o
  BY DEF Good, At, States
<1>3. \A o \in Objects : \A h \in Good(o) : Kept(h, o)
  BY DEF Good
<1> QED
  BY <1>1, <1>2, <1>3

LEMMA SafeGoes ==
  ASSUME NEW S, NEW h, NEW o \in Objects, NEW B, NEW D, NEW E, Goes(S, h, o, B, D, E),
         B \cup D \cup E \subseteq Good(o)
  PROVE  Safe(S, h, o)
<1> SUFFICES ASSUME NEW p \in S
             PROVE  p \in Paths /\ \E b \in GoodEnds[p.ends] : Leads(p.steps, At(h, o), b)
  BY DEF Safe, Does
<1>1. p \in Paths /\ \E b \in Outcome(B, D, E, o)[p.ends] : Leads(p.steps, At(h, o), b)
  BY DEF Goes, Does
<1>2. p.ends \in Ends
  BY <1>1, PathFields
<1>3. PICK b \in Outcome(B, D, E, o)[p.ends] : Leads(p.steps, At(h, o), b)
  BY <1>1
<1>4. \E x \in B \cup D \cup E : b = At(x, o)
  BY <1>2, <1>3 DEF Outcome
<1>5. PICK x \in Good(o) : b = At(x, o)
  BY <1>4
<1>6. b \in States /\ Kept(b.heap, b.object)
  BY <1>5, GoodStates
<1>7. GoodEnds[p.ends] = {c \in States : Kept(c.heap, c.object)}
  BY <1>2 DEF GoodEnds
<1> QED
  BY <1>1, <1>3, <1>6, <1>7

LEMMA SafeNeutral ==
  ASSUME NEW S, NEW o \in Objects, NEW h \in Good(o), Neutral(S, h, o)
  PROVE  Safe(S, h, o)
<1>1. Goes(S, h, o, {h}, {h}, {h})
  BY GoesNeutral
<1> QED
  BY <1>1, SafeGoes

LEMMA SafeEither ==
  ASSUME NEW S, NEW R, NEW h, NEW o, Safe(S, h, o), Safe(R, h, o)
  PROVE  Safe(S \cup R, h, o)
BY DoesEither DEF Safe

LEMMA Becoming ==
  ASSUME NEW h \in SUBSET Blocks, NEW o \in Objects, NEW x \in Objects
  PROVE  Leads(Becomes(x), At(h, o), At(h, x))
<1>1. At(h, o) \in States /\ At(h, x) \in States
  BY DEF At, States
<1>2. {x} \in SUBSET (Blocks \cup Views \cup Objects)
  OBVIOUS
<1>3. (CHOOSE y \in {x} : TRUE) = x
  OBVIOUS
<1>4. Fits([act |-> "becomes", of |-> {x}], At(h, o))
  BY DEF Fits
<1>5. Makes([act |-> "becomes", of |-> {x}], At(h, o), At(h, x))
  BY <1>3 DEF Makes, At
<1> QED
  BY <1>1, <1>2, <1>4, <1>5, OneStep, KnownActs, Zenon DEF Becomes

LEMMA Constructed ==
  ASSUME NEW o \in {"none", "freed"}, NEW h \in SUBSET OfKeys
  PROVE  Safe(createTerminal, h, o)
<1> DEFINE t == h \cup {"terminal"}
           r == t \cup {"route"}
           r1 == r \cup {"render"}
           r2 == r1 \cup {"rowIter"}
           r3 == r2 \cup {"rowCells"}
<1>1. /\ h \in SUBSET Blocks /\ t \in SUBSET Blocks /\ r \in SUBSET Blocks
      /\ r1 \in SUBSET Blocks /\ r2 \in SUBSET Blocks /\ r3 \in SUBSET Blocks
      /\ o \in Objects
  BY DEF Blocks, Handles, Objects
<1>2. OfKeys \cap Parts = {} /\ OfKeys \cap Passing = {} /\ Parts \cap Passing = {}
      /\ OfKeys \cap ImageParts = {} /\ Parts \cap ImageParts = {}
  BY DEF OfKeys, Parts, Handles, Passing, ImageParts
<1>30. Parts = {"terminal", "route", "render", "rowIter", "rowCells"}
  BY DEF Parts, Handles
<1>3. /\ "terminal" \notin h /\ "route" \notin t /\ h \cap Passing = {} /\ t \cap Passing = {}
      /\ r \cap Passing = {} /\ r1 \cap Passing = {} /\ r2 \cap Passing = {}
  BY <1>2, <1>30
<1>4. t \ Parts = h /\ r \ Parts = h /\ r1 \ Parts = h /\ r2 \ Parts = h
  BY <1>2, <1>30
<1>5. /\ "render" \in Handles /\ "rowIter" \in Handles /\ "rowCells" \in Handles
      /\ "render" \notin r /\ "rowIter" \notin r1 /\ "rowCells" \notin r2
  BY <1>2, <1>30 DEF Handles
<1>6. "terminal" \in t /\ "terminal" \in r /\ "terminal" \in r1 /\ "terminal" \in r2
  OBVIOUS
<1>7. r3 \in Good("live") /\ h \in Good(o)
  <2>1. r3 = h \cup Parts
    BY <1>30
  <2>2. r3 \ (OfKeys \cup ImageParts) = Parts /\ r3 \cap ImageParts = {}
    BY <1>2, <2>1
  <2> QED
    BY <1>1, <2>2 DEF Good, Kept, Parts
<1> HIDE DEF r3
<1>8. Goes(TerminalNew, h, o, {t}, {}, {h})
  BY <1>1, <1>3, NewTerminal
<1>9. Goes(Catch(Configure, cleanupOnConstructorFailure), t, o, {r}, {}, {h})
  <2>1. Goes(Configure, t, o, {r}, {}, {t, r})
    BY <1>1, <1>3, <1>6, Configured
  <2>2. Leads(cleanupOnConstructorFailure, At(t, o), At(h, o))
        /\ Leads(cleanupOnConstructorFailure, At(r, o), At(h, o))
    <3>1. Leads(cleanupOnConstructorFailure, At(t, o), At(t \ Parts, o))
      BY <1>1, <1>6, CleanedUp
    <3>2. Leads(cleanupOnConstructorFailure, At(r, o), At(r \ Parts, o))
      BY <1>1, <1>6, CleanedUp
    <3> QED
      BY <3>1, <3>2, <1>4
  <2>3. cleanupOnConstructorFailure \in Seq(Moves)
    BY <2>2, LeadsTyped
  <2> HIDE DEF t, r
  <2> QED
    BY <2>1, <2>2, <2>3, GoesCatch
<1>10. Goes(allocOpaqueOrFail("render"), r, o, {r1}, {}, {h})
  <2>1. Goes(allocOpaqueOrFail("render"), r, o, {r1}, {}, {r \ Parts})
    BY <1>1, <1>3, <1>5, <1>6, Opaque
  <2> QED
    BY <2>1, <1>4
<1>11. Goes(allocOpaqueOrFail("rowIter"), r1, o, {r2}, {}, {h})
  <2>1. Goes(allocOpaqueOrFail("rowIter"), r1, o, {r2}, {}, {r1 \ Parts})
    BY <1>1, <1>3, <1>5, <1>6, Opaque
  <2> QED
    BY <2>1, <1>4
<1>12. Goes(allocOpaqueOrFail("rowCells"), r2, o, {r3}, {}, {h})
  <2>1. Goes(allocOpaqueOrFail("rowCells"), r2, o, {r3}, {}, {r2 \ Parts})
    BY <1>1, <1>3, <1>5, <1>6, Opaque DEF r3
  <2> QED
    BY <2>1, <1>4
<1> HIDE DEF t, r, r1, r2
<1> DEFINE P1 == TerminalNew ## Catch(Configure, cleanupOnConstructorFailure)
           P2 == P1 ## allocOpaqueOrFail("render")
           P3 == P2 ## allocOpaqueOrFail("rowIter")
           P4 == P3 ## allocOpaqueOrFail("rowCells")
<1>13. Goes(P1, h, o, {r}, {}, {h})
  BY <1>8, <1>9, GoesThen
<1> HIDE DEF P1
<1>14. Goes(P2, h, o, {r1}, {}, {h})
  BY <1>10, <1>13, GoesThen
<1> HIDE DEF P2
<1>15. Goes(P3, h, o, {r2}, {}, {h})
  BY <1>11, <1>14, GoesThen
<1> HIDE DEF P3
<1>16. Goes(P4, h, o, {r3}, {}, {h})
  BY <1>12, <1>15, GoesThen
<1> HIDE DEF P4
<1>17. Safe(P4 ## On(Becomes("live")), h, o)
  <2> DEFINE Q1 == Outcome({r3}, {}, {h}, o)
  <2>1. /\ Q1["on"] = {At(x, o) : x \in {r3}} /\ Q1["return"] = {At(x, o) : x \in {}}
        /\ Q1["throw"] = {At(x, o) : x \in {h}}
    BY Outcomes
  <2>2. Leads(Becomes("live"), At(r3, o), At(r3, "live"))
    BY <1>1, Becoming DEF Objects
  <2>3. At(r3, "live") \in GoodEnds["on"] /\ At(h, o) \in GoodEnds["throw"]
    BY <1>1, <1>7, GoodStates DEF Objects
  <2>4. Does(On(Becomes("live")), At(r3, o), GoodEnds)
    BY <2>2, <2>3, DoesOn
  <2>5. Does(P4, At(h, o), Q1)
    BY <1>16 DEF Goes
  <2> HIDE DEF Q1
  <2>6. \A b \in Q1["on"] : Does(On(Becomes("live")), b, GoodEnds)
    BY <2>1, <2>4
  <2>7. Q1["return"] \subseteq GoodEnds["return"] /\ Q1["throw"] \subseteq GoodEnds["throw"]
    BY <2>1, <2>3
  <2>8. Does(P4 ## On(Becomes("live")), At(h, o), GoodEnds)
    BY <2>5, <2>6, <2>7, DoesThen
  <2> QED
    BY <2>8 DEF Safe
<1> QED
  BY <1>17 DEF createTerminal, P1, P2, P3, P4

LEMMA Freed ==
  ASSUME NEW h \in Good("live")
  PROVE  /\ h \cap OfKeys \in SUBSET OfKeys /\ h \cap OfKeys \in SUBSET Blocks
         /\ \E s : free = On(s) /\ Leads(s, At(h, "live"), At(h \cap OfKeys, "live"))
<1> DEFINE o == "live"
           R == {"route"}
           I == {"image iterator", "image scratch"}
           T == {"terminal"}
           g1 == h \ R
           g2 == g1 \ Handles
           g3 == g2 \ I
           k == h \cap OfKeys
<1>1. /\ R \in SUBSET Blocks /\ T \in SUBSET Blocks /\ Handles \in SUBSET Blocks
      /\ I \in SUBSET Blocks /\ o \in Objects
  BY DEF Blocks, ImageParts, Objects
<1>2. h \in SUBSET Blocks /\ Kept(h, o)
  BY DEF Good
<1>3. h \ (OfKeys \cup ImageParts) = Parts /\ I = ImageParts /\ Parts = R \cup T \cup Handles
  BY <1>2 DEF Kept, Parts, ImageParts
<1>4. OfKeys \cap Parts = {} /\ OfKeys \cap ImageParts = {} /\ Parts \cap ImageParts = {}
      /\ "terminal" \notin Handles /\ "terminal" # "route" /\ "terminal" \in Parts
  BY DEF OfKeys, Parts, Handles, ImageParts
<1>5. g1 \in SUBSET Blocks /\ g2 \in SUBSET Blocks /\ g3 \in SUBSET Blocks /\ T \subseteq g3
  BY <1>2, <1>3, <1>4
<1>6. g3 \ T = k
  BY <1>3, <1>4
<1> HIDE DEF o, R, I, T, g1, g2, g3, k
<1>7. Leads(PutIfHeld(R), At(h, o), At(g1, o))
  BY <1>1, <1>2, Puts DEF g1
<1>8. Leads(PutIfHeld(Handles), At(g1, o), At(g2, o))
  BY <1>1, <1>5, Puts DEF g2
<1>9. Leads(PutIfHeld(I), At(g2, o), At(g3, o))
  BY <1>1, <1>5, Puts DEF g3
<1>10. Leads(Put(T), At(g3, o), At(g3 \ T, o))
  BY <1>1, <1>5, Puts
<1>11. Leads(PutIfHeld(R) \o PutIfHeld(Handles), At(h, o), At(g2, o))
  BY <1>7, <1>8, Then
<1>12. Leads(PutIfHeld(R) \o PutIfHeld(Handles) \o PutIfHeld(I), At(h, o), At(g3, o))
  BY <1>9, <1>11, Then
<1>13. Leads(PutIfHeld(R) \o PutIfHeld(Handles) \o PutIfHeld(I) \o Put(T), At(h, o), At(k, o))
  BY <1>6, <1>10, <1>12, Then
<1>14. free = On(PutIfHeld(R) \o PutIfHeld(Handles) \o PutIfHeld(I) \o Put(T))
  BY DEF free, R, I, T
<1>15. \E s : free = On(s) /\ Leads(s, At(h, o), At(k, o))
  BY <1>13, <1>14
<1>16. h \cap OfKeys \in SUBSET OfKeys /\ h \cap OfKeys \in SUBSET Blocks
  BY <1>2
<1> QED
  BY <1>15, <1>16 DEF o, k

LEMMA Ended ==
  ASSUME NEW h \in Good("live")
  PROVE  Safe(reset, h, "live") /\ Safe(dispose, h, "live")
<1> DEFINE k == h \cap OfKeys
<1>1. k \in SUBSET OfKeys /\ k \in SUBSET Blocks
  BY Freed
<1>2. PICK s : free = On(s) /\ Leads(s, At(h, "live"), At(k, "live"))
  BY Freed
<1>0. "live" \in Objects /\ "freed" \in Objects /\ "none" \in Objects
  BY DEF Objects
<1>3. Leads(Becomes("freed"), At(k, "live"), At(k, "freed"))
      /\ Leads(Becomes("none"), At(k, "live"), At(k, "none"))
  BY <1>0, <1>1, Becoming
<1> HIDE DEF k
<1> DEFINE Q1 == [e \in Ends |-> IF e = "on" THEN {At(k, "live")} ELSE {}]
           Q2 == [e \in Ends |-> IF e = "on" THEN {At(k, "freed")} ELSE {}]
<1>4. /\ Q1["on"] = {At(k, "live")} /\ Q1["return"] = {} /\ Q1["throw"] = {}
      /\ Q2["on"] = {At(k, "freed")} /\ Q2["return"] = {} /\ Q2["throw"] = {}
  BY DEF Ends
<1> HIDE DEF Q1, Q2
<1>5. Does(free, At(h, "live"), Q1)
  BY <1>2, <1>4, DoesOn
<1>6. Safe(reset, h, "live")
  <2>1. Does(On(Becomes("freed")), At(k, "live"), Q2)
    BY <1>3, <1>4, DoesOn
  <2>2. \A b \in Q1["on"] : Does(On(Becomes("freed")), b, Q2)
    BY <1>4, <2>1
  <2>3. Does(free ## On(Becomes("freed")), At(h, "live"), Q2)
    BY <1>4, <1>5, <2>2, DoesThen
  <2>4. Does(createTerminal, At(k, "freed"), GoodEnds)
    BY <1>1, Constructed DEF Safe
  <2>5. \A b \in Q2["on"] : Does(createTerminal, b, GoodEnds)
    BY <1>4, <2>4
  <2>6. Does(free ## On(Becomes("freed")) ## createTerminal, At(h, "live"), GoodEnds)
    BY <1>4, <2>3, <2>5, DoesThen
  <2> QED
    BY <2>6 DEF Safe, reset
<1>7. Safe(dispose, h, "live")
  <2>1. k \in Good("none")
    BY <1>1 DEF Good, Kept
  <2>2. At(k, "none") \in GoodEnds["on"]
    BY <1>0, <2>1, GoodStates
  <2>3. Does(On(Becomes("none")), At(k, "live"), GoodEnds)
    BY <1>3, <2>2, DoesOn
  <2>4. \A b \in Q1["on"] : Does(On(Becomes("none")), b, GoodEnds)
    BY <1>4, <2>3
  <2>5. Does(free ## On(Becomes("none")), At(h, "live"), GoodEnds)
    BY <1>4, <1>5, <2>4, DoesThen
  <2> QED
    BY <2>5 DEF Safe, dispose
<1> QED
  BY <1>6, <1>7

-----------------------------------------------------------------------------
(* Images. *)

LEMMA NeutralFinally ==
  ASSUME NEW S, NEW s, NEW h, NEW o, Neutral(S, h, o), Leads(s, At(h, o), At(h, o))
  PROVE  Neutral(Finally(S, s), h, o)
<1>1. Does(S, At(h, o), Same(h, o))
  BY DoesSame
<1>2. s \in Seq(Moves)
  BY LeadsTyped
<1>3. \A e \in Ends : \A b \in Same(h, o)[e] : \E d \in Same(h, o)[e] : Leads(s, b, d)
  BY DEF Same
<1>4. Does(Finally(S, s), At(h, o), Same(h, o))
  BY <1>1, <1>2, <1>3, DoesFinally
<1> QED
  BY <1>4, NeutralDoes

LEMMA ImagesStarted ==
  ASSUME heap \in Good("live")
  PROVE  /\ Goes(init, heap, "live", {heap \cup ImageParts}, {}, Good("live"))
         /\ heap \cup ImageParts \in Good("live")
<1> DEFINE o == "live"
           U == {"image scratch"}
           V == {"image iterator"}
           g == heap \cup U
           k == heap \cup ImageParts
<1>1. /\ heap \in SUBSET Blocks /\ Kept(heap, o) /\ o \in Objects
      /\ heap \cap ImageParts \in {{}, ImageParts} /\ U \in SUBSET Blocks
      /\ V \in SUBSET Blocks /\ ImageParts \in SUBSET Blocks /\ {} \in SUBSET Blocks
  BY KeptWhole DEF Good, Objects, Blocks, ImageParts
<1>6. U \cup V = ImageParts
  BY DEF ImageParts
<1>2. g \in SUBSET Blocks /\ k \in SUBSET Blocks /\ g \cup V = k
  BY <1>1, <1>6
<1>3. k \in Good(o)
  <2>1. k \ (OfKeys \cup ImageParts) = heap \ (OfKeys \cup ImageParts)
        /\ k \cap ImageParts = ImageParts
    OBVIOUS
  <2> QED
    BY <1>1, <1>2, <2>1 DEF Good, Kept
<1>4. CASE "image scratch" \in heap
  <2>1. "image scratch" \in ImageParts
    BY DEF ImageParts
  <2>2. k = heap
    BY <1>1, <1>4, <2>1
  <2>3. init = Skip
    BY <1>4 DEF init
  <2>4. Goes(Skip, heap, o, {heap}, {}, Good(o))
    BY <1>1, GoesEnds
  <2> QED
    BY <1>3, <2>2, <2>3, <2>4
<1>5. CASE "image scratch" \notin heap
  <2>0. "image scratch" \in ImageParts /\ "image iterator" \in ImageParts
        /\ "image scratch" # "image iterator"
    BY DEF ImageParts
  <2>1. heap \cap ImageParts = {}
    BY <1>1, <1>5, <2>0
  <2>2. /\ U \cap heap \subseteq OfKeys /\ V \cap g \subseteq OfKeys /\ g \ U = heap
        /\ U \subseteq g
    BY <2>0, <2>1
  <2>3. init = MayThrow ## On(Get(U) \o Engine({}))
                 ## Catch(MayThrow, Put(U)) ## On(Get(V))
    BY <1>5 DEF init
  <2> HIDE DEF U, V, g, k, o
  <2>4. Leads(Get(U), At(heap, o), At(g, o)) /\ Leads(Engine({}), At(g, o), At(g, o))
    BY <1>1, <1>2, <2>2, Gets, Calls DEF g
  <2>5. Leads(Get(U) \o Engine({}), At(heap, o), At(g, o))
    BY <2>4, Then
  <2>6. Goes(On(Get(U) \o Engine({})), heap, o, {g}, {}, {heap})
    BY <2>5, GoesOn
  <2>7. Goes(MayThrow, heap, o, {heap}, {}, {heap}) /\ Goes(MayThrow, g, o, {g}, {}, {g})
    BY <1>1, <1>2, GoesEnds
  <2>8. Leads(Put(U), At(g, o), At(g \ U, o))
    BY <1>1, <1>2, <2>2, Puts
  <2>9. Leads(Put(U), At(g, o), At(heap, o)) /\ Put(U) \in Seq(Moves)
    BY <2>2, <2>8, LeadsTyped
  <2>10. Goes(Catch(MayThrow, Put(U)), g, o, {g}, {}, {heap})
    BY <2>7, <2>9, GoesCatch
  <2>11. Leads(Get(V), At(g, o), At(g \cup V, o))
    BY <1>1, <1>2, <2>2, Gets
  <2>12. Leads(Get(V), At(g, o), At(k, o))
    BY <1>2, <2>11
  <2>13. Goes(On(Get(V)), g, o, {k}, {}, {heap})
    BY <2>12, GoesOn
  <2>14. Goes(MayThrow ## On(Get(U) \o Engine({})), heap, o, {g}, {}, {heap})
    BY <2>6, <2>7, GoesThen
  <2> DEFINE P == MayThrow ## On(Get(U) \o Engine({}))
             P2 == P ## Catch(MayThrow, Put(U))
  <2> HIDE DEF P
  <2>15. Goes(P2, heap, o, {g}, {}, {heap})
    BY <2>10, <2>14, GoesThen DEF P
  <2> HIDE DEF P2
  <2>16. Goes(P2 ## On(Get(V)), heap, o, {k}, {}, {heap})
    BY <2>13, <2>15, GoesThen
  <2>17. {heap} \subseteq Good(o)
    BY DEF o
  <2>18. Goes(P2 ## On(Get(V)), heap, o, {k}, {}, Good(o))
    BY <2>16, <2>17, GoesWider
  <2>19. Goes(init, heap, o, {k}, {}, Good(o))
    BY <2>3, <2>18 DEF P, P2
  <2> QED
    BY <1>3, <2>19 DEF k, o
<1> QED
  BY <1>4, <1>5

(* Once they can be read. *)
LEMMA ImagesRead ==
  ASSUME NEW h \in Good("live"), ImageParts \subseteq h
  PROVE  /\ Neutral(graphics, h, "live") /\ Neutral(captureFrame, h, "live")
         /\ Neutral(scroll, h, "live") /\ Neutral(MayReturn, h, "live")
         /\ Neutral(On(Engine({"terminal", "image scratch"})), h, "live")
         /\ Neutral(Finally(captureFrame, Engine({"terminal", "image scratch"})
                                            \o Engine({"render", "terminal"})), h, "live")
<1> DEFINE o == "live"
           F == {"terminal", "image scratch"}
           G == {"render", "image scratch"}
           H == {"render"} \cup ImageParts
           T == {"render", "terminal"}
<1>1. /\ h \in SUBSET Blocks /\ Whole(h) /\ o \in Objects
      /\ "placement" \in Views /\ "scroll" \in Views
  BY KeptWhole DEF Good, Objects, Views
<1>20. /\ "terminal" \in h /\ "render" \in h /\ "image scratch" \in h
  BY <1>1 DEF Whole, Parts, Handles, ImageParts
<1>2. /\ F \in SUBSET Blocks /\ G \in SUBSET Blocks /\ H \in SUBSET Blocks
      /\ T \in SUBSET Blocks /\ ImageParts \in SUBSET Blocks
      /\ F \subseteq h /\ G \subseteq h /\ H \subseteq h /\ T \subseteq h
  BY <1>1, <1>20
<1> HIDE DEF o, F, G, H, T
<1>3. /\ Neutral(On(Field(F)), h, o) /\ Neutral(On(Field(G)), h, o)
      /\ Neutral(On(Engine(H)), h, o) /\ Neutral(On(Engine(F)), h, o)
      /\ Neutral(On(Field(ImageParts) \o Look("placement") \o Use("placement")), h, o)
      /\ Neutral(On(Look("scroll") \o Use("scroll") \o Engine(F)), h, o)
  BY <1>1, <1>2, NeutralSteps
<1>4. /\ Neutral(update, h, o) /\ Neutral(MayReturn, h, o) /\ Neutral(Skip, h, o)
  BY <1>1, WholeReads, NeutralEnds
<1>5. Neutral(graphics, h, o) /\ Neutral(scroll, h, o)
  BY <1>3 DEF graphics, scroll, F
<1> DEFINE L == Loop(On(Field(ImageParts) \o Look("placement") \o Use("placement")))
<1>6. Neutral(L, h, o)
  BY <1>1, <1>3, NeutralLoop
<1> HIDE DEF L
<1>7. Neutral(Skip \cup On(Engine(H)) ## L, h, o)
  BY <1>3, <1>4, <1>6, NeutralThen, NeutralEither
<1>8. Neutral(graphics ## update ## On(Field(G)), h, o)
  BY <1>3, <1>4, <1>5, NeutralThen
<1>9. Neutral(graphics ## update ## On(Field(G)) ## (Skip \cup On(Engine(H)) ## L), h, o)
  BY <1>7, <1>8, NeutralThen
<1>10. Neutral(captureFrame, h, o)
  BY <1>9 DEF captureFrame, G, H, L
<1>11. Leads(Engine(F), At(h, o), At(h, o)) /\ Leads(Engine(T), At(h, o), At(h, o))
  BY <1>1, <1>2, Calls
<1>12. Leads(Engine(F) \o Engine(T), At(h, o), At(h, o))
  BY <1>11, Then
<1>13. Neutral(Finally(captureFrame, Engine(F) \o Engine(T)), h, o)
  BY <1>10, <1>12, NeutralFinally
<1> QED
  BY <1>3, <1>4, <1>5, <1>10, <1>13 DEF o, F, T

LEMMA FramesGot ==
  ASSUME heap \in Good("live")
  PROVE  Safe(getFrame, heap, "live") /\ Safe(tick, heap, "live")
<1> DEFINE o == "live"
           k == heap \cup ImageParts
           J == Good("live")
           S == captureFrame \cup
                  scroll ## scroll ## Finally(captureFrame,
                    Engine({"terminal", "image scratch"}) \o Engine({"render", "terminal"}))
<1>1. k \in J /\ ImageParts \subseteq k /\ o \in Objects
  BY ImagesStarted DEF Objects
<1>2. Goes(init, heap, o, {k}, {}, J)
  BY ImagesStarted
<1>3. Goes(init, heap, o, {k}, J, J)
  BY <1>2, GoesWider
<1> HIDE DEF k, S
<1>4. /\ Neutral(graphics, k, o) /\ Neutral(captureFrame, k, o) /\ Neutral(scroll, k, o)
      /\ Neutral(MayReturn, k, o) /\ Neutral(On(Engine({"terminal", "image scratch"})), k, o)
      /\ Neutral(Finally(captureFrame, Engine({"terminal", "image scratch"})
                                         \o Engine({"render", "terminal"})), k, o)
  BY <1>1, ImagesRead
<1>5. Neutral(S, k, o)
  BY <1>4, NeutralThen, NeutralEither DEF S
<1> HIDE DEF o, J
<1>6. Goes(init ## MayReturn, heap, o, {k}, J, J) /\ Goes(init ## graphics, heap, o, {k}, J, J)
  <2>1. Goes(MayReturn, k, o, {k}, J, J) /\ Goes(graphics, k, o, {k}, J, J)
    BY <1>1, <1>4, GoesNeutral
  <2> QED
    BY <1>3, <2>1, GoesThen
<1>7. Goes(init ## MayReturn ## S, heap, o, {k}, J, J)
  <2>1. Goes(S, k, o, {k}, J, J)
    BY <1>1, <1>5, GoesNeutral
  <2> QED
    BY <1>6, <2>1, GoesThen
<1>8. Goes(init ## graphics ## MayReturn ## On(Engine({"terminal", "image scratch"}))
             ## graphics, heap, o, {k}, J, J)
  <2> DEFINE E == On(Engine({"terminal", "image scratch"}))
             P1 == init ## graphics
             P2 == P1 ## MayReturn
             P3 == P2 ## E
  <2> HIDE DEF E, P1, P2, P3
  <2>1. Goes(MayReturn, k, o, {k}, J, J) /\ Goes(graphics, k, o, {k}, J, J)
        /\ Goes(E, k, o, {k}, J, J)
    BY <1>1, <1>4, GoesNeutral DEF E
  <2>2. Goes(P2, heap, o, {k}, J, J)
    BY <1>6, <2>1, GoesThen DEF P1, P2
  <2>3. Goes(P3, heap, o, {k}, J, J)
    BY <2>1, <2>2, GoesThen DEF P3
  <2>4. Goes(P3 ## graphics, heap, o, {k}, J, J)
    BY <2>1, <2>3, GoesThen
  <2> QED
    BY <2>4 DEF P1, P2, P3, E
<1>9. {k} \cup J \cup J \subseteq Good(o)
  BY <1>1 DEF J, o
<1>10. Safe(getFrame, heap, o) /\ Safe(tick, heap, o)
  BY <1>1, <1>7, <1>8, <1>9, SafeGoes DEF getFrame, tick, S
<1> QED
  BY <1>10 DEF o

(* The pixels that are the engine's own are copied at once. *)
LEMMA PixelsCopied ==
  ASSUME heap \in Good("live")
  PROVE  Safe(pixels, heap, "live")
<1> DEFINE h == heap
           o == "live"
           U == {"pixel slot"}
           T == {"terminal"}
           g == h \cup U
           v == "image"
           R == On(Field(T)) ## MayReturn ## On(Look(v))
           Q1 == [e \in Ends |-> IF e = "on" THEN {Seeing(g, o, v)} ELSE {At(g, o)}]
           Q == [e \in Ends |-> IF e = "on" THEN {Seeing(h, o, v)} ELSE {At(h, o)}]
           Q2 == [e \in Ends |-> IF e = "on" THEN {At(g, o)} ELSE {At(h, o)}]
<1>1. /\ h \in Good(o) /\ h \in SUBSET Blocks /\ Whole(h) /\ o \in Objects
      /\ U \in SUBSET Passing /\ T \in SUBSET (Parts \cup U) /\ v \in Views
  BY KeptWhole DEF Good, Objects, Passing, Parts, Views
<1>2. Within(g, U) /\ U \cap h = {} /\ U \in SUBSET Blocks /\ U \cap {} = {} /\ Within(h, {})
  BY <1>1, WholeTakes
<1>3. g \in SUBSET Blocks /\ g \ U = h /\ U \subseteq g
  BY <1>1, <1>2
<1>4. /\ Q1["on"] = {Seeing(g, o, v)} /\ Q1["return"] = {At(g, o)} /\ Q1["throw"] = {At(g, o)}
      /\ Q["on"] = {Seeing(h, o, v)} /\ Q["return"] = {At(h, o)} /\ Q["throw"] = {At(h, o)}
      /\ Q2["on"] = {At(g, o)} /\ Q2["return"] = {At(h, o)} /\ Q2["throw"] = {At(h, o)}
  BY DEF Ends
<1> HIDE DEF h, o, U, T, g, v, R, Q, Q1, Q2
<1>5. Neutral(On(Field(T)), g, o) /\ Neutral(MayReturn, g, o) /\ Neutral(MayReturn, h, o)
  BY <1>1, <1>2, StepsWithin, EndsWithin
<1>6. Neutral(On(Field(T)) ## MayReturn, g, o)
  BY <1>5, NeutralThen
<1>7. /\ Leads(Look(v), At(g, o), Seeing(g, o, v)) /\ Leads(Look(v), At(g, o), At(g, o))
      /\ Leads(Use(v), Seeing(h, o, v), At(h, o))
  BY <1>1, <1>3, Looks
<1>8. Leads(Put(U), Seeing(g, o, v), Seeing(h, o, v))
  <2>1. Seeing(g, o, v) \in States /\ Seeing(h, o, v) \in States
    BY <1>7, LeadsTyped
  <2>2. Fits([act |-> "put", of |-> U], Seeing(g, o, v))
        /\ Makes([act |-> "put", of |-> U], Seeing(g, o, v), Seeing(h, o, v))
    BY <1>3 DEF Fits, Makes, Seeing
  <2> QED
    BY <1>2, <2>1, <2>2, OneStep, KnownActs, Zenon DEF Put
<1>9. /\ Leads(Get(U), At(h, o), At(g, o)) /\ Leads(Put(U), At(g, o), At(h, o))
  BY <1>1, <1>2, Brackets DEF g
<1>10. Does(R, At(g, o), Q1)
  <2>1. Does(On(Field(T)) ## MayReturn, At(g, o), Same(g, o))
    BY <1>6, DoesSame
  <2>2. Does(On(Look(v)), At(g, o), Q1)
    BY <1>4, <1>7, DoesOn
  <2>3. /\ Same(g, o)["on"] = {At(g, o)} /\ Same(g, o)["return"] = {At(g, o)}
        /\ Same(g, o)["throw"] = {At(g, o)}
    BY DEF Same, Ends
  <2>4. \A b \in Same(g, o)["on"] : Does(On(Look(v)), b, Q1)
    BY <2>2, <2>3
  <2>5. Same(g, o)["return"] \subseteq Q1["return"] /\ Same(g, o)["throw"] \subseteq Q1["throw"]
    BY <1>4, <2>3
  <2> QED
    BY <2>1, <2>4, <2>5, DoesThen DEF R
<1>11. Does(Finally(R, Put(U)), At(g, o), Q)
  <2>1. Put(U) \in Seq(Moves)
    BY <1>9, LeadsTyped
  <2>2. \A e \in Ends : \A b \in Q1[e] : \E d \in Q[e] : Leads(Put(U), b, d)
    <3> SUFFICES ASSUME NEW e \in {"on", "return", "throw"}, NEW b \in Q1[e]
                 PROVE  \E d \in Q[e] : Leads(Put(U), b, d)
      BY DEF Ends
    <3>1. CASE e = "on"
      BY <1>4, <1>8, <3>1
    <3>2. CASE e = "return"
      BY <1>4, <1>9, <3>2
    <3>3. CASE e = "throw"
      BY <1>4, <1>9, <3>3
    <3> QED
      BY <3>1, <3>2, <3>3
  <2> QED
    BY <1>10, <2>1, <2>2, DoesFinally
<1>12. Does(With(U, R), At(h, o), Q)
  <2>1. Does(On(Get(U)), At(h, o), Q2)
    BY <1>4, <1>9, DoesOn
  <2>2. \A b \in Q2["on"] : Does(Finally(R, Put(U)), b, Q)
    BY <1>4, <1>11
  <2>3. Q2["return"] \subseteq Q["return"] /\ Q2["throw"] \subseteq Q["throw"]
    BY <1>4
  <2> QED
    BY <2>1, <2>2, <2>3, DoesThen DEF With
<1>13. ASSUME NEW S, Neutral(S, h, o), NEW M, Does(M, At(h, o), Q)
       PROVE  Does(S ## M, At(h, o), Q)
  <2>1. Does(S, At(h, o), Same(h, o))
    BY <1>13, DoesSame
  <2>3. /\ Same(h, o)["on"] = {At(h, o)} /\ Same(h, o)["return"] = {At(h, o)}
        /\ Same(h, o)["throw"] = {At(h, o)}
    BY DEF Same, Ends
  <2>4. \A b \in Same(h, o)["on"] : Does(M, b, Q)
    BY <1>13, <2>3
  <2>5. Same(h, o)["return"] \subseteq Q["return"] /\ Same(h, o)["throw"] \subseteq Q["throw"]
    BY <1>4, <2>3
  <2> QED
    BY <2>1, <2>4, <2>5, DoesThen
<1>14. Does(getKittyImagePixels, At(h, o), Q)
  BY <1>5, <1>12, <1>13 DEF getKittyImagePixels, U, R, T, v
<1>15. Safe(pixels, h, o)
  <2>1. CASE "image scratch" \notin heap
    BY <2>1 DEF Safe, Does, pixels
  <2>2. CASE "image scratch" \in heap
    <3>1. "image scratch" \in ImageParts /\ heap \cap ImageParts \in {{}, ImageParts}
      BY KeptWhole DEF ImageParts, Good
    <3>2. ImageParts \subseteq h
      BY <2>2, <3>1 DEF h
    <3>3. Neutral(graphics, h, o)
      BY <1>1, <3>2, ImagesRead DEF o
    <3>4. Does(graphics ## getKittyImagePixels, At(h, o), Q)
      BY <1>13, <1>14, <3>3
    <3>5. Does(On(Use(v)), Seeing(h, o, v), GoodEnds)
      <4>1. At(h, o) \in GoodEnds["on"]
        BY <1>1, GoodStates
      <4> QED
        BY <1>7, <4>1, DoesOn
    <3>6. \A b \in Q["on"] : Does(On(Use(v)), b, GoodEnds)
      BY <1>4, <3>5
    <3>7. Q["return"] \subseteq GoodEnds["return"] /\ Q["throw"] \subseteq GoodEnds["throw"]
      BY <1>1, <1>4, GoodStates
    <3>8. Does(graphics ## getKittyImagePixels ## On(Use(v)), At(h, o), GoodEnds)
      BY <3>4, <3>6, <3>7, DoesThen
    <3> QED
      BY <2>2, <3>8 DEF Safe, pixels, v
  <2> QED
    BY <2>1, <2>2
<1> QED
  BY <1>15 DEF h, o

-----------------------------------------------------------------------------
(* Every call, and the invariant. *)

LEMMA TerminalMethods ==
  ASSUME heap \in Good("live")
  PROVE  Safe(OnTerminal, heap, "live")
<1>1. Whole(heap) /\ "live" \in Objects
  BY KeptWhole DEF Good, Objects
<1>2. /\ Neutral(write, heap, "live") /\ Neutral(resize, heap, "live")
      /\ Neutral(setProgramStatusHandler, heap, "live")
      /\ Neutral(getKittyGraphics, heap, "live")
      /\ Neutral(setKittyImageStorageLimit, heap, "live")
  BY <1>1, Written, Small
<1>3. /\ Neutral(rsGet, heap, "live") /\ Neutral(tGet, heap, "live")
      /\ Neutral(getMode, heap, "live") /\ Neutral(update, heap, "live")
  BY <1>1, WholeReads
<1>4. /\ Neutral(refreshRowMetaCache, heap, "live") /\ Neutral(markClean, heap, "live")
      /\ Neutral(getViewport, heap, "live") /\ Neutral(getGrapheme, heap, "live")
  BY <1>1, RowsMarked, CellsRead, GraphemeRead
<1>5. /\ Neutral(readGridLine, heap, "live") /\ Neutral(readHyperlinkUri, heap, "live")
      /\ Neutral(getScrollbackGrapheme, heap, "live")
  BY <1>1, LineRead, TextsRead
<1>6. \A S : Neutral(S, heap, "live") => Safe(S, heap, "live")
  BY <1>1, SafeNeutral
<1>7. /\ Safe(getFrame, heap, "live") /\ Safe(tick, heap, "live")
      /\ Safe(pixels, heap, "live") /\ Safe(reset, heap, "live")
      /\ Safe(dispose, heap, "live")
  BY FramesGot, PixelsCopied, Ended
<1> DEFINE Methods ==
      {write, resize, setProgramStatusHandler, rsGet, tGet, getMode, update,
       refreshRowMetaCache, markClean, getViewport, getGrapheme, readGridLine,
       readHyperlinkUri, getScrollbackGrapheme, getFrame, pixels, tick,
       getKittyGraphics, setKittyImageStorageLimit, reset, dispose}
<1>8. \A S \in Methods : Safe(S, heap, "live")
  BY <1>2, <1>3, <1>4, <1>5, <1>6, <1>7, Zenon
<1>9. OnTerminal = UNION Methods
  BY DEF OnTerminal
<1> HIDE DEF Methods
<1> QED
  BY <1>8, <1>9 DEF Safe, Does

LEMMA EncoderMethods ==
  ASSUME heap \in Good("live")
  PROVE  Safe(OnEncoder, heap, "live")
<1> DEFINE o == "live"
<1>1. o \in Objects
  BY DEF Objects
<1>2. Goes(NewKeyEncoder, heap, o, Good(o), {}, Good(o))
  BY <1>1, EncoderMade
<1> HIDE DEF o
<1>3. Good(o) \cup {} \cup Good(o) \subseteq Good(o)
  OBVIOUS
<1>4. Safe(NewKeyEncoder, heap, o)
  BY <1>1, <1>2, <1>3, SafeGoes
<1>5. CASE "encoder" \in heap
  <2>1. Neutral(SetOption, heap, o) /\ Goes(encode, heap, o, Good(o), {}, Good(o))
    BY <1>5, OptionSet, KeyEncoded DEF o
  <2>2. Safe(SetOption, heap, o)
    BY <1>1, <2>1, SafeNeutral DEF o
  <2>3. Safe(encode, heap, o)
    BY <1>1, <1>3, <2>1, SafeGoes
  <2>4. OnEncoder = NewKeyEncoder \cup (SetOption \cup encode)
    BY <1>5 DEF OnEncoder
  <2> QED
    BY <1>4, <2>2, <2>3, <2>4, SafeEither DEF o
<1>6. CASE "encoder" \notin heap
  <2>1. OnEncoder = NewKeyEncoder
    BY <1>6 DEF OnEncoder
  <2> QED
    BY <1>4, <2>1 DEF o
<1> QED
  BY <1>5, <1>6

(* What is left of the path that runs leads to a state in which nothing is left
   over, from one that has the same blocks and no view that is not fresh. *)
Underway(c, d) ==
  /\ Leads(running, c, d)
  /\ Kept(d.heap, d.object)
  /\ c.heap = heap /\ c.object = object /\ c.fresh \subseteq fresh

(* Until a method is called on an engine that reset() has freed. *)
HeapInv == ~misused => \E c, d \in States : Underway(c, d)

LEMMA NoStepLeft ==
  ASSUME NEW c, NEW d, Leads(<<>>, c, d)
  PROVE  c = d
<1>1. PICK f : Passes(f, <<>>) /\ f[0] = c /\ f[Len(<<>>)] = d
  BY DEF Leads
<1>2. Len(<<>>) = 0
  OBVIOUS
<1> QED
  BY <1>1, <1>2

LEMMA HeapStarts == Init => HeapInv
<1> SUFFICES ASSUME Init PROVE HeapInv
  OBVIOUS
<1> DEFINE c == At({}, "none")
<1>1. /\ c \in States /\ c.heap = {} /\ c.fresh = {} /\ c.object = "none"
  BY DEF At, States, Objects
<1>2. Leads(<<>>, c, c)
  BY <1>1, NoStep
<1>3. Kept(c.heap, c.object)
  BY <1>1 DEF Kept
<1> HIDE DEF c
<1>4. Underway(c, c)
  BY <1>1, <1>2, <1>3 DEF Underway, Init
<1> QED
  BY <1>1, <1>4 DEF HeapInv

LEMMA HeapCalled ==
  ASSUME HeapInv, Called
  PROVE  HeapInv'
<1> SUFFICES ASSUME ~misused'
             PROVE  (\E c, d \in States : Underway(c, d))'
  BY DEF HeapInv
<1>17. ~misused /\ object # "freed"
  BY DEF Called
<1>1. PICK c, d \in States : Underway(c, d)
  BY <1>17 DEF HeapInv
<1>2. running = <<>> /\ UNCHANGED <<heap, object>> /\ fresh' = {}
  BY DEF Called
<1>3. c = d
  BY <1>1, <1>2, NoStepLeft DEF Underway
<1>4. heap \in SUBSET Blocks /\ object \in Objects /\ Kept(heap, object)
  BY <1>1, <1>3 DEF Underway, States
<1>5. heap \in Good(object)
  BY <1>4 DEF Good
<1>6. PICK S : /\ S = IF object = "none" THEN createTerminal ELSE OnTerminal \cup OnEncoder
               /\ \E p \in S : running' = p.steps
  BY DEF Called
<1>7. Safe(S, heap, object)
  <2>1. CASE object = "live"
    <3>1. Safe(OnTerminal, heap, "live") /\ Safe(OnEncoder, heap, "live")
      BY <1>5, <2>1, TerminalMethods, EncoderMethods
    <3>2. S = OnTerminal \cup OnEncoder
      BY <1>6, <2>1
    <3> QED
      BY <2>1, <3>1, <3>2, SafeEither
  <2>2. CASE object = "none"
    <3>1. heap \in SUBSET OfKeys
      BY <1>4, <2>2 DEF Kept
    <3>2. S = createTerminal
      BY <1>6, <2>2
    <3> QED
      BY <2>2, <3>1, <3>2, Constructed
  <2> QED
    BY <1>4, <1>17, <2>1, <2>2 DEF Objects
<1>8. PICK p \in S : running' = p.steps
  BY <1>6
<1>9. p \in Paths /\ \E b \in GoodEnds[p.ends] : Leads(p.steps, At(heap, object), b)
  BY <1>7 DEF Safe, Does
<1>10. GoodEnds[p.ends] = {b \in States : Kept(b.heap, b.object)}
  BY <1>9, PathFields DEF GoodEnds
<1>11. PICK b \in States : Kept(b.heap, b.object) /\ Leads(p.steps, At(heap, object), b)
  BY <1>9, <1>10
<1> DEFINE a == At(heap, object)
<1>12. a \in States /\ a.heap = heap /\ a.object = object /\ a.fresh = {}
  BY <1>4 DEF At, States
<1>16. Leads(p.steps, a, b)
  BY <1>11
<1> HIDE DEF a
<1>13. Leads(running', a, b)
  BY <1>8, <1>16
<1>14. a.heap = heap' /\ a.object = object' /\ a.fresh \subseteq fresh'
  BY <1>2, <1>12
<1>15. \E x, y \in States :
         /\ Leads(running', x, y) /\ Kept(y.heap, y.object)
         /\ x.heap = heap' /\ x.object = object' /\ x.fresh \subseteq fresh'
  BY <1>11, <1>12, <1>13, <1>14
<1> QED
  BY <1>15 DEF Underway

LEMMA HeapSteps ==
  ASSUME HeapInv, StepsOn
  PROVE  HeapInv'
<1> SUFFICES ASSUME ~misused'
             PROVE  (\E c, d \in States : Underway(c, d))'
  BY DEF HeapInv
<1>7. ~misused
  BY DEF StepsOn
<1>1. PICK c, d \in States : Underway(c, d)
  BY <1>7 DEF HeapInv
<1> DEFINE m == Head(running)
<1>2. running # <<>> /\ Leads(running, c, d) /\ Kept(d.heap, d.object)
      /\ c.heap = heap /\ c.object = object /\ c.fresh \subseteq fresh
  BY <1>1 DEF Underway, StepsOn
<1>3. Fits(m, c) /\ \E b \in States : Makes(m, c, b) /\ Leads(Tail(running), b, d)
  BY <1>2, First
<1>4. /\ running' = IF m.act = "use" /\ ~(m.of \subseteq fresh) THEN <<>> ELSE Tail(running)
      /\ heap' = CASE m.act = "get" -> heap \cup m.of
                   [] m.act \in {"put", "put if held"} -> heap \ m.of
                   [] OTHER -> heap
      /\ CASE m.act \in {"get", "engine"} -> Grows
           [] m.act = "look" -> fresh' = fresh \cup m.of
           [] OTHER -> UNCHANGED fresh
      /\ object' = IF m.act = "becomes" THEN CHOOSE o \in m.of : TRUE ELSE object
  BY DEF StepsOn
<1> HIDE DEF m
<1>5. CASE m.act = "use" /\ ~(m.of \subseteq fresh)
  <2>1. ~(m.of \subseteq c.fresh) /\ Kept(c.heap, c.object)
    BY <1>2, <1>3, <1>5 DEF Fits
  <2>2. running' = <<>> /\ heap' = heap /\ fresh' = fresh /\ object' = object
    BY <1>4, <1>5
  <2>3. Leads(running', c, c)
    BY <2>2, NoStep
  <2>4. c.heap = heap' /\ c.object = object' /\ c.fresh \subseteq fresh'
    BY <1>2, <2>2
  <2>5. \E x, y \in States :
         /\ Leads(running', x, y) /\ Kept(y.heap, y.object)
         /\ x.heap = heap' /\ x.object = object' /\ x.fresh \subseteq fresh'
    BY <2>1, <2>3, <2>4
  <2> QED
    BY <2>5 DEF Underway
<1>6. CASE ~(m.act = "use" /\ ~(m.of \subseteq fresh))
  <2>1. PICK b \in States : Makes(m, c, b) /\ Leads(Tail(running), b, d)
    BY <1>3
  <2>2. running' = Tail(running)
    BY <1>4, <1>6
  <2>3. b.heap = heap' /\ b.object = object'
    BY <1>2, <1>4, <2>1 DEF Makes
  <2>4. b.fresh \subseteq fresh'
    <3>1. CASE m.act \in {"get", "engine"}
      BY <2>1, <3>1 DEF Makes
    <3>2. CASE m.act = "look"
      BY <1>2, <1>4, <2>1, <3>2 DEF Makes
    <3>3. CASE m.act \notin {"get", "engine", "look"}
      BY <1>2, <1>4, <2>1, <3>3 DEF Makes
    <3> QED
      BY <3>1, <3>2, <3>3
  <2>5. Leads(running', b, d)
    BY <2>1, <2>2
  <2>6. \E x, y \in States :
         /\ Leads(running', x, y) /\ Kept(y.heap, y.object)
         /\ x.heap = heap' /\ x.object = object' /\ x.fresh \subseteq fresh'
    BY <1>2, <2>3, <2>4, <2>5
  <2> QED
    BY <2>6 DEF Underway
<1> QED
  BY <1>5, <1>6

LEMMA HeapKept == HeapInv /\ [Next]_vars => HeapInv'
<1> SUFFICES ASSUME HeapInv, [Next]_vars PROVE HeapInv'
  OBVIOUS
<1>1. CASE UNCHANGED vars
  <2>1. heap' = heap /\ fresh' = fresh /\ object' = object /\ running' = running
        /\ misused' = misused
    BY <1>1 DEF vars
  <2> SUFFICES ASSUME ~misused'
               PROVE  (\E c, d \in States : Underway(c, d))'
    BY DEF HeapInv
  <2>2. PICK c, d \in States : Underway(c, d)
    BY <2>1 DEF HeapInv
  <2>3. \E x, y \in States :
         /\ Leads(running', x, y) /\ Kept(y.heap, y.object)
         /\ x.heap = heap' /\ x.object = object' /\ x.fresh \subseteq fresh'
    BY <2>1, <2>2 DEF Underway
  <2> QED
    BY <2>3 DEF Underway
<1> QED
  BY <1>1, HeapCalled, HeapSteps DEF Next

LEMMA HeapSound == HeapInv => MemorySound
<1> SUFFICES ASSUME HeapInv, ~misused PROVE MemorySound
  BY DEF MemorySound
<1>1. PICK c, d \in States : Underway(c, d)
  BY DEF HeapInv
<1>2. /\ Leads(running, c, d) /\ Kept(d.heap, d.object)
      /\ c.heap = heap /\ c.object = object /\ c.fresh \subseteq fresh
  BY <1>1 DEF Underway
<1> DEFINE m == Head(running)
<1>3. ASSUME running # <<>>
      PROVE  /\ m.act = "get" => m.of \cap heap \subseteq OfKeys
             /\ m.act \in {"put", "engine", "field"} => m.of \subseteq heap
             /\ m.act = "use" => m.of \subseteq fresh \cup {"memory"}
  <2>1. Fits(m, c)
    BY <1>2, <1>3, First
  <2> HIDE DEF m
  <2> QED
    BY <1>2, <2>1 DEF Fits
<1>4. ASSUME running = <<>>
      PROVE  Kept(heap, object)
  <2>1. c = d
    BY <1>2, <1>4, NoStepLeft
  <2> QED
    BY <1>2, <2>1
<1> QED
  BY <1>3, <1>4 DEF MemorySound, Kept

(* Whatever is called and whatever fails, no method of the wrapper and none of its
   callbacks frees a block twice, uses one that it has freed, loses one or reads
   through a stale view.  MemorySound excepts what the key encoder leaves behind
   and its view (3391, 3405, 3406, 3420, 3423), and promises nothing after a method
   has been called on an engine that a failed reset() has freed (10643, 3882). *)
THEOREM MemoryKept == Spec => []MemorySound
<1>1. Spec => []HeapInv
  BY HeapStarts, HeapKept, PTL DEF Spec
<1> QED
  BY <1>1, HeapSound, PTL
================================================================================
