------------------------------ MODULE CellShapes ------------------------------
(***************************************************************************)
(* The characters that ntwebterm.js draws itself, so that neighbours meet: *)
(* block elements, as rectangles on a 2D canvas and pixel by pixel in      *)
(* WebGPU's shader, and box drawings, as rectangles for all renderers.     *)
(***************************************************************************)
EXTENDS Integers

CONSTANTS Widths, Heights,   \* of a cell, in pixels
          Strokes            \* of a light line

VARIABLES
  char,                 \* [kind |-> "block", of |-> 0 .. 31], counted from U+2580;
                        \* or [kind |-> "box", of |-> [arms, weight]]
  width, height, stroke

vars == <<char, width, height, stroke>>

Arms == {"left", "right", "up", "down"}

(* rQ: straight lines, corners, tees and the cross. *)
BoxChars == [arms: {a \in SUBSET Arms : \E b, c \in a : b # c}, weight: {1, 2, 3}]
Chars ==
  [kind: {"block"}, of: 0 .. 31] \cup [kind: {"box"}, of: BoxChars]

(* Cells are wider than the two strokes of a double line, or they would touch
   the next cell's. *)
Fonts ==
  {f \in [width: Widths, height: Heights, stroke: Strokes] :
     3 * f.stroke < f.width - 1 /\ 3 * f.stroke < f.height - 1}

Init ==
  /\ char = [kind |-> "block", of |-> 0]
  /\ LET f == CHOOSE f \in Fonts : TRUE IN
     width = f.width /\ height = f.height /\ stroke = f.stroke

PrintChar == char' \in Chars /\ UNCHANGED <<width, height, stroke>>

SetFont ==
  /\ \E f \in Fonts : width' = f.width /\ height' = f.height /\ stroke' = f.stroke
  /\ UNCHANGED char

Next == PrintChar \/ SetFont

Spec == Init /\ [][Next]_vars

-----------------------------------------------------------------------------
(* Block elements *)

Pixels == (0 .. width - 1) \X (0 .. height - 1)

(* Fault: shares are rounded down. *)
RoundedDown(n, of, in) == (n * of) \div in

(* Math.round(n * of / in): a tie goes up. *)
Round(n, of, in) == (2 * n * of + in) \div (2 * in)

Rect(x, y, w, h) == {p \in Pixels : p[1] \in x .. x + w - 1 /\ p[2] \in y .. y + h - 1}

Quadrants ==   \* U+2596 to U+259F
  <<{"bl"}, {"br"}, {"tl"}, {"tl", "bl", "br"}, {"tl", "br"}, {"tl", "tr", "bl"},
    {"tl", "tr", "br"}, {"tr"}, {"tr", "bl"}, {"tr", "bl", "br"}>>

(* What renderBlockElement fills; a shade fills the cell. *)
renderBlockElement(i) ==
  CASE i = 0 -> Rect(0, 0, width, Round(height, 1, 2))
    [] i \in 1 .. 8 ->
         LET f == Round(height, i, 8) IN Rect(0, height - f, width, f)
    [] i \in 9 .. 15 -> Rect(0, 0, Round(width, 16 - i, 8), height)
    [] i = 16 -> LET e == Round(width, 1, 2) IN Rect(e, 0, width - e, height)
    [] i \in 17 .. 19 -> Pixels
    [] i = 20 -> Rect(0, 0, width, Round(height, 1, 8))
    [] i = 21 -> LET e == Round(width, 7, 8) IN Rect(e, 0, width - e, height)
    [] i \in 22 .. 31 ->
         LET h == Round(width, 1, 2)
             a == Round(height, 1, 2)
             t == Quadrants[i - 21]
             Part(q, rect) == IF q \in t THEN rect ELSE {}
         IN Part("tl", Rect(0, 0, h, a)) \cup Part("tr", Rect(h, 0, width - h, a))
              \cup Part("bl", Rect(0, a, h, height - a))
              \cup Part("br", Rect(h, a, width - h, height - a))

(* uv of a pixel is its center's place in the cell: Before(x, n, of, 8) is
   uv.x < n / 8. *)
Before(k, n, of, in) == (2 * k + 1) * in < 2 * n * of

drawBlockElement(i, p) ==
  LET west == Before(p[1], 1, width, 2)
      north == Before(p[2], 1, height, 2)
  IN
  CASE i = 0 -> north
    [] i \in 1 .. 8 -> ~Before(p[2], 8 - i, height, 8)
    [] i \in 9 .. 15 -> Before(p[1], 16 - i, width, 8)
    [] i = 16 -> ~west
    [] i \in 17 .. 19 -> TRUE   \* of which blockShade is the share
    [] i = 20 -> Before(p[2], 1, height, 8)
    [] i = 21 -> ~Before(p[1], 7, width, 8)
    [] i = 22 -> west /\ ~north
    [] i = 23 -> ~west /\ ~north
    [] i = 24 -> west /\ north
    [] i = 25 -> west \/ ~north
    [] i = 26 -> west <=> north
    [] i = 27 -> ~(~west /\ ~north)
    [] i = 28 -> ~(west /\ ~north)
    [] i = 29 -> ~west /\ north
    [] i = 30 -> ~(west <=> north)
    [] i = 31 -> ~west \/ ~north

-----------------------------------------------------------------------------
(* Box drawings, in half pixels: a double line between two others may end in the
   middle of one *)

HalfPixels == (0 .. 2 * width - 1) \X (0 .. 2 * height - 1)
HalfRect(x, y, w, h) ==
  {p \in HalfPixels : p[1] \in x .. x + w - 1 /\ p[2] \in y .. y + h - 1}

Thickness(weight) == IF weight = 2 THEN 2 * stroke ELSE stroke

(* Where the middle of a line is. *)
Center(of, thickness) == 2 * ((of - thickness) \div 2) + thickness

SingleLine(a, thickness) ==
  LET w == Center(width, thickness)
      s == Center(height, thickness)
      d == thickness
      Arm(x, rect) == IF x \in a THEN rect ELSE {}
  IN Arm("left", HalfRect(0, s - d, w + d, 2 * d))
       \cup Arm("right", HalfRect(w - d, s - d, 2 * width - w + d, 2 * d))
       \cup Arm("up", HalfRect(w - d, 0, 2 * d, s + d))
       \cup Arm("down", HalfRect(w - d, s - d, 2 * d, 2 * height - s + d))

(* The two lines of an arm: m is -1 for the one above or to the left.  Each ends
   at the line of the neighbour, the near or the far one. *)
DoubleLine(a) ==
  LET o == stroke
      w == Center(width, stroke)
      s == Center(height, stroke)
      Arm(x, rect) == IF x \in a THEN rect ELSE {}
      Line(m) ==
        LET y == s + 2 * m * o
            x == w + 2 * m * o
            n == IF m < 0 THEN "up" \in a ELSE "down" \in a
            l == IF m < 0 THEN "left" \in a ELSE "right" \in a
            Left == IF "right" \in a /\ ~n THEN w ELSE w + (IF n THEN -2 * o ELSE 2 * o) + o
            Right == IF "left" \in a /\ ~n THEN w ELSE w + (IF n THEN 2 * o ELSE -2 * o) - o
            Up == IF "down" \in a /\ ~l THEN s ELSE s + (IF l THEN -2 * o ELSE 2 * o) + o
            Down == IF "up" \in a /\ ~l THEN s ELSE s + (IF l THEN 2 * o ELSE -2 * o) - o
        IN Arm("left", HalfRect(0, y - o, Left, 2 * o))
             \cup Arm("right", HalfRect(Right, y - o, 2 * width - Right, 2 * o))
             \cup Arm("up", HalfRect(x - o, 0, 2 * o, Up))
             \cup Arm("down", HalfRect(x - o, Down, 2 * o, 2 * height - Down))
  IN Line(-1) \cup Line(1)

(* Fault: double lines cross each other. *)
Crossing(box) ==
  IF box.weight = 3 THEN DoubleLine(box.arms) \cup DoubleLine(box.arms \cap {"left", "right"})
  ELSE SingleLine(box.arms, Thickness(box.weight))

drawBoxDrawing(box) ==
  IF box.weight = 3 THEN DoubleLine(box.arms)
  ELSE SingleLine(box.arms, Thickness(box.weight))

-----------------------------------------------------------------------------
(* Pixels whose center lies on a boundary of the character: a rectangle takes
   them in by rounding, the shader by which side the comparison is strict on. *)
OnBoundary(p) ==
  \E n \in 1 .. 7 :
    \/ (2 * p[1] + 1) * 8 = 2 * n * width
    \/ (2 * p[2] + 1) * 8 = 2 * n * height

(* What box drawing is: a double line is what is left of a line three strokes
   wide when one of a single stroke is taken out of it. *)
BoxDrawing(box) ==
  IF box.weight = 3
  THEN SingleLine(box.arms, 3 * stroke) \ SingleLine(box.arms, stroke)
  ELSE SingleLine(box.arms, Thickness(box.weight))

Edge(arm) ==
  CASE arm = "left" -> {p \in HalfPixels : p[1] = 0}
    [] arm = "right" -> {p \in HalfPixels : p[1] = 2 * width - 1}
    [] arm = "up" -> {p \in HalfPixels : p[2] = 0}
    [] arm = "down" -> {p \in HalfPixels : p[2] = 2 * height - 1}
Opposite(arm) ==
  CASE arm = "left" -> "right" [] arm = "right" -> "left"
    [] arm = "up" -> "down" [] arm = "down" -> "up"
Across(arm, p) == IF arm \in {"left", "right"} THEN p[2] ELSE p[1]
Profile(arm, drawn) == {Across(arm, p) : p \in drawn \cap Edge(arm)}

(* Block elements are the same on the 2D canvas and in WebGPU but for the pixels
   on a boundary.  A box drawing touches the edges that it has an arm to and no
   other, each where the one in the next cell does that has all arms; a double
   one has its lines meet at its corners and nowhere else. *)
ShapesMeet ==
  IF char.kind = "block"
  THEN \A p \in Pixels :
         OnBoundary(p) \/ (p \in renderBlockElement(char.of) <=> drawBlockElement(char.of, p))
  ELSE LET drawn == drawBoxDrawing(char.of)
           cross == drawBoxDrawing([char.of EXCEPT !.arms = Arms])
       IN
       /\ \A a \in Arms :
            Profile(a, drawn) = IF a \in char.of.arms THEN Profile(Opposite(a), cross) ELSE {}
       /\ drawn = BoxDrawing(char.of)
===============================================================================
