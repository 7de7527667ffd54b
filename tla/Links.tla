--------------------------------- MODULE Links ---------------------------------
(***************************************************************************)
(* Links in the rows of the terminal (ntwebterm.js): those that a program  *)
(* marks (OSC 8), those that look like an address, and those of a provider *)
(* that the page may register, which may take its time.  A row is scanned  *)
(* when the pointer comes to it, and what is found is cached until the     *)
(* next output.  The pointer's moves are throttled.                        *)
(*                                                                         *)
(* A row is one cell wide here; the two rows of the screen follow those of *)
(* the history, and the viewport shows as many rows above as it is         *)
(* scrolled.                                                               *)
(***************************************************************************)
EXTENDS Naturals, Sequences

CONSTANT MaxEvents   \* of the program, the user and the page

VARIABLES
  text,        \* of each row, the oldest first
  viewportY,
  custom,      \* a provider of the page is registered
  cache,       \* linkCache: row -> link
  scanned,     \* scannedRows
  scans,       \* calls of getLinkAt that wait for that provider
  pointer,     \* the row of the viewport, or Outside
  throttled, pendingMove,    \* mouseMoveThrottleTimeout, pendingMouseMove
  hovered,     \* currentHoveredLink
  activated,   \* history: the last link that a click has opened, and what was there
  changed,     \* history: rows that have changed since without the cache's knowledge
  since,       \* history: the hovered link has been overtaken since the last move
  events       \* bounds them

vars == <<text, viewportY, custom, cache, scanned, scans, pointer, throttled, pendingMove,
          hovered, activated, changed, since, events>>

Contents == {"plain", "address", "path"}   \* that output leaves; there are more at first
Screen == 2
ViewportRows == 0 .. Screen - 1
Outside == Screen

Init ==
  /\ text \in {<<"both", "plain">>, <<"address", "marked">>, <<"path", "both">>}
  /\ viewportY = 0 /\ custom = FALSE
  /\ cache = << >> /\ scanned = {} /\ scans = << >>
  /\ pointer = Outside /\ throttled = FALSE /\ pendingMove = Outside
  /\ hovered = "none" /\ activated = [link |-> "none", there |-> "none"]
  /\ changed = {} /\ since = FALSE /\ events = 0

History == Len(text) - Screen
Event == events < MaxEvents /\ events' = events + 1

(* Fault: the row of the screen, wherever the viewport is. *)
RowOnScreen(r) == History + r + 1

(* The row that is to be seen at row r of the viewport. *)
RowSeen(r) == History - viewportY + r + 1

(* The row that the pointer is taken to be in. *)
RowAt(r) ==
  1 + IF viewportY > 0
      THEN IF r < viewportY THEN History - viewportY + r ELSE History + (r - viewportY)
      ELSE History + r

(* What somebody sees in a row: a mark of the program comes before an address, and
   both before what the page finds. *)
LinkIn(content) ==
  CASE content \in {"marked", "both"} -> "target"
    [] content = "address" -> "address"
    [] content = "path" /\ custom -> "path"
    [] OTHER -> "none"

-----------------------------------------------------------------------------
(* LinkDetector *)

provideMarked(content) == IF content \in {"marked", "both"} THEN <<"target">> ELSE << >>
provideAddress(content) ==
  IF content \in {"address", "both"} THEN <<"address">> ELSE << >>
provideCustom(content) == IF content = "path" THEN <<"path">> ELSE << >>

cacheLink(c, row, links) ==
  IF row \in DOMAIN c \/ links = << >> THEN c
  ELSE [r \in DOMAIN c \cup {row} |-> IF r = row THEN Head(links) ELSE c[r]]

LinkAt(c, row) == IF row \in DOMAIN c THEN c[row] ELSE "none"

(* getLinkAt with scanRow, up to the first wait: the link, or "later".  The row
   counts as scanned from the first. *)
Wait(row) == custom /\ row \notin DOMAIN cache \cup scanned

Found(row) == provideMarked(text[row]) \o provideAddress(text[row])

GetLinkAt(row, who) ==
  IF row \in DOMAIN cache \cup scanned
  THEN UNCHANGED <<cache, scanned, scans>>
  ELSE /\ scanned' = scanned \cup {row}
       /\ IF custom
          THEN /\ scans' = Append(scans,
                     [row |-> row, who |-> who,
                      links |-> Found(row) \o provideCustom(text[row])])
               /\ UNCHANGED cache
          ELSE cache' = cacheLink(cache, row, Found(row)) /\ UNCHANGED scans

(* Fault: output leaves the cache alone. *)
CacheKept == UNCHANGED <<cache, scanned>>

invalidateCache == cache' = << >> /\ scanned' = {}

-----------------------------------------------------------------------------
(* The terminal *)

(* Output changes a row of the screen, or pushes one to the history. *)
write ==
  /\ Event
  /\ \E c \in Contents :
       \/ \E r \in History + 1 .. Len(text) : text[r] # c /\ text' = [text EXCEPT ![r] = c]
       \/ History = 0 /\ text' = Append(text, c)
  /\ invalidateCache /\ changed' = {} /\ viewportY' = 0 /\ since' = TRUE
  /\ UNCHANGED <<custom, scans, pointer, throttled, pendingMove, hovered, activated>>

(* clear(), reset() and a reflow change rows, too. *)
changeSilently ==
  /\ Event
  /\ \E r \in DOMAIN text :
       /\ text[r] # "plain" /\ text' = [text EXCEPT ![r] = "plain"]
       /\ changed' = changed \cup {r}
  /\ since' = TRUE
  /\ UNCHANGED <<viewportY, custom, cache, scanned, scans, pointer, throttled, pendingMove,
                 hovered, activated>>

scrollToLine ==
  /\ Event /\ viewportY' \in (0 .. History) \ {viewportY} /\ since' = TRUE
  /\ UNCHANGED <<text, custom, cache, scanned, scans, pointer, throttled, pendingMove,
                 hovered, activated, changed>>

registerLinkProvider ==
  /\ Event /\ ~custom /\ custom' = TRUE
  /\ invalidateCache /\ changed' = {} /\ since' = TRUE
  /\ UNCHANGED <<text, viewportY, scans, pointer, throttled, pendingMove, hovered,
                 activated>>

(* The link at row r of the viewport, at once or when the provider has answered; the
   pointer is at row now.  A row that another call has begun to scan has none yet. *)
processMouseMove(r, now) ==
  LET row == RowAt(r) IN
  /\ GetLinkAt(row, "move")
  /\ hovered' = IF Wait(row) THEN hovered ELSE LinkAt(cache', row)
  /\ since' = \/ r # now
              \/ \E i \in DOMAIN scans : scans[i].who = "move" \/ scans[i].row = row

handleMouseMove ==
  /\ Event /\ pointer' \in ViewportRows \ {pointer}
  /\ IF throttled
     THEN pendingMove' = pointer' /\ since' = TRUE
          /\ UNCHANGED <<cache, scanned, scans, throttled, hovered>>
     ELSE processMouseMove(pointer', pointer') /\ throttled' = TRUE /\ UNCHANGED pendingMove
  /\ UNCHANGED <<text, viewportY, custom, activated, changed>>

throttleEnds ==
  /\ throttled /\ throttled' = FALSE /\ pendingMove' = Outside
  /\ IF pendingMove # Outside THEN processMouseMove(pendingMove, pointer)
     ELSE UNCHANGED <<cache, scanned, scans, hovered, since>>
  /\ UNCHANGED <<text, viewportY, custom, pointer, activated, changed, events>>

(* A move that is pending, and an answer that is late, come nevertheless. *)
handleMouseLeave ==
  /\ pointer # Outside /\ pointer' = Outside /\ hovered' = "none"
  /\ since' = (pendingMove # Outside \/ \E i \in DOMAIN scans : scans[i].who = "move")
  /\ UNCHANGED <<text, viewportY, custom, cache, scanned, scans, throttled, pendingMove,
                 activated, changed, events>>

Activated(link, row) == activated' = [link |-> link, there |-> LinkIn(text[row])]

handleClick ==
  /\ pointer # Outside /\ Event
  /\ LET row == RowAt(pointer) IN
       /\ GetLinkAt(row, "click")
       /\ IF Wait(row) \/ row \in changed \/ (\E i \in DOMAIN scans : scans[i].row = row)
          THEN UNCHANGED activated
          ELSE Activated(LinkAt(cache', row), RowSeen(pointer))
  /\ UNCHANGED <<text, viewportY, custom, pointer, throttled, pendingMove, hovered, changed,
                 since>>

(* The provider answers one of the calls, which caches what it has found, be it
   of a row that has changed since. *)
answer ==
  \E i \in DOMAIN scans :
    LET s == scans[i]
        others == [j \in 1 .. Len(scans) - 1 |-> IF j < i THEN scans[j] ELSE scans[j + 1]]
    IN
    /\ cache' = cacheLink(cache, s.row, s.links) /\ scans' = others
    /\ changed' = changed \cup
         IF LinkIn(text[s.row]) # LinkAt(cache', s.row) THEN {s.row} ELSE {}
    /\ IF s.who = "move"
       THEN hovered' = LinkAt(cache', s.row) /\ UNCHANGED activated
       ELSE /\ IF s.row \in changed' THEN UNCHANGED activated
               ELSE Activated(LinkAt(cache', s.row), s.row)
            /\ UNCHANGED hovered
    /\ UNCHANGED <<text, viewportY, custom, scanned, pointer, throttled, pendingMove,
                   since, events>>

Next ==
  \/ write \/ changeSilently \/ scrollToLine \/ registerLinkProvider \/ handleMouseMove
  \/ throttleEnds \/ handleMouseLeave \/ handleClick \/ answer

Spec == Init /\ [][Next]_vars

-----------------------------------------------------------------------------
(* A link that is cached is the one in its row; a click opens the link that is
   there; and the link that is shown as the pointer's is the one under it, once
   the pointer's moves are processed and nothing has overtaken them.  Not so for
   a row that clear(), reset() or a resize have changed (only a write forgets the
   cache, 10582) or whose scan a late provider has answered. *)
LinksCurrent ==
  /\ \A row \in DOMAIN cache \ changed : cache[row] = LinkIn(text[row])
  /\ activated.link = activated.there
  /\ scans = << >> /\ ~since =>
       hovered = IF pointer = Outside THEN "none" ELSE
                 IF RowSeen(pointer) \in changed THEN hovered
                 ELSE LinkIn(text[RowSeen(pointer)])
===============================================================================
