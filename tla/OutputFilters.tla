----------------------------- MODULE OutputFilters -----------------------------
(***************************************************************************)
(* The filters that a program's output passes on its way to the page's     *)
(* terminal: the session's OSC 52 gate (middleware/osc52gate), the         *)
(* transcoder of kitty graphics (kittygfx.go) in the server's output loop  *)
(* (handlers.go), and the page's scanner for copies (ts/clipboard.ts).     *)
(*                                                                         *)
(* The stream is one of words: an escape, a bracket, a payload's piece.  A *)
(* program writes tokens, whole sequences of words; a read may end at any  *)
(* of them.  The read that fails and ends the loop is not modelled.        *)
(***************************************************************************)
EXTENDS Integers, SequencesExt, FiniteSetsExt

CONSTANTS
  MaxTokens,   \* tokens that the program writes
  BufSize,     \* writeBufSize
  ChunkSize,   \* kittyEmitChunkSize
  MaxAPCBody   \* maxAPCBody; these three are positive

VARIABLES
  mode,     \* the gate: "none", "allow" (and audit, which logs as well) or "deny"
  sent,     \* tokens written
  meant,    \* what they mean to the terminal
  tty,      \* words in the PTY
  gate,     \* the scanner of the read under way
  dropped,  \* a scanner was thrown away with words in it
  gfx,      \* the transcoder
  screen,   \* the page's terminal
  clip      \* the page's OSC52Scanner

vars == <<mode, sent, meant, tty, gate, dropped, gfx, screen, clip>>

Opening == <<"esc", "]", "5", "2", ";">>
ST == <<"esc", "\\">>
APC(body) == <<"esc", "_", "G">> \o body \o ST

(* Words cut into pieces of a size, the last one as long as is left. *)
Pieces(words, size) ==
  [i \in 1 .. (Len(words) + size - 1) \div size |->
     SubSeq(words, (i - 1) * size + 1, Min({i * size, Len(words)}))]

-----------------------------------------------------------------------------
(* osc52gate.go. *)

NewScanner == [state |-> "opening", held |-> <<>>, out |-> <<>>]

(* Fault: the BEL that ends a copy is not given back. *)
FinishWithoutBel(s, words) ==
  [NewScanner EXCEPT !.out =
     IF mode = "deny" THEN s.out ELSE s.out \o SelectSeq(words, LAMBDA w : w # "bel")]

(* finishEscape *)
Finish(s, words) ==
  [NewScanner EXCEPT !.out = IF mode = "deny" THEN s.out ELSE s.out \o words]

(* step: held is what may have to be flushed; until the opening is complete, *)
(* the state is how much of it has come.                                     *)
GateStep(s, c) ==
  LET held == Append(s.held, c)
      In(state) == [s EXCEPT !.held = held, !.state = state]
  IN CASE s.state = "opening" /\ held = Opening -> In("selection")
       [] s.state = "opening" /\ IsPrefix(held, Opening) -> In("opening")
       [] s.state = "opening" -> [s EXCEPT !.held = <<>>, !.out = @ \o held]
       [] s.state = "selection" -> In(IF c = ";" THEN "data" ELSE "selection")
       [] s.state = "data" /\ c = "bel" -> Finish(s, held)
       [] s.state = "data" -> In(IF c = "esc" THEN "maybeST" ELSE "data")
       [] s.state = "maybeST" /\ c = "\\" -> Finish(s, held)
       [] s.state = "maybeST" -> In("data")

-----------------------------------------------------------------------------
(* kittygfx.go.  A body is its metadata, one word, and its payload.  A PNG   *)
(* of two pieces decodes to five of raw pixels; nothing else decodes.        *)

Png == <<"png1", "png2">>
Pixels == <<"raw1", "raw2", "raw3", "raw4", "raw5">>

IsPng(meta) == meta \in {"f=100", "f=100,m=1"}
IsFinalChunk(meta) == meta \notin {"f=32,m=1", "f=100,m=1", "m=1"}
WithMore(meta) == IF IsPng(meta) THEN "f=100,m=1" ELSE "f=32,m=1"

NotLoading == [meta |-> "", encoded |-> <<>>]
NewTranscoder == [state |-> "pass", held |-> <<>>, body |-> <<>>, loading |-> NotLoading,
                  unfinished |-> FALSE, out |-> <<>>]

(* Fault: the first chunk does not say that more follow. *)
ChunksUnmarked(meta, encoded) ==
  LET pieces == Pieces(encoded, ChunkSize)
      Meta(i) == IF i = 1 THEN meta ELSE IF i < Len(pieces) THEN "m=1" ELSE "m=0"
  IN FlattenSeq([i \in DOMAIN pieces |-> APC(<<Meta(i)>> \o pieces[i])])

(* writeChunkedAPC *)
WriteChunkedAPC(meta, encoded) ==
  LET pieces == IF encoded = <<>> THEN <<encoded>> ELSE Pieces(encoded, ChunkSize)
      Meta(i) == IF Len(pieces) = 1 THEN meta ELSE IF i = 1 THEN WithMore(meta)
                 ELSE IF i < Len(pieces) THEN "m=1" ELSE "m=0"
  IN FlattenSeq([i \in DOMAIN pieces |-> APC(<<Meta(i)>> \o pieces[i])])

(* emitDecoded; a picture that is none goes out as it came, and when it came  *)
(* in chunks but fits in one, that one says that more follow.                 *)
EmitDecoded(t, loading) ==
  LET decoded == loading.encoded = Png
      short == Len(loading.encoded) <= ChunkSize
  IN [t EXCEPT !.loading = NotLoading,
               !.out = @ \o (IF decoded THEN WriteChunkedAPC("f=32", Pixels)
                             ELSE WriteChunkedAPC(loading.meta, loading.encoded)),
               !.unfinished = @ \/ (~decoded /\ short /\ ~IsFinalChunk(loading.meta))]

(* flushAPC: while a picture is loading, whatever comes is a chunk of it. *)
FlushAPC(t) ==
  LET meta == IF t.body = <<>> THEN "" ELSE t.body[1]
      payload == SubSeq(t.body, 2, Len(t.body))
      loads == IF t.loading = NotLoading THEN [meta |-> meta, encoded |-> payload]
               ELSE [t.loading EXCEPT !.encoded = @ \o payload]
      passed == [t EXCEPT !.state = "pass", !.held = <<>>, !.body = <<>>]
  IN IF t.loading = NotLoading /\ ~IsPng(meta) THEN [passed EXCEPT !.out = @ \o APC(t.body)]
     ELSE IF IsFinalChunk(meta) THEN EmitDecoded(passed, loads)
     ELSE [passed EXCEPT !.loading = loads]

(* abortAPC, and the words that were one too many. *)
AbortAPC(t, words) ==
  [NewTranscoder EXCEPT !.out = t.out \o <<"esc", "_", "G">> \o t.body \o words,
                        !.unfinished = t.unfinished]

(* An iteration of Filter's loop. *)
FilterStep(t, c) ==
  LET held == Append(t.held, c)
  IN CASE t.state = "pass" /\ held = <<"esc", "_", "G">> -> [t EXCEPT !.held = <<>>, !.state = "apc"]
       [] t.state = "pass" /\ IsPrefix(held, <<"esc", "_">>) -> [t EXCEPT !.held = held]
       [] t.state = "pass" -> [t EXCEPT !.held = <<>>, !.out = @ \o held]
       [] t.state = "apc" /\ c = "esc" -> [t EXCEPT !.state = "apcEsc"]
       [] t.state = "apc" /\ c = "bel" -> FlushAPC(t)
       [] t.state = "apc" -> IF Len(t.body) >= MaxAPCBody THEN AbortAPC(t, <<c>>)
                             ELSE [t EXCEPT !.body = Append(@, c)]
       [] t.state = "apcEsc" /\ c = "\\" -> FlushAPC(t)
       [] t.state = "apcEsc" ->
            IF Len(t.body) + 2 >= MaxAPCBody THEN AbortAPC(t, <<"esc", c>>)
            ELSE [t EXCEPT !.state = "apc", !.body = @ \o <<"esc", c>>]

Filter(t, words) == FoldLeft(FilterStep, t, words)

-----------------------------------------------------------------------------
(* ts/clipboard.ts. *)

(* indexOf from an index on, 0 when there is none *)
IndexOf(words, what, from) ==
  LET found == {i \in from .. Len(words) - Len(what) + 1 :
                  SubSeq(words, i, i + Len(what) - 1) = what}
  IN IF found = {} THEN 0 ELSE Min(found)

(* Base64 ends in no escape; the text of a copy is its word. *)
Decodes(data) == data # <<>> /\ \A i \in DOMAIN data : data[i] \in {"copy1", "copy2"}

(* The loop of scan.  missed: the start of a copy was cut off, or its end was *)
(* not seen.                                                                  *)
RECURSIVE Scanned(_)
Scanned(c) ==
  LET start == IndexOf(c.buffer, Opening, 1)
      after == start + Len(Opening)
      bel == IndexOf(c.buffer, <<"bel">>, after)
      end == IF bel # 0 THEN bel ELSE IndexOf(c.buffer, ST, after)
      payload == SubSeq(c.buffer, after, end - 1)
      semi == IndexOf(payload, <<";">>, 1)
      data == SubSeq(payload, semi + 1, Len(payload))
      next == end + (IF bel # 0 THEN 1 ELSE 2)
  IN IF start = 0
     THEN IF IndexOf(c.buffer, <<"esc", "]">>, 1) # 0 THEN c
          ELSE [c EXCEPT !.buffer = <<>>,
                         !.missed = @ \/ (c.buffer # <<>> /\ Last(c.buffer) = "esc")]
     ELSE IF end = 0 THEN [c EXCEPT !.buffer = SubSeq(@, start, Len(@))]
     ELSE Scanned([c EXCEPT
            !.buffer = SubSeq(@, next, Len(@)),
            !.missed = @ \/ ~Decodes(data),
            !.copies = IF semi # 0 /\ Decodes(data) THEN @ \o data ELSE @])

(* Fault: an incomplete copy is not waited for. *)
ScanForgets(c, frame) == [Scanned([c EXCEPT !.buffer = frame]) EXCEPT !.buffer = <<>>]

(* scan, on a page with allowOSC52 *)
Scan(c, frame) == Scanned([c EXCEPT !.buffer = @ \o frame])

-----------------------------------------------------------------------------
(* The page's terminal.  A sequence is acted on at its last word; pictures     *)
(* that come in chunks are put together.                                       *)

Complete(seq) ==
  \/ seq[1] # "esc"
  \/ Len(seq) > 1 /\ seq[2] \notin {"[", "]", "_"}
  \/ Len(seq) > 2 /\ \/ seq[2] = "["
                     \/ seq[2] = "]" /\ Last(seq) = "bel"
                     \/ IsSuffix(ST, seq)

(* What a chunk adds to the picture that is put together. *)
Chunk(loading, seq) ==
  LET meta == seq[4]
      payload == SubSeq(seq, 5, Len(seq) - 2)
  IN IF loading # <<>> THEN loading \o payload
     ELSE <<"image", IF IsPng(meta) THEN "f=100" ELSE "f=32">> \o payload

Understands(s, c) ==
  LET seq == Append(s.seq, c)
      chunk == Chunk(s.loading, seq)
  IN IF ~Complete(seq) THEN [s EXCEPT !.seq = seq]
     ELSE IF ~IsPrefix(<<"esc", "_", "G">>, seq)
     THEN [s EXCEPT !.seq = <<>>, !.shown = Append(@, seq)]
     ELSE IF IsFinalChunk(seq[4])
     THEN [seq |-> <<>>, loading |-> <<>>, shown |-> Append(s.shown, chunk)]
     ELSE [s EXCEPT !.seq = <<>>, !.loading = chunk]

-----------------------------------------------------------------------------
(* Tokens.  Graphics mean a picture, the rest means itself. *)

Plain(words) == [words |-> words, means |-> <<words>>]
Picture(words, means) == [words |-> words, means |-> <<<<"image">> \o means>>]
Copy(text, end) == Plain(Opening \o <<"c", ";", text>> \o end)

IsCopy(item) == IsPrefix(Opening, item)

Tokens ==
  {Plain(<<"x">>), Plain(<<"esc", "[", "m">>), Plain(<<"esc", "]", "0", "bel">>),
   Plain(<<"esc", "_", "t">> \o ST),
   Copy("copy1", <<"bel">>), Copy("copy2", ST),
   Picture(<<"esc", "_", "G", "f=32", "pix", "bel">>, <<"f=32", "pix">>),
   Picture(APC(<<"f=100">> \o Png), <<"f=32">> \o Pixels),
   \* in chunks, with text between them
   [words |-> APC(<<"f=100,m=1", "png1">>) \o <<"x">> \o APC(<<"m=0", "png2">>),
    means |-> <<<<"x">>, <<"image", "f=32">> \o Pixels>>],
   \* no PNG: in one, in chunks, in chunks that do not fit in one
   Picture(APC(<<"f=100", "bad">>), <<"f=100", "bad">>),
   Picture(APC(<<"f=100,m=1", "bad">>) \o APC(<<"m=0", "bad">>), <<"f=100", "bad", "bad">>),
   Picture(APC(<<"f=100,m=1", "bad", "bad">>) \o APC(<<"m=0", "bad">>),
           <<"f=100", "bad", "bad", "bad">>),
   \* too long
   Picture(APC(<<"f=32">> \o [i \in 1 .. MaxAPCBody |-> "pix"]),
           <<"f=32">> \o [i \in 1 .. MaxAPCBody |-> "pix"])}

Init ==
  /\ mode \in {"none", "allow", "deny"}
  /\ sent = 0 /\ meant = <<>> /\ tty = <<>>
  /\ gate = NewScanner /\ dropped = FALSE
  /\ gfx = NewTranscoder
  /\ screen = [seq |-> <<>>, loading |-> <<>>, shown |-> <<>>]
  /\ clip = [buffer |-> <<>>, copies |-> <<>>, missed |-> FALSE]

Write(token) ==
  /\ sent < MaxTokens /\ sent' = sent + 1
  /\ tty' = tty \o token.words
  /\ meant' = meant \o SelectSeq(token.means, LAMBDA item : mode # "deny" \/ ~IsCopy(item))
  /\ UNCHANGED <<mode, gate, dropped, gfx, screen, clip>>

(* Fault: a transcoder for each read. *)
SendAnew(words) ==
  LET t == Filter(NewTranscoder, words)
  IN /\ gfx' = [NewTranscoder EXCEPT !.unfinished = t.unfinished]
     /\ screen' = FoldLeft(Understands, screen, t.out)
     /\ clip' = Scan(clip, t.out)

(* The output loop has words from OutputReader: they are filtered and sent in *)
(* frames; the page looks for copies in each and writes it to the terminal.   *)
Send(words) ==
  LET t == Filter(gfx, words)
  IN /\ gfx' = [t EXCEPT !.out = <<>>]
     /\ screen' = FoldLeft(Understands, screen, t.out)
     /\ clip' = FoldLeft(Scan, clip, Pieces(t.out, BufSize))

(* The inner Read gives n words.  When the gate lets none of them out, the    *)
(* same scanner reads on; else it returns what fits in the caller's buffer,   *)
(* and the loop's next OutputReader() makes a new one.                        *)
Read(n) ==
  LET words == SubSeq(tty, 1, n)
      fed == FoldLeft(GateStep, gate, words)
      copied == Min({Len(fed.out), BufSize})
  IN /\ tty' = SubSeq(tty, n + 1, Len(tty))
     /\ IF mode = "none"
        THEN Send(words) /\ UNCHANGED <<gate, dropped>>
        ELSE IF fed.out = <<>>
        THEN gate' = fed /\ UNCHANGED <<dropped, gfx, screen, clip>>
        ELSE /\ gate' = NewScanner
             /\ dropped' = (dropped \/ fed.held # <<>> \/ copied < Len(fed.out))
             /\ Send(SubSeq(fed.out, 1, copied))
     /\ UNCHANGED <<mode, sent, meant>>

Next == \/ \E token \in Tokens : Write(token)
        \/ \E n \in 1 .. Min({BufSize, Len(tty)}) : Read(n)

Spec == Init /\ [][Next]_vars
-----------------------------------------------------------------------------
Clipped(items) == SelectSeq(items, IsCopy)

(* Wherever the reads and the frames end, the terminal understands what the
   program meant, in order and complete when it has all been read: a PNG as raw
   pixels, whole or in chunks, a copy not at all when the gate denies it; and
   the page copies what the terminal understands as a copy, each one once
   (kittygfx.go:80-135, osc52gate.go:113-258, ts/clipboard.ts:23-62).  Not so
   after a scanner was dropped with words in it (osc52gate.go:73-75), after a
   broken PNG in chunks went out in one with its m=1 (kittygfx.go:240), or for
   the copies after the page has missed one (ts/clipboard.ts:32, 59-61). *)
FiltersKeep ==
  ~dropped /\ ~gfx.unfinished =>
    /\ IsPrefix(screen.shown, meant)
    /\ tty = <<>> => screen.shown = meant
    /\ LET copies == Clipped(screen.shown) IN
         ~clip.missed => clip.copies = [i \in DOMAIN copies |-> copies[i][8]]
=============================================================================
