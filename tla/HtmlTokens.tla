----------------------------- MODULE HtmlTokens -----------------------------
(***************************************************************************)
(* The streaming tokenizer of exoclaw-tools-web's html_to_markdown.        *)
(*                                                                         *)
(* A page comes in chunks that end anywhere: inside a tag, a comment, an   *)
(* entity or a script.  feed() drains what is complete and keeps the rest  *)
(* in the buffer; finalize() makes the best of it.  A character stands for *)
(* its class: "s" and "p" are letters ("s" alone names a raw-text tag),    *)
(* "&" begins an entity that ";" ends, "q" is a quote.                     *)
(***************************************************************************)
EXTENDS Integers, Sequences, SequencesExt

CONSTANTS
  Fragments,     \* pieces of source text, sequences of characters
  MaxFragments,  \* how many of them make a page
  MaxChunk,      \* characters per chunk
  LookBack       \* how far _safe_text_split looks back, 32 in the code

ASSUME TokensAssumption ==
  /\ \A f \in Fragments : f \in Seq({"<", ">", "/", "!", "?", "-", "&", ";", "q", "=", " ", "s", "p"})
  /\ MaxFragments \in Nat /\ MaxChunk \in Nat \ {0} /\ LookBack \in Nat \ {0}

VARIABLES
  page,    \* the whole source
  fed,     \* how much of it was fed
  buffer,  \* _buf
  raw,     \* _in_rawtext
  tokens,  \* what was emitted
  ended    \* finalize() was called

tokensVars == <<page, fed, buffer, raw, tokens, ended>>

-----------------------------------------------------------------------------
(* Searching the buffer *)

\* buf.find(c, from), 1-based; 0 stands for -1.
Find(b, c, from) == SelectInSubSeq(b, from, Len(b), LAMBDA x : x = c)

\* buf.find of a word.
Word(b, w, from) ==
  LET at == {i \in from..(Len(b) - Len(w) + 1) : SubSeq(b, i, i + Len(w) - 1) = w}
  IN IF at = {} THEN 0 ELSE CHOOSE i \in at : \A j \in at : i <= j

Rest(b, i) == SubSeq(b, i + 1, Len(b))
Letters == {"s", "p"}
NameEnd(b, from) ==
  LET stops == {i \in from..Len(b) : b[i] \notin Letters \cup {"-"}}
  IN IF stops = {} THEN Len(b) + 1 ELSE CHOOSE i \in stops : \A j \in stops : i <= j

-----------------------------------------------------------------------------
(* Tokens *)

\* unescape: a complete entity becomes one character.
Unescaped(t) ==
  LET step[i \in 0..Len(t)] ==
        IF i = 0 THEN [out |-> <<>>, open |-> FALSE]
        ELSE LET p == step[i - 1] IN
             IF p.open THEN [out |-> p.out, open |-> t[i] # ";"]
             ELSE IF t[i] = "&" /\ Find(t, ";", i + 1) # 0
                     /\ \A j \in (i + 1)..Find(t, ";", i + 1) : t[j] \notin {"&", " "}
                  THEN [out |-> Append(p.out, "E"), open |-> TRUE]
                  ELSE [out |-> Append(p.out, t[i]), open |-> FALSE]
  IN step[Len(t)].out

\* Each run of text becomes a node of its own; _on_token drops an empty one.
Emit(out, t) == IF t.kind = "text" /\ t.text = <<>> THEN out ELSE Append(out, t)

\* (Seeded bug: nothing is held back.)
SafeTextSplitAll(b) == Len(b)

\* _safe_text_split: an entity that is not complete stays in the buffer, while it
\* is no longer than the look back.
SafeTextSplit(b) ==
  LET amp == SelectLastInSeq(b, LAMBDA x : x = "&")
  IN IF amp # 0 /\ amp > Len(b) - LookBack /\ Find(b, ";", amp + 1) = 0 THEN amp - 1 ELSE Len(b)

\* _can_complete_start_tag: any quote counts, and a ">" outside quotes ends it.
CanCompleteStartTag(b) ==
  LET quoted[i \in 1..Len(b)] == i > 1 /\ (IF b[i] = "q" THEN ~quoted[i - 1] ELSE quoted[i - 1])
  IN \E i \in 2..Len(b) : b[i] = ">" /\ ~quoted[i]

\* _consume_start_tag walks the attributes; a quote only counts as the first
\* character of a value, and "/" only outside a value.
Attr(s, c) ==
  LET at ==
        CASE s.at = "done"   -> "done"
          [] s.at = "quoted" -> IF c = "q" THEN "gap" ELSE "quoted"
          [] c = ">"         -> "done"
          [] s.at = "value"  -> IF c = " " THEN "gap" ELSE "value"
          [] s.at = "equals" -> IF c = " " THEN "equals" ELSE IF c = "q" THEN "quoted" ELSE "value"
          [] c = "/"         -> "gap"
          [] s.at = "gap"    -> IF c \in {" ", "="} THEN "gap" ELSE "name"
          [] c = "="         -> "equals"
          [] c = " "         -> "named"
          [] OTHER           -> "name"
  IN [at |-> at,
      closed |-> s.closed \/ (c = "/" /\ s.at \in {"gap", "name", "named"}),
      used |-> IF s.at = "done" THEN s.used ELSE s.used + 1]

StartTag(b) ==
  LET from == NameEnd(b, 2)
      walk[i \in (from - 1)..Len(b)] ==
        IF i = from - 1 THEN [at |-> "gap", closed |-> FALSE, used |-> i]
        ELSE Attr(walk[i - 1], b[i])
  IN [name |-> SubSeq(b, 2, from - 1), closed |-> walk[Len(b)].closed, used |-> walk[Len(b)].used]

-----------------------------------------------------------------------------
(* One turn of the loop in _scan: what it emits, the buffer it leaves, whether
   raw-text mode follows, and whether it goes on.                            *)

Stays(b, r) == [emit |-> <<>>, buf |-> b, raw |-> r, more |-> FALSE]
Goes(e, b, r) == [emit |-> e, buf |-> b, raw |-> r, more |-> TRUE]
TextTok(t) == <<[kind |-> "text", text |-> Unescaped(t)]>>
TagTok(k, name) == <<[kind |-> k, text |-> name]>>

\* Inside <script> or <style> everything is dropped up to the closing tag, of
\* which a part may be at the end of the buffer.
ScanRaw(b, eof) ==
  LET at == Word(b, <<"<", "/", "s">>, 1)
      gt == IF at = 0 THEN 0 ELSE Find(b, ">", at + 3)
  IN IF gt # 0 THEN Goes(TagTok("end", <<"s">>), Rest(b, gt), FALSE)
     ELSE IF eof THEN Stays(<<>>, TRUE)
     ELSE IF at = 0 /\ Len(b) > 3 THEN Stays(Rest(b, Len(b) - 3), TRUE)
     ELSE Stays(b, TRUE)

\* Waits for a token's end, or at the end of the page drops what there is.
Unfinished(b, eof) == IF eof THEN Stays(<<>>, FALSE) ELSE Stays(b, FALSE)

\* Comments go to "-->", doctypes and processing instructions to ">".
ScanBang(b, eof) ==
  IF IsPrefix(<<"<", "!", "-", "-">>, b)
  THEN LET e == Word(b, <<"-", "-", ">">>, 5)
       IN IF e = 0 THEN Unfinished(b, eof) ELSE Goes(<<>>, Rest(b, e + 2), FALSE)
  ELSE LET e == Find(b, ">", 3)
       IN IF e = 0 THEN Unfinished(b, eof) ELSE Goes(<<>>, Rest(b, e), FALSE)

ScanEndTag(b, eof) ==
  LET e == Find(b, ">", 3)
  IN IF e = 0 THEN Unfinished(b, eof)
     ELSE Goes(TagTok("end", SubSeq(b, 3, NameEnd(b, 3) - 1)), Rest(b, e), FALSE)

ScanStartTag(b, eof) ==
  IF ~eof /\ ~CanCompleteStartTag(b) THEN Stays(b, FALSE)
  ELSE LET t == StartTag(b)
       IN Goes(TagTok(IF t.closed THEN "closed" ELSE "start", t.name), Rest(b, t.used),
               t.name = <<"s">> /\ ~t.closed)

ScanText(b, eof) ==
  LET lt == Find(b, "<", 1)
      upto == IF lt # 0 THEN lt - 1 ELSE IF eof THEN Len(b) ELSE SafeTextSplit(b)
  IN IF upto = 0 THEN Stays(b, FALSE)
     ELSE Goes(TextTok(SubSeq(b, 1, upto)), Rest(b, upto), FALSE)

Scan(b, r, eof) ==
  IF b = <<>> THEN Stays(b, r)
  ELSE IF r THEN ScanRaw(b, eof)
  ELSE IF b[1] # "<" THEN ScanText(b, eof)
  ELSE IF Len(b) = 1
  THEN IF eof THEN [Stays(<<>>, FALSE) EXCEPT !.emit = TextTok(b)] ELSE Stays(b, FALSE)
  ELSE IF b[2] \in {"!", "?"} THEN ScanBang(b, eof)
  ELSE IF b[2] = "/" THEN ScanEndTag(b, eof)
  ELSE IF b[2] \in Letters THEN ScanStartTag(b, eof)
  ELSE Goes(TextTok(<<"<">>), Rest(b, 1), FALSE)

RECURSIVE Drain(_, _, _)
\* The loop, entered with the outcome s of a turn and what was emitted before it.
Drain(s, out, eof) ==
  LET all == IF s.emit = <<>> THEN out ELSE Emit(out, s.emit[1])
  IN IF s.more THEN Drain(Scan(s.buf, s.raw, eof), all, eof)
     ELSE [buf |-> s.buf, raw |-> s.raw, out |-> all]
ScanAll(b, r, out, eof) == Drain(Scan(b, r, eof), out, eof)

-----------------------------------------------------------------------------
Pages == {FlattenSeq(fs) : fs \in UNION {[1..n -> Fragments] : n \in 1..MaxFragments}}

TokensInit ==
  /\ page \in Pages
  /\ fed = 0 /\ buffer = <<>> /\ raw = FALSE /\ tokens = <<>> /\ ended = FALSE

\* feed()
FeedChunk ==
  /\ fed < Len(page)
  /\ \E n \in 1..MaxChunk :
        /\ fed + n <= Len(page)
        /\ \E d \in {ScanAll(buffer \o SubSeq(page, fed + 1, fed + n), raw, tokens, FALSE)} :
             buffer' = d.buf /\ raw' = d.raw /\ tokens' = d.out
        /\ fed' = fed + n
  /\ UNCHANGED <<page, ended>>

\* finalize()
Finalize ==
  /\ fed = Len(page) /\ ~ended /\ ended' = TRUE
  /\ \E d \in {ScanAll(buffer, raw, tokens, TRUE)} : tokens' = d.out /\ raw' = d.raw
  /\ buffer' = <<>>
  /\ UNCHANGED <<page, fed>>

TokensNext == FeedChunk \/ Finalize

-----------------------------------------------------------------------------
TokensTypeOK ==
  /\ page \in Pages /\ fed \in 0..Len(page) /\ raw \in BOOLEAN /\ ended \in BOOLEAN
  /\ buffer \in Seq(Range(page))
  /\ \A i \in 1..Len(tokens) : tokens[i].kind \in {"start", "closed", "end", "text"}

\* A page with a quote that opens no value: the two scans of a start tag then
\* disagree about its end, and where the page is cut decides which of them counts,
\* which the docstring of feed does not know.
StrayQuote == \E i \in 2..Len(page) : page[i] = "q" /\ page[i - 1] \in Letters

\* An entity that is longer than the look back: no name is, a number with enough
\* zeros before it may be.
LongEntity ==
  \E i, j \in 1..Len(page) :
    /\ page[i] = "&" /\ page[j] = ";" /\ j - i > LookBack
    /\ \A k \in (i + 1)..(j - 1) : page[k] \notin {"&", ";", " ", "<"}

\* A text that was cut, put together again.
Joined(ts) ==
  FoldLeft(LAMBDA done, t :
             IF t.kind = "text" /\ done # <<>> /\ Last(done).kind = "text"
             THEN Append(Front(done), [t EXCEPT !.text = Last(done).text \o @])
             ELSE Append(done, t),
           <<>>, ts)

\* StreamingMarkdownConverter.feed: "Chunks may split a tag mid-token": however
\* a page is cut, its tokens are those of the page fed at once, but for a text that
\* is cut where a chunk ends.  That cut can be seen: each piece is escaped by itself
\* (_render), so that "a" and "-b" come out as "a\-b" and "a-b" does not; a test of
\* fetch has the converter stitch chunks "correctly across chunk boundaries".
OnlyTextsAreCut ==
  ended /\ ~StrayQuote /\ ~LongEntity =>
    \E whole \in {ScanAll(page, FALSE, <<>>, FALSE)} :
      Joined(tokens) = Joined(ScanAll(whole.buf, whole.raw, whole.out, TRUE).out)

\* The docstring bounds memory: between feeds only an unfinished token is kept.
\* In a raw text that is no more than a closing tag, whatever the script's length.
RawTextIsDropped ==
  raw /\ Word(buffer, <<"<", "/", "s">>, 1) = 0 => Len(buffer) <= 3

\* The two together.
TokenizerRight == OnlyTextsAreCut /\ RawTextIsDropped
=============================================================================
