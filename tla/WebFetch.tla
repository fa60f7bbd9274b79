------------------------------ MODULE WebFetch ------------------------------
(***************************************************************************)
(* WebFetchTool (exoclaw-tools-web/fetch.py): a page is streamed through   *)
(* the Markdown converter into a bounded sink, or its bytes are saved to a *)
(* file.  The transport is outside; the converter (HtmlTokens, HtmlTree,   *)
(* HtmlSpace) is here by the fragments it hands to the sink.               *)
(***************************************************************************)
EXTENDS Integers, Sequences, SequencesExt

CONSTANTS
  FetchLetters, \* what a page's Markdown is made of
  FetchPages,   \* [lines, rest]: the fragments each line and the end of a page yield
  Caps     \* output caps

FetchFragments == Seq(FetchLetters) \ {<<>>}   \* _emit_block sinks no empty one

ASSUME FetchAssumption ==
  /\ Caps \subseteq Nat
  /\ \A p \in FetchPages :
       p = [lines |-> p.lines, rest |-> p.rest] /\ p.lines \in Seq(Seq(FetchFragments))
       /\ p.rest \in Seq(FetchFragments)

VARIABLES
  site,      \* what the server would send
  cap,       \* max_bytes
  saving,    \* save_to is given
  fetchAt,   \* "ask", "lines", "close", "body", "write", "done"
  linesFed,  \* lines fed
  sink,      \* _BoundedSink's text, and whether its last call raised
  capped,
  fetched,   \* the result: "none", "error", "text", "cut", "saved"
  target     \* the file: "old", "part", "new"

fetchVars == <<site, cap, saving, fetchAt, linesFed, sink, capped, fetched, target>>

-----------------------------------------------------------------------------
(* _BoundedSink *)

\* What of a fragment is kept.
Fitting(fragment, room) == SubSeq(fragment, 1, IF Len(fragment) > room THEN room ELSE Len(fragment))

\* __call__
Sunk(s, fragment) ==
  LET room == cap - Len(s.text)
  IN IF room <= 0 THEN [s EXCEPT !.raised = TRUE]
     ELSE [text |-> s.text \o Fitting(fragment, room), raised |-> Len(fragment) > room]

\* feed or close: the call that raises is the last.
Emitted(fragments) ==
  LET after[n \in 0..Len(fragments)] ==
        IF n = 0 THEN [text |-> sink.text, raised |-> FALSE]
        ELSE IF after[n - 1].raised THEN after[n - 1] ELSE Sunk(after[n - 1], fragments[n])
  IN after[Len(fragments)]

-----------------------------------------------------------------------------
(* execute *)

\* A URL of another scheme, no connection, or a status of 400 and above; a file
\* also when it turns out to be HTML, is empty or breaks off.
AskFails ==
  /\ fetchAt \in {"ask", "body"} /\ fetchAt' = "done" /\ fetched' = "error"
  /\ UNCHANGED <<site, cap, saving, linesFed, sink, capped, target>>

Responds ==
  /\ fetchAt = "ask" /\ fetchAt' = IF saving THEN "body" ELSE "lines"
  /\ UNCHANGED <<site, cap, saving, linesFed, sink, capped, fetched, target>>

\* One line is fed; the sink's sentinel ends the loop.
FeedLine ==
  /\ fetchAt = "lines" /\ linesFed < Len(site.lines) /\ linesFed' = linesFed + 1
  /\ sink' = Emitted(site.lines[linesFed + 1])
  /\ capped' = sink'.raised /\ fetchAt' = IF sink'.raised THEN "close" ELSE "lines"
  /\ UNCHANGED <<site, cap, saving, fetched, target>>

LinesEnd ==
  /\ fetchAt = "lines" /\ linesFed = Len(site.lines) /\ fetchAt' = "close"
  /\ UNCHANGED <<site, cap, saving, linesFed, sink, capped, fetched, target>>

\* The transport or the converter raises: nothing of what was read is returned.
BreaksOff ==
  /\ fetchAt \in {"lines", "close"} /\ fetchAt' = "done" /\ fetched' = "error"
  /\ UNCHANGED <<site, cap, saving, linesFed, sink, capped, target>>

\* close(), with the sentinel swallowed, and the result.
DrainConverter ==
  /\ fetchAt = "close" /\ fetchAt' = "done"
  /\ sink' = Emitted(site.rest) /\ capped' = (capped \/ sink'.raised)
  /\ fetched' = CASE sink'.text = <<>> -> "error" [] capped' -> "cut" [] OTHER -> "text"
  /\ UNCHANGED <<site, cap, saving, linesFed, target>>

\* _fetch_to_file: the body is read as a whole before the file is opened.
BodyRead ==
  /\ fetchAt = "body" /\ fetchAt' = "write"
  /\ UNCHANGED <<site, cap, saving, linesFed, sink, capped, fetched, target>>

Write ==
  /\ fetchAt = "write" /\ fetchAt' = "done"
  /\ \/ target' = "new" /\ fetched' = "saved"
     \/ target' \in {"old", "part"} /\ fetched' = "error"
  /\ UNCHANGED <<site, cap, saving, linesFed, sink, capped>>

FetchInit ==
  /\ site \in FetchPages /\ cap \in Caps /\ saving \in BOOLEAN
  /\ fetchAt = "ask" /\ linesFed = 0 /\ sink = [text |-> <<>>, raised |-> FALSE]
  /\ capped = FALSE /\ fetched = "none" /\ target = "old"

FetchNext ==
  \/ AskFails \/ Responds \/ FeedLine \/ LinesEnd \/ BreaksOff \/ DrainConverter \/ BodyRead \/ Write

FetchSpec == FetchInit /\ [][FetchNext]_fetchVars

-----------------------------------------------------------------------------
(* Properties *)

WholePage == FlattenSeq(FlattenSeq(site.lines) \o site.rest)

\* "the output reached the cap": what is returned is the beginning of the page's
\* Markdown, without a gap where a late fragment would still have fitted, all of
\* it or as much as the cap allows, and the notice is there exactly when
\* something is missing.
FetchRight ==
  /\ IsPrefix(sink.text, WholePage) /\ Len(sink.text) <= cap
  /\ fetched = "text" => sink.text = WholePage
  /\ fetched = "cut" => Len(sink.text) = cap /\ sink.text # WholePage
  \* A download that fails leaves the old file, unless writing it failed.
  /\ target # "old" => fetchAt = "done" /\ (target = "new" <=> fetched = "saved")
=============================================================================
