----------------------------- MODULE FileTools -----------------------------
(***************************************************************************)
(* exoclaw_tools_workspace.filesystem: read_file, write_file and edit_file  *)
(* over one file that several sessions work on.  Each call runs without a  *)
(* break; between two calls of a session the others come in.  A text is a  *)
(* sequence of letters, "n" a newline and "r" a carriage return.  Files are *)
(* opened in text mode, as CPython does it: reads turn the line endings     *)
(* into newlines, and writes leave what they are given.                     *)
(***************************************************************************)
EXTENDS Integers, Sequences, FiniteSets, SequencesExt

CONSTANTS
    Editors,     \* the sessions
    FileLetters, \* letters of a text
    FileTexts,   \* what a file may hold
    EditPieces,  \* what an edit may look for or put in its place
    PageSizes,   \* limits of a ranged read
    ReadCap,     \* _MAX_CHARS, letters a read returns
    MaxCalls     \* bound on the calls

\* execute refuses a limit below 1.
ASSUME FileAssumption ==
    /\ {"n", "r"} \subseteq FileLetters
    /\ FileTexts \subseteq Seq(FileLetters) /\ EditPieces \subseteq Seq(FileLetters)
    /\ PageSizes \subseteq Nat \ {0} /\ ReadCap \in Nat /\ MaxCalls \in Nat

VARIABLES
    exists,      \* the file is there
    text,        \* what it holds
    seen,        \* by session, what read_file last returned
    lastEdit,    \* the last edit: what it found, put and made
    fileCalls

fileVars == <<exists, text, seen, lastEdit, fileCalls>>

NoRead == [lines |-> <<>>, offset |-> 0, total |-> 0, whole |-> <<>>, kind |-> "none"]
NoEdit == [before |-> <<>>, old |-> <<>>, new |-> <<>>, after |-> <<>>, said |-> "none"]

FileInit ==
    /\ exists \in BOOLEAN
    /\ text \in (IF exists THEN FileTexts ELSE {<<>>})
    /\ seen = [s \in Editors |-> NoRead]
    /\ lastEdit = NoEdit
    /\ fileCalls = 0

Called ==
    /\ fileCalls < MaxCalls
    /\ fileCalls' = fileCalls + 1

-----------------------------------------------------------------------------
\* A text as it is read (universal newlines): "rn", and an "r" by itself, are a
\* newline.
AsRead(t) ==
    FlattenSeq([k \in DOMAIN t |->
        IF t[k] = "n" /\ k > 1 /\ t[k - 1] = "r" THEN <<>>
        ELSE <<IF t[k] = "r" THEN "n" ELSE t[k]>>])

\* The lines of a text, each with its newline; the last may have none.
Lines(t) ==
    LET ends == {k \in DOMAIN t : t[k] = "n" \/ k = Len(t)}
        nth(k) == CHOOSE e \in ends : Cardinality({f \in ends : f <= e}) = k
        from(k) == IF k = 1 THEN 1 ELSE nth(k - 1) + 1
    IN  [k \in 1..Cardinality(ends) |-> SubSeq(t, from(k), nth(k))]

Least(m, n) == IF m < n THEN m ELSE n
Capped(t) == SubSeq(t, 1, Least(ReadCap, Len(t)))

\* A plausible bug: the line that ends the window is part of it.
WindowOneMore(ls, offset, limit) ==
    SubSeq(ls, offset + 1, Least(offset + limit + 1, Len(ls)))

\* The lines from offset (0-based) on, limit of them.
Window(ls, offset, limit) == SubSeq(ls, offset + 1, Least(offset + limit, Len(ls)))

\* read_file with a range: the lines, their place and how many there are.
ReadRange(s) ==
    /\ exists /\ Called
    /\ \E offset \in 0..Len(text), limit \in PageSizes :
          LET ls == Lines(AsRead(text))
              got == Window(ls, offset, limit)
          IN  seen' = [seen EXCEPT ![s] =
                  [lines |-> got, offset |-> offset, total |-> Len(ls),
                   whole |-> Capped(FlattenSeq(got)), kind |-> "range"]]
    /\ UNCHANGED <<exists, text, lastEdit>>

\* read_file of the whole: refused when it is far over the cap, else cut at it.
ReadWhole(s) ==
    /\ exists /\ Called
    /\ seen' = [seen EXCEPT ![s] =
          IF Len(text) > 4 * ReadCap THEN [NoRead EXCEPT !.kind = "refused"]
          ELSE [NoRead EXCEPT !.whole = Capped(AsRead(text)), !.total = Len(AsRead(text)),
                              !.kind = "whole"]]
    /\ UNCHANGED <<exists, text, lastEdit>>

\* execute_streaming: the whole file in pieces, no cap.
StreamWhole(s) ==
    /\ exists /\ Called
    /\ seen' = [seen EXCEPT ![s] =
          [NoRead EXCEPT !.whole = AsRead(text), !.total = Len(AsRead(text)), !.kind = "stream"]]
    /\ UNCHANGED <<exists, text, lastEdit>>

WriteFile(s) ==
    /\ Called
    /\ exists' = TRUE
    /\ \E t \in FileTexts : text' = t
    /\ lastEdit' = NoEdit
    /\ UNCHANGED seen

-----------------------------------------------------------------------------
Found(t, old) ==
    {k \in 1..(Len(t) - Len(old) + 1) : SubSeq(t, k, k + Len(old) - 1) = old}

\* str.count: from the left, no two places overlapping; nothing is everywhere.
Count(t, old) ==
    LET scan[k \in 0..(Len(t) + 1)] ==
            IF k = 0 THEN [free |-> 1, n |-> 0]
            ELSE IF k \in Found(t, old) /\ k >= scan[k - 1].free
                 THEN [free |-> k + Len(old), n |-> scan[k - 1].n + 1]
                 ELSE scan[k - 1]
    IN  scan[Len(t) + 1].n

\* edit_file, on what the file holds now, its line endings converted.
EditFile(s) ==
    /\ exists /\ Called
    /\ \E old, new \in EditPieces :
          LET read == AsRead(text)
              places == Found(read, old)
              at == CHOOSE k \in places : \A j \in places : k <= j
              said == CASE places = {} -> "not found"
                        [] Count(read, old) > 1 -> "several"
                        [] OTHER -> "edited"
              after == IF said # "edited" THEN text
                       ELSE SubSeq(read, 1, at - 1) \o new
                              \o SubSeq(read, at + Len(old), Len(read))
          IN  /\ text' = after
              /\ lastEdit' = [before |-> text, old |-> old, new |-> new,
                              after |-> after, said |-> said]
    /\ UNCHANGED <<exists, seen>>

\* A read or an edit of a file that is not there only says so.
FileMissing(s) ==
    /\ ~exists /\ Called
    /\ seen' = [seen EXCEPT ![s] = [NoRead EXCEPT !.kind = "no file"]]
    /\ UNCHANGED <<exists, text, lastEdit>>

FileNext ==
    \E s \in Editors :
        ReadRange(s) \/ ReadWhole(s) \/ StreamWhole(s) \/ WriteFile(s) \/ EditFile(s)
          \/ FileMissing(s)

FileSpec == FileInit /\ [][FileNext]_fileVars

-----------------------------------------------------------------------------
FileTypeOK ==
    /\ exists \in BOOLEAN /\ fileCalls \in 0..MaxCalls /\ text \in Seq(FileLetters)
    /\ \A s \in Editors :
          seen[s].kind \in {"none", "range", "whole", "stream", "refused", "no file"}
    /\ lastEdit.said \in {"none", "not found", "several", "edited"}

\* Pages put together are the file: windows of one size, one after the other,
\* hold every line once, and each says the same total.  (The file as it is read:
\* its line endings are newlines.)
PagesMakeTheFile ==
    \A limit \in PageSizes :
        LET ls == Lines(AsRead(text))
            pages == (Len(ls) + limit - 1) \div limit
            page(k) == Window(ls, (k - 1) * limit, limit)
        IN  FlattenSeq(FlattenSeq([k \in 1..pages |-> page(k)])) = AsRead(text)

\* A read says no more than it may, whatever is written meanwhile: never more letters
\* than the cap but in a stream, and no line beyond the last the file had.
ReadsAreBounded ==
    \A s \in Editors :
        /\ seen[s].kind # "stream" => Len(seen[s].whole) <= ReadCap
        /\ seen[s].kind = "range" => seen[s].offset + Len(seen[s].lines) <= seen[s].total
                                       \/ seen[s].lines = <<>>

\* An edit changes one place or nothing at all, whatever the other sessions wrote
\* since its caller read the file.  That is so of the very file if it has no
\* carriage return; else the edit turns every line ending of the file into a
\* newline besides, which "replacing exact old_text" does not tell.  EditFileTool:
\* "The match must be unique": it is refused where the text stands twice, but for
\* places that overlap, which str.count takes for one.
EditsAreLocal ==
    LET e == lastEdit
        read == IF "r" \in ToSet(e.before) THEN AsRead(e.before) ELSE e.before
    IN
    /\ e.said \in {"not found", "several"} => e.after = e.before
    /\ e.said = "edited" =>
          /\ \E k \in Found(read, e.old) :
                /\ k - 1 <= Len(e.after)
                /\ SubSeq(e.after, 1, k - 1) = SubSeq(read, 1, k - 1)
                /\ SubSeq(e.after, k + Len(e.new), Len(e.after))
                     = SubSeq(read, k + Len(e.old), Len(read))
          /\ \A j, k \in Found(read, e.old) : j < k => k < j + Len(e.old)

FileRight == PagesMakeTheFile /\ ReadsAreBounded /\ EditsAreLocal
=============================================================================
