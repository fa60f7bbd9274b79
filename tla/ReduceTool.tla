----------------------------- MODULE ReduceTool -----------------------------
(***************************************************************************)
(* exoclaw-tools-batch/reduce.py: merging files into one, into chunks, or  *)
(* by a tree-reduce, which cuts the items into chunks, runs a tool on each *)
(* concurrently and starts over with what comes back, until few enough     *)
(* items are left.                                                         *)
(*                                                                         *)
(* An item carries its dedup field and the places in the input that are    *)
(* behind it.  MaxRounds is 20 in the code.                                *)
(***************************************************************************)
EXTENDS Integers, FiniteSets, Sequences, SequencesExt

CONSTANTS
  Inputs,       \* lists of files; a file is [kind, fields]
  FieldValues,  \* of the dedup field
  ChunkSizes, Untils,
  NoField,      \* an item without the dedup field
  MaxRounds,
  Permits,      \* Semaphore(10)
  MaxItems      \* bound on the items a round returns

ASSUME ReduceAssumption ==
  /\ ChunkSizes \subseteq Int \ {0} /\ Untils \subseteq Int
  /\ MaxRounds \in Nat /\ MaxItems \in Nat /\ Permits \in Nat \ {0}
  /\ NoField \in FieldValues
  /\ \A files \in Inputs :
        /\ Len(files) \in Nat
        /\ \A f \in 1..Len(files) : files[f].fields \in Seq(FieldValues)

VARIABLES
  input, mode, chunkSize, until,  \* the call's arguments
  stage,      \* where the call is
  items,      \* what is left to reduce, then the result
  chunk,      \* the round's chunks, and what each returned
  round,
  \* what an observer has seen
  merged,     \* the places behind the merged items
  emptied     \* the tool returned an empty list

reduceVars == <<input, mode, chunkSize, until, stage, items, chunk, round, merged, emptied>>

\* _extract_items: a missing file is an error, a text is an item, a list its
\* elements, and anything else an item.
Read(f) ==
  IF input[f].kind = "missing" THEN <<>>
  ELSE [k \in 1..Len(input[f].fields) |-> [from |-> {<<f, k>>}, field |-> input[f].fields[k]]]

Extracted == FlattenSeq([f \in 1..Len(input) |-> Read(f)])

\* _dedup: the first item of a field's value stays, and all without the field.
Deduped(s) ==
  LET first(k) == s[k].field = NoField \/ \A l \in 1..k - 1 : s[l].field # s[k].field
  IN FlattenSeq([k \in 1..Len(s) |-> IF first(k) THEN <<s[k]>> ELSE <<>>])

\* range(0, len(items), chunk_size): a negative step gives no chunk at all.
Cut(s, n) ==
  IF n < 0 THEN <<>>
  ELSE [k \in 1..(Len(s) + n - 1) \div n |->
          SubSeq(s, (k - 1) * n + 1, IF k * n < Len(s) THEN k * n ELSE Len(s))]

Behind(s) == UNION {s[k].from : k \in 1..Len(s)}

ReduceInit ==
  /\ input \in Inputs /\ chunkSize \in ChunkSizes /\ until \in Untils
  /\ mode \in {"one file", "chunks", "tree"}
  /\ stage = "called" /\ items = <<>> /\ chunk = <<>> /\ round = 0
  /\ merged = {} /\ emptied = FALSE

NewChunks(s) == [k \in 1..Len(Cut(s, chunkSize)) |->
                   [in |-> Cut(s, chunkSize)[k], is |-> "waiting", out |-> <<>>]]

\* _run: extract, dedup, and the choice of a mode.
Merge ==
  /\ stage = "called"
  /\ items' \in {Extracted, Deduped(Extracted)} /\ merged' = Behind(items')
  /\ IF mode = "tree" /\ Len(items') > until /\ MaxRounds > 0
     THEN stage' = "round" /\ chunk' = NewChunks(items') /\ round' = 1
     ELSE /\ stage' = "done" /\ UNCHANGED round
          /\ chunk' = IF mode = "chunks" /\ Len(items') > chunkSize
                      THEN NewChunks(items') ELSE <<>>
  /\ UNCHANGED <<input, mode, chunkSize, until, emptied>>

\* _process_chunk: the chunk is written and the tool called on it, ...
ChunkStarts(k) ==
  /\ stage = "round" /\ chunk[k].is = "waiting"
  /\ Cardinality({l \in DOMAIN chunk : chunk[l].is = "running"}) < Permits
  /\ chunk' = [chunk EXCEPT ![k] = [in |-> chunk[k].in, is |-> "running", out |-> <<>>]]
  /\ UNCHANGED <<input, mode, chunkSize, until, stage, items, round, merged, emptied>>

Collected == FlattenSeq([k \in 1..Len(chunk) |-> chunk[k].out])

\* ... and it answers with one value or text, or with a list, ...
ChunkEnds(k) ==
  /\ stage = "round" /\ chunk[k].is = "running"
  /\ \E n \in 0..2 :
        /\ Len(Collected) + n <= MaxItems
        /\ chunk' = [chunk EXCEPT ![k] =
               [in |-> chunk[k].in, is |-> "done",
                out |-> [i \in 1..n |-> [from |-> Behind(chunk[k].in), field |-> NoField]]]]
        /\ emptied' = (emptied \/ n = 0)
  /\ UNCHANGED <<input, mode, chunkSize, until, stage, items, round, merged>>

\* ... or raises, and the whole call with it.
ChunkRaises(k) ==
  /\ stage = "round" /\ chunk[k].is = "running"
  /\ stage' = "failed"
  /\ UNCHANGED <<input, mode, chunkSize, until, items, chunk, round, merged, emptied>>

\* gather keeps the chunks' order, whichever of them came back first.
RoundEnds ==
  /\ stage = "round" /\ \A k \in DOMAIN chunk : chunk[k].is = "done"
  /\ items' = Collected
  /\ IF Len(items') > until /\ round < MaxRounds
     THEN round' = round + 1 /\ chunk' = NewChunks(items') /\ UNCHANGED stage
     ELSE stage' = "done" /\ chunk' = <<>> /\ UNCHANGED round
  /\ UNCHANGED <<input, mode, chunkSize, until, merged, emptied>>

ReduceNext ==
  \/ Merge \/ RoundEnds
  \/ \E k \in DOMAIN chunk : ChunkStarts(k) \/ ChunkEnds(k) \/ ChunkRaises(k)

ReduceSpec == ReduceInit /\ [][ReduceNext]_reduceVars

-----------------------------------------------------------------------------
ReduceTypeOK ==
  /\ input \in Inputs /\ chunkSize \in ChunkSizes /\ until \in Untils
  /\ mode \in {"one file", "chunks", "tree"}
  /\ stage \in {"called", "round", "failed", "done"} /\ round \in 0..MaxRounds
  /\ \A k \in 1..Len(items) : items[k].from \subseteq merged
  /\ \A k \in 1..Len(chunk) : chunk[k].is \in {"waiting", "running", "done"}
  /\ emptied \in BOOLEAN

\* A place of the input comes before another, and the first of some not after those
\* of others.
Before(p, q) == p[1] < q[1] \/ (p[1] = q[1] /\ p[2] <= q[2])
NotAfter(P, Q) == \A q \in Q : \E p \in P : Before(p, q)

\* reduce.py: a tree-reduce goes on "until count <= until", or to its last
\* round; however the chunks come back, every merged item is behind some result
\* and the results keep the items' order, unless the tool answers with an empty
\* list or the chunk size is negative.  Chunk files hold every item once.
ReduceRight ==
  /\ stage = "done" /\ mode = "tree" =>
        /\ Len(items) <= until \/ round = MaxRounds
        /\ ~emptied /\ chunkSize > 0 => Behind(items) = merged
  /\ stage = "done" /\ mode = "chunks" /\ chunk # <<>> =>
        FlattenSeq([k \in 1..Len(chunk) |-> chunk[k].in]) = items
  /\ \A k, l \in 1..Len(items) : k < l => NotAfter(items[k].from, items[l].from)
=============================================================================
