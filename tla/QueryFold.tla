------------------------------ MODULE QueryFold ------------------------------
(***************************************************************************)
(* Chat.Query (query.go): one turn folded into its answer, through the     *)
(* block fold and two of the transforms (transform.go), which hold blocks  *)
(* back while the fold runs.                                               *)
(*                                                                         *)
(* A block goes through the transforms and into Query's loop within the    *)
(* call that yields it, so a step here is a step of BlockFold with what    *)
(* becomes of its blocks.  Any error, one that ends the turn or one that   *)
(* is only reported, ends the query.  A caller that leaves early ranges    *)
(* over the same transforms itself, and gets no result.                    *)
(***************************************************************************)
EXTENDS BlockFold

VARIABLE query   (* The transforms' variables and Query's.                  *)

allvars == <<vars, query>>

\* Before any text there is no context to keep.
NoBlock == [kind |-> "TextDone", agent |-> Blank, iteration |-> 0, text |-> <<>>,
            of |-> Blank, known |-> FALSE]

(* held is of SkipIntermediateEnds; accumulated and ctx (the block it is from) *)
(* are of MergeTextAcrossIterations; passed is what came out of both; answer,  *)
(* text, files and err are Query's builder, its result and its error; ended    *)
(* is set once the blocks came to their end and Query returned the answer.     *)
newQuery ==
  [held |-> <<>>, accumulated |-> <<>>, ctx |-> NoBlock, passed |-> <<>>,
   answer |-> <<>>, text |-> <<>>, files |-> 0, err |-> FALSE,
   ended |-> FALSE]

QueryTypeOK ==
  /\ TypeOK
  /\ query.held \in Seq(Block) /\ Len(query.held) <= 1
  /\ query.passed \in Seq(Block) /\ query.ctx \in Block
  /\ \A t \in {query.accumulated, query.answer, query.text} : t \in Seq(Characters)
  /\ query.files \in Nat
  /\ query.err \in BOOLEAN /\ query.ended \in BOOLEAN

QueryInit == Init /\ query = newQuery

-----------------------------------------------------------------------------
(* Query's loop: it leaves at an error, with the text not yet set. *)

Take(qu, block) ==
  LET seen == [qu EXCEPT !.passed = Append(@, block)]
  IN  CASE block.kind = "failure"  -> [seen EXCEPT !.err = TRUE]
        [] block.kind = "TextDone" -> [seen EXCEPT !.answer = @ \o block.text]
        [] block.kind = "file"     -> [seen EXCEPT !.files = @ + 1]
        [] OTHER                   -> seen

(* MergeTextAcrossIterations *)

flush(qu, at) ==
  IF qu.accumulated = <<>> THEN qu
  ELSE Take([qu EXCEPT !.accumulated = <<>>],
            [at EXCEPT !.kind = "TextDone", !.text = qu.accumulated, !.of = Blank])

MergeText(qu, block) ==
  CASE block.kind = "TextDone"    -> [qu EXCEPT !.accumulated = @ \o block.text, !.ctx = block]
    [] block.kind = "ResponseEnd" -> Take(flush(qu, block), block)
    [] OTHER                      -> Take(qu, block)

(* SkipIntermediateEnds *)

SkipEnds(qu, block) ==
  CASE block.kind = "failure"     -> MergeText(qu, block)
    [] block.kind = "ResponseEnd" -> [qu EXCEPT !.held = <<block>>]
    [] OTHER                      -> MergeText([qu EXCEPT !.held = <<>>], block)

\* What is still accumulated is dropped with the end that never came.
BugSequenceEnds(qu) ==
  LET ended == IF qu.held = <<>> THEN qu ELSE MergeText(qu, Head(qu.held))
  IN  [ended EXCEPT !.held = <<>>, !.text = ended.answer, !.ended = TRUE]

\* The end still held is the real one; what is still accumulated is the answer.
SequenceEnds(qu) ==
  LET ended   == IF qu.held = <<>> THEN qu ELSE MergeText(qu, Head(qu.held))
      flushed == flush(ended, ended.ctx)
  IN  [flushed EXCEPT !.held = <<>>, !.text = flushed.answer, !.ended = TRUE]

Fresh == SubSeq(out', Len(out) + 1, Len(out'))

-----------------------------------------------------------------------------
QueryReceives(e) ==
  /\ Receive(e)
  /\ query' = FoldLeft(SkipEnds, query, Fresh)

QueryFails ==
  /\ Fails
  /\ query' = FoldLeft(SkipEnds, query, Fresh)

QueryEnds ==
  /\ Closes
  /\ query' = SequenceEnds(FoldLeft(SkipEnds, query, Fresh))

QueryNext ==
  \/ \E e \in Feed : QueryReceives(e)
  \/ QueryFails
  \/ QueryEnds
  \/ Finished /\ UNCHANGED query

QuerySpec == QueryInit /\ [][QueryNext]_allvars

-----------------------------------------------------------------------------
(***************************************************************************)
(* Properties.                                                             *)
(***************************************************************************)

TheFiles == {i \in 1..Len(out) : out[i].kind = "file"}

\* Query returns the whole answer of a turn that ends, however many passes, ends and
\* tool calls it was spoken in, each section once and in order, and every file also when
\* the turn fails.  A reader of the two transforms sees one end at most, as the last block,
\* and the whole answer in one block before it; an error reaches it whatever is held back
\* (the two transforms, the builder).
AnswerOnce ==
  LET passed == query.passed
      ends   == {i \in 1..Len(passed) : passed[i].kind = "ResponseEnd"}
      texts  == {i \in 1..Len(passed) : passed[i].kind = "TextDone"}
  IN  /\ query.files = Cardinality(TheFiles)
      /\ query.ended => query.text = All({"TextDone"})
      /\ \A i \in ends : i = Len(passed)
      /\ query.ended /\ All({"TextDone"}) # <<>> => Cardinality(texts) = 1
      /\ query.err <=> \E i \in 1..Len(out) : out[i].kind = "failure"

\* What Query's comment says: it returns what it gathered alongside any error.
KeepsWhatItGathered == query.err => query.text = All({"TextDone"})
=============================================================================
