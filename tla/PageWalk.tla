------------------------------ MODULE PageWalk ------------------------------
(***************************************************************************)
(* pageSeq (list.go): a cursor-paged listing walked as one sequence.       *)
(*                                                                         *)
(* The server (external) holds rows 1..Rows, answers with the rows after a *)
(* cursor and calls a row by its number.  A page that promises more may    *)
(* reach the client spoiled, by a bug or by a proxy: without its rows,     *)
(* without its cursor, with one followed before, or with a fresh one and   *)
(* no rows.  What no client can notice stays out: a false end, and rows    *)
(* left out of a page that still carries some.                             *)
(***************************************************************************)
EXTENDS Naturals, Sequences

CONSTANTS
  Rows,             (* How many rows the listing holds.                      *)
  PageSize,         (* The most rows of one page.                            *)
  maxListingPages   (* Bound on one walk, in the code.                       *)

ASSUME ListingAssumption ==
  /\ Rows \in Nat
  /\ PageSize \in Nat \ {0}
  /\ maxListingPages \in Nat \ {0}

VARIABLES
  pc,       (* asking, yielding, judging or over.                            *)
  cursor,   (* The cursor to ask with; Start is the empty string.            *)
  seen,     (* The cursors followed.                                         *)
  pages,    (* Pages fetched and followed.                                   *)
  page,     (* The page in hand.                                             *)
  next,     (* How many of its rows have been yielded.                       *)
  outcome,  (* complete, refused, failed or left.                            *)
  yielded,  (* The rows handed to the caller.                                *)
  asked     (* The cursors of the requests sent.                             *)

walk == <<cursor, seen, pages>>
vars == <<pc, walk, page, next, outcome, yielded, asked>>

Start   == 0
Cursors == 0..Rows
Pages   == [data : Seq(1..Rows), lastID : Cursors, hasMore : BOOLEAN]
NoPage  == [data |-> <<>>, lastID |-> Start, hasMore |-> FALSE]

TypeOK ==
  /\ pc \in {"asking", "yielding", "judging", "over"}
  /\ cursor \in Cursors
  /\ seen \subseteq Cursors
  /\ pages \in 0..maxListingPages
  /\ page \in Pages
  /\ next \in 0..Len(page.data)
  /\ outcome \in {"none", "complete", "refused", "failed", "left"}
  /\ yielded \in Seq(1..Rows)
  /\ asked \in Seq(Cursors)

Init ==
  /\ pc = "asking"
  /\ cursor = Start
  /\ seen = {}
  /\ pages = 0
  /\ page = NoPage
  /\ next = 0
  /\ outcome = "none"
  /\ yielded = <<>>
  /\ asked = <<>>

-----------------------------------------------------------------------------
(* The server's answers: external. *)

PageAfter(c, n) ==
  [data    |-> [i \in 1..n |-> c + i],
   lastID  |-> IF n = 0 THEN Start ELSE c + n,
   hasMore |-> c + n < Rows]

Honest(c) ==
  {PageAfter(c, n) : n \in {k \in 0..PageSize : c + k <= Rows /\ (k = 0 => c = Rows)}}

Spoiled(p) ==
  IF ~p.hasMore THEN {}
  ELSE {[p EXCEPT !.data = <<>>], [p EXCEPT !.data = <<>>, !.lastID = Start],
        [p EXCEPT !.lastID = Start]}
       \union {[p EXCEPT !.lastID = c] : c \in seen}

Answers(c) == Honest(c) \union UNION {Spoiled(p) : p \in Honest(c)}

-----------------------------------------------------------------------------
(* pageSeq *)

Stop(how) == pc' = "over" /\ outcome' = how

Spent == pages >= maxListingPages

RefuseUnbounded ==
  /\ pc = "asking" /\ Spent
  /\ Stop("refused")
  /\ UNCHANGED <<walk, page, next, yielded, asked>>

Fetch ==
  /\ pc = "asking" /\ ~Spent
  /\ asked' = Append(asked, cursor)
  /\ \/ /\ page' \in Answers(cursor)
        /\ next' = 0
        /\ pc' = "yielding"
        /\ UNCHANGED outcome
     \/ /\ Stop("failed")
        /\ UNCHANGED <<page, next>>
  /\ UNCHANGED <<walk, yielded>>

YieldRow ==
  /\ pc = "yielding" /\ next < Len(page.data)
  /\ next' = next + 1
  /\ yielded' = Append(yielded, page.data[next + 1])
  /\ (pc' = "yielding" /\ UNCHANGED outcome) \/ Stop("left")
  /\ UNCHANGED <<walk, page, asked>>

PageYielded ==
  /\ pc = "yielding" /\ next = Len(page.data)
  /\ pc' = "judging"
  /\ UNCHANGED <<walk, page, next, outcome, yielded, asked>>

\* A page without a cursor ends the walk as if it were the last one.
BugEndWithoutCursor ==
  /\ pc = "judging" /\ (~page.hasMore \/ page.lastID = Start)
  /\ Stop("complete")
  /\ UNCHANGED <<walk, page, next, yielded, asked>>

Complete ==
  /\ pc = "judging" /\ ~page.hasMore
  /\ Stop("complete")
  /\ UNCHANGED <<walk, page, next, yielded, asked>>

\* A repeated cursor is followed again.
BugBroken == page.data = <<>> \/ page.lastID = Start

\* More promised, and no rows, no cursor, or one already followed.
Broken == page.data = <<>> \/ page.lastID = Start \/ page.lastID \in seen

RefuseBroken ==
  /\ pc = "judging" /\ page.hasMore /\ Broken
  /\ Stop("refused")
  /\ UNCHANGED <<walk, page, next, yielded, asked>>

Follow ==
  /\ pc = "judging" /\ page.hasMore /\ ~Broken
  /\ seen' = seen \union {page.lastID}
  /\ cursor' = page.lastID
  /\ pages' = pages + 1
  /\ pc' = "asking"
  /\ UNCHANGED <<page, next, outcome, yielded, asked>>

Finished == pc = "over" /\ UNCHANGED vars

Advance ==
  \/ RefuseUnbounded \/ Fetch \/ YieldRow \/ PageYielded \/ Complete
  \/ RefuseBroken \/ Follow

Next == Advance \/ Finished

Spec == Init /\ [][Next]_vars

-----------------------------------------------------------------------------
(***************************************************************************)
(* Properties.                                                             *)
(***************************************************************************)

\* A walk that ends quietly has handed over the whole listing, each row once and in
\* order, whatever reached it spoiled: a listing cut short is never taken for a
\* complete one (the four refusals of pageSeq).
QuietMeansWhole ==
  outcome = "complete" => yielded = [i \in 1..Rows |-> i]

\* No request is sent twice, and no walk sends more than its cap: a server that
\* never stops answering cannot hold the caller (seen, maxListingPages).
NoRequestTwice ==
  /\ Len(asked) <= maxListingPages
  /\ \A i, j \in 1..Len(asked) : asked[i] = asked[j] => i = j

-----------------------------------------------------------------------------
(* The strengthenings every step preserves. *)

\* What has been asked: each cursor once, and only Start and followed cursors.
AskBook ==
  /\ pc = "asking" => Len(asked) = pages
  /\ pc \in {"yielding", "judging"} => Len(asked) = pages + 1 /\ pages < maxListingPages
  /\ pc = "asking" => \A i \in 1..Len(asked) : asked[i] # cursor
  /\ \A i \in 1..Len(asked) : asked[i] \in seen \union {Start}
  /\ cursor \in seen \union {Start}
  /\ NoRequestTwice

\* What has been yielded: the rows up to the cursor and those of the page in hand.
RowBook ==
  /\ \A i \in 1..Len(yielded) : yielded[i] = i
  /\ pc = "asking" => Len(yielded) = cursor
  /\ pc \in {"yielding", "judging"} =>
       /\ Len(yielded) = cursor + next
       /\ \A i \in 1..Len(page.data) : page.data[i] = cursor + i
       /\ ~page.hasMore => cursor + Len(page.data) = Rows
       /\ page.hasMore /\ ~Broken => page.lastID = cursor + Len(page.data)
  /\ pc = "judging" => next = Len(page.data)
  /\ outcome = "complete" => Len(yielded) = Rows
  /\ pc # "over" => outcome = "none"
=============================================================================
