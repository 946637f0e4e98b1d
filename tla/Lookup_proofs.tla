---------------------------- MODULE Lookup_proofs ----------------------------
(***************************************************************************)
(* Proofs about PageWalk and Lookup, for every listing, page size, cap and *)
(* server.                                                                 *)
(***************************************************************************)
EXTENDS Lookup, SequenceFacts

-----------------------------------------------------------------------------
(* What any page that reaches the client after cursor c, spoiled or not, says. *)
LEMMA AnswerShape ==
  ASSUME NEW c \in Cursors, seen \subseteq Cursors, NEW p \in Answers(c)
  PROVE  /\ p \in Pages
         /\ \A i \in 1..Len(p.data) : p.data[i] = c + i
         /\ ~p.hasMore => c + Len(p.data) = Rows
         /\ \/ ~p.hasMore \/ p.data = <<>> \/ p.lastID = Start \/ p.lastID \in seen
            \/ p.lastID = c + Len(p.data)
<1> USE ListingAssumption DEF Start, Cursors
<1> DEFINE Whole(h) == /\ h \in Pages
                       /\ \A i \in 1..Len(h.data) : h.data[i] = c + i
                       /\ ~h.hasMore => c + Len(h.data) = Rows
                       /\ \/ h.data = <<>> \/ h.lastID = c + Len(h.data)
<1>1. ASSUME NEW h \in Honest(c) PROVE Whole(h)
  <2>1. PICK n \in 0..PageSize : c + n <= Rows /\ (n = 0 => c = Rows) /\ h = PageAfter(c, n)
    BY <1>1 DEF Honest
  <2>2. h.data = [i \in 1..n |-> c + i] /\ (h.hasMore <=> c + n < Rows)
        /\ h.lastID = IF n = 0 THEN 0 ELSE c + n
    BY <2>1 DEF PageAfter
  <2>3. h.data \in Seq(1..Rows) /\ Len(h.data) = n
    BY <2>1, <2>2
  <2>4. h \in Pages
    BY <2>1, <2>2, <2>3 DEF Pages, PageAfter
  <2>5. \A i \in 1..Len(h.data) : h.data[i] = c + i
    BY <2>2, <2>3
  <2>6. ~h.hasMore => c + Len(h.data) = Rows
    BY <2>1, <2>2, <2>3
  <2>7. n # 0 => h.lastID = c + Len(h.data)
    BY <2>2, <2>3
  <2>8. n = 0 => h.data = <<>>
    BY <2>3
  <2>9. QED
    BY <2>4, <2>5, <2>6, <2>7, <2>8
<1>2. CASE p \in Honest(c)
  BY <1>1, <1>2
<1>3. ASSUME NEW h \in Honest(c), p \in Spoiled(h)
      PROVE  /\ p \in Pages /\ p.hasMore
             /\ \A i \in 1..Len(p.data) : p.data[i] = c + i
             /\ p.data = <<>> \/ p.lastID = Start \/ p.lastID \in seen
  <2>1. Whole(h) /\ h.hasMore
    BY <1>1, <1>3 DEF Spoiled
  <2>2. ASSUME NEW d \in Cursors, p = [data |-> <<>>, lastID |-> d, hasMore |-> TRUE]
        PROVE  p \in Pages /\ p.hasMore /\ p.data = <<>>
    BY <2>2 DEF Pages
  <2>3. CASE p = [h EXCEPT !.lastID = Start]
    BY <2>1, <2>3 DEF Pages
  <2>4. ASSUME NEW d \in seen, p = [h EXCEPT !.lastID = d]
        PROVE  p \in Pages /\ p.hasMore /\ p.data = h.data /\ p.lastID = d
    BY <2>1, <2>4 DEF Pages
  <2>5. CASE p \in {[h EXCEPT !.data = <<>>], [h EXCEPT !.data = <<>>, !.lastID = Start]}
    <3>1. h.hasMore = TRUE /\ h.lastID \in Cursors
      BY <2>1 DEF Pages
    <3>2. \/ p = [data |-> <<>>, lastID |-> h.lastID, hasMore |-> TRUE]
          \/ p = [data |-> <<>>, lastID |-> Start, hasMore |-> TRUE]
      BY <2>1, <2>5, <3>1 DEF Pages
    <3>3. Start \in Cursors
      OBVIOUS
    <3>4. p \in Pages /\ p.hasMore /\ p.data = <<>>
      BY <2>2, <3>1, <3>2, <3>3
    <3>5. QED
      BY <3>4
  <2>6. QED
    BY <1>3, <2>1, <2>3, <2>4, <2>5 DEF Spoiled
<1>4. QED
  BY <1>2, <1>3 DEF Answers

-----------------------------------------------------------------------------
(* Every step keeps the types. *)
LEMMA TypeStep ==
  ASSUME TypeOK, AskBook, [Next]_vars
  PROVE  TypeOK'
<1> USE ListingAssumption DEF TypeOK, walk, Start, Cursors, Stop
<1>1. CASE RefuseUnbounded
  BY <1>1 DEF RefuseUnbounded
<1>2. CASE Fetch
  <2>1. asked' \in Seq(Cursors)
    BY <1>2 DEF Fetch
  <2>2. CASE page' \in Answers(cursor) /\ next' = 0 /\ pc' = "yielding" /\ UNCHANGED outcome
    <3>1. page' \in Pages
      BY <2>2, AnswerShape
    <3>2. Len(page'.data) \in Nat
      BY <3>1 DEF Pages
    <3>3. QED
      BY <1>2, <2>1, <2>2, <3>1, <3>2 DEF Fetch
  <2>3. CASE Stop("failed") /\ UNCHANGED <<page, next>>
    BY <1>2, <2>1, <2>3 DEF Fetch
  <2>4. QED
    BY <1>2, <2>2, <2>3 DEF Fetch
<1>3. CASE YieldRow
  <2>1. next + 1 \in 1..Len(page.data) /\ page.data \in Seq(1..Rows)
    BY <1>3 DEF YieldRow, Pages
  <2>2. yielded' \in Seq(1..Rows)
    BY <1>3, <2>1 DEF YieldRow
  <2>3. QED
    BY <1>3, <2>1, <2>2 DEF YieldRow
<1>4. CASE PageYielded
  BY <1>4 DEF PageYielded
<1>5. CASE Complete
  BY <1>5 DEF Complete
<1>6. CASE RefuseBroken
  BY <1>6 DEF RefuseBroken
<1>7. CASE Follow
  <2>1. page.lastID \in Cursors /\ pages + 1 \in 0..maxListingPages
    BY <1>7 DEF Follow, AskBook, Pages
  <2>2. QED
    BY <1>7, <2>1 DEF Follow
<1>8. CASE UNCHANGED vars
  BY <1>8 DEF vars
<1>9. QED
  BY <1>1, <1>2, <1>3, <1>4, <1>5, <1>6, <1>7, <1>8 DEF Next, Advance, Finished

(* Every step keeps what has been asked. *)
LEMMA AskStep ==
  ASSUME TypeOK, AskBook, [Next]_vars
  PROVE  AskBook'
<1> USE ListingAssumption DEF TypeOK, AskBook, NoRequestTwice, walk, Start, Cursors, Stop
<1>1. CASE RefuseUnbounded
  BY <1>1 DEF RefuseUnbounded
<1>2. CASE Fetch
  <2>1. /\ Len(asked') = Len(asked) + 1 /\ asked'[Len(asked')] = cursor
        /\ \A i \in 1..Len(asked) : asked'[i] = asked[i]
    BY <1>2 DEF Fetch
  <2>2. pages < maxListingPages /\ pc = "asking" /\ pc' \in {"yielding", "over"}
        /\ UNCHANGED <<cursor, seen, pages>>
    BY <1>2 DEF Fetch, Spent
  <2>3. \A i \in 1..Len(asked') : i \in 1..Len(asked) \/ i = Len(asked')
    BY <2>1
  <2>4. Len(asked) \in Nat /\ Len(asked') <= maxListingPages
    BY <2>1, <2>2
  <2>5. \A i, j \in 1..Len(asked') : asked'[i] = asked'[j] => i = j
    <3>1. SUFFICES ASSUME NEW i \in 1..Len(asked'), NEW j \in 1..Len(asked'),
                          asked'[i] = asked'[j]
                   PROVE  i = j
      OBVIOUS
    <3>2. CASE i \in 1..Len(asked) /\ j \in 1..Len(asked)
      <4>1. asked[i] = asked[j]
        BY <2>1, <3>1, <3>2
      <4>2. QED
        BY <3>2, <4>1
    <3>3. CASE i = Len(asked') \/ j = Len(asked')
      BY <2>1, <2>2, <2>3, <3>1, <3>3
    <3>4. QED
      BY <2>3, <3>2, <3>3
  <2>6. \A i \in 1..Len(asked') : asked'[i] \in seen \union {0}
    BY <2>1, <2>2, <2>3, <2>4
  <2>7. QED
    BY <2>1, <2>2, <2>4, <2>5, <2>6
<1>3. CASE YieldRow
  BY <1>3 DEF YieldRow
<1>4. CASE PageYielded
  BY <1>4 DEF PageYielded
<1>5. CASE Complete
  BY <1>5 DEF Complete
<1>6. CASE RefuseBroken
  BY <1>6 DEF RefuseBroken
<1>7. CASE Follow
  BY <1>7 DEF Follow, Broken
<1>8. CASE UNCHANGED vars
  BY <1>8 DEF vars
<1>9. QED
  BY <1>1, <1>2, <1>3, <1>4, <1>5, <1>6, <1>7, <1>8 DEF Next, Advance, Finished

(* Every step keeps what has been yielded. *)
LEMMA RowStep ==
  ASSUME TypeOK, RowBook, [Next]_vars
  PROVE  RowBook'
<1> USE ListingAssumption DEF TypeOK, RowBook, walk, Start, Cursors, Stop
<1>1. CASE RefuseUnbounded
  BY <1>1 DEF RefuseUnbounded
<1>2. CASE Fetch
  <2>1. CASE page' \in Answers(cursor) /\ next' = 0 /\ pc' = "yielding" /\ UNCHANGED outcome
    <3>1. UNCHANGED <<cursor, seen, yielded>> /\ pc = "asking"
      BY <1>2 DEF Fetch
    <3>2. /\ \A i \in 1..Len(page'.data) : page'.data[i] = cursor + i
          /\ ~page'.hasMore => cursor + Len(page'.data) = Rows
          /\ page'.hasMore /\ ~Broken' => page'.lastID = cursor + Len(page'.data)
      BY <2>1, <3>1, AnswerShape DEF Broken
    <3>3. QED
      BY <2>1, <3>1, <3>2
  <2>2. CASE Stop("failed") /\ UNCHANGED <<page, next>>
    BY <1>2, <2>2 DEF Fetch
  <2>3. QED
    BY <1>2, <2>1, <2>2 DEF Fetch
<1>3. CASE YieldRow
  <2>1. next + 1 \in 1..Len(page.data) /\ page.data[next + 1] = cursor + next + 1
    <3>1. next + 1 \in 1..Len(page.data)
      BY <1>3 DEF YieldRow
    <3>2. page.data[next + 1] = cursor + (next + 1)
      BY <1>3, <3>1 DEF YieldRow
    <3>3. QED
      BY <3>1, <3>2
  <2>2. /\ Len(yielded') = Len(yielded) + 1 /\ yielded'[Len(yielded')] = cursor + next + 1
        /\ \A i \in 1..Len(yielded) : yielded'[i] = yielded[i]
    BY <1>3, <2>1 DEF YieldRow
  <2>3. \A i \in 1..Len(yielded') : yielded'[i] = i
    BY <1>3, <2>2 DEF YieldRow
  <2>4. QED
    BY <1>3, <2>2, <2>3 DEF YieldRow, Broken
<1>4. CASE PageYielded
  BY <1>4 DEF PageYielded, Broken
<1>5. CASE Complete
  BY <1>5 DEF Complete, Broken
<1>6. CASE RefuseBroken
  BY <1>6 DEF RefuseBroken, Broken
<1>7. CASE Follow
  BY <1>7 DEF Follow
<1>8. CASE UNCHANGED vars
  BY <1>8 DEF vars, Broken
<1>9. QED
  BY <1>1, <1>2, <1>3, <1>4, <1>5, <1>6, <1>7, <1>8 DEF Next, Advance, Finished

-----------------------------------------------------------------------------
LEMMA BooksHold == Spec => [](TypeOK /\ AskBook /\ RowBook)
<1>1. Init => TypeOK /\ AskBook /\ RowBook
  BY ListingAssumption DEF Init, TypeOK, AskBook, RowBook, NoRequestTwice, Start, Cursors,
     Pages, NoPage
<1>2. TypeOK /\ AskBook /\ RowBook /\ [Next]_vars => (TypeOK /\ AskBook /\ RowBook)'
  BY TypeStep, AskStep, RowStep
<1>3. QED
  BY <1>1, <1>2, PTL DEF Spec

(* However long the server goes on, no cursor is asked with twice and the cap holds. *)
THEOREM NoRequestTwiceHolds == Spec => []NoRequestTwice
<1>1. AskBook => NoRequestTwice
  BY DEF AskBook
<1>2. QED
  BY <1>1, BooksHold, PTL

(* A walk that ends quietly has yielded every row once and in order. *)
THEOREM QuietMeansWholeHolds == Spec => []QuietMeansWhole
<1>1. TypeOK /\ RowBook => QuietMeansWhole
  <2> SUFFICES ASSUME TypeOK, RowBook, outcome = "complete"
               PROVE  yielded = [i \in 1..Rows |-> i]
    BY DEF QuietMeansWhole
  <2>1. yielded \in Seq(1..Rows) /\ Len(yielded) = Rows /\ \A i \in 1..Rows : yielded[i] = i
    BY DEF TypeOK, RowBook
  <2>2. QED
    BY <2>1
<1>2. QED
  BY <1>1, BooksHold, PTL

-----------------------------------------------------------------------------
(* Lookup. *)

\* The caller's loop is one of the walks PageWalk allows: what is proved of those holds
\* of the one a lookup makes.
THEOREM LookupIsWalk == LookupSpec => Spec
<1>1. LookupInit => Init
  BY DEF LookupInit
<1>2. [LookupNext]_lvars => [Next]_vars
  <2> SUFFICES ASSUME [LookupNext]_lvars
               PROVE  [Next]_vars
    OBVIOUS
  <2>1. CASE RefuseName \/ ResolveRunner
    BY <2>1 DEF RefuseName, ResolveRunner
  <2>2. CASE LookAtAgent
    BY <2>2 DEF LookAtAgent, Next, Advance
  <2>3. CASE WalkOn
    BY <2>3 DEF WalkOn, Next, Advance
  <2>4. CASE UNCHANGED lvars
    BY <2>4 DEF lvars
  <2> QED
    BY <2>1, <2>2, <2>3, <2>4 DEF LookupNext
<1> QED
  BY <1>1, <1>2, PTL DEF LookupSpec, Spec

-----------------------------------------------------------------------------
(* The inductive invariant: what the rows yielded so far say about the name. *)

Absent(n) == \A r \in 1..n : agents[r] # wanted.name

LookupInv ==
  /\ agents \in [1..Rows -> AgentNames]
  /\ Resolving => (verdict = "none" <=> pc # "over")
  /\ verdict = "none" /\ wanted.for = "agent" => Absent(Len(yielded))
  /\ verdict = "found" /\ wanted.for = "agent" =>
       found \in 1..Rows /\ agents[found] = wanted.name /\ Absent(found - 1)
  /\ verdict = "missing" => wanted.for = "agent" /\ Absent(Rows)
  /\ told \in Seq(AgentNames)
  /\ wanted.for = "agent" /\ ~truncated =>
       /\ Len(told) <= Len(yielded)
       /\ \A i \in 1..Len(told) : told[i] = agents[i]
       /\ verdict = "none" => Len(told) = Len(yielded)
       /\ verdict = "missing" => Len(told) = Rows
  /\ seenRunes \in Nat
  /\ Len(told) <= maxNamesInError /\ seenRunes <= maxNamesRunes

LEMMA LookupInvInit == LookupInit => LookupInv
<1> SUFFICES ASSUME LookupInit
             PROVE  LookupInv
  OBVIOUS
<1>1. /\ agents \in Agents /\ verdict = "none" /\ pc = "asking" /\ yielded = <<>>
      /\ told = <<>> /\ seenRunes = 0
  BY DEF LookupInit, Init
<1>2. Len(yielded) = 0 /\ Len(told) = 0 /\ told \in Seq(AgentNames) /\ Absent(0)
  BY <1>1 DEF Absent
<1> QED
  BY <1>1, <1>2, LookupAssumption DEF LookupInv

\* A step that neither yields a row nor gives a verdict but a failure.
LEMMA QuietKeepsLookup ==
  ASSUME LookupInv, TypeOK, TypeOK', UNCHANGED <<yielded, asking, found, naming>>,
         verdict = "none", verdict' \in {"none", "failed", "invalid"},
         Resolving => (verdict' = "none" <=> pc' # "over")
  PROVE  LookupInv'
BY DEF LookupInv, asking, naming, Absent, TypeOK, Resolving

LEMMA LookKeepsLookup ==
  ASSUME LookupInv, TypeOK, RowBook, TypeOK', RowBook', LookAtAgent
  PROVE  LookupInv'
<1> USE ListingAssumption, LookupAssumption
<1> DEFINE row == page.data[next + 1]
<1>1. /\ pc = "yielding" /\ wanted.for = "agent" /\ next + 1 \in 1..Len(page.data)
      /\ yielded' = Append(yielded, row) /\ UNCHANGED <<page, agents, wanted>>
  <2>1. /\ pc = "yielding" /\ wanted.for = "agent" /\ next < Len(page.data)
        /\ yielded' = Append(yielded, row) /\ UNCHANGED <<page, agents, wanted>>
    BY DEF LookAtAgent, YieldRow, Resolving, asking
  <2>2. next \in 0..Len(page.data) /\ page.data \in Seq(1..Rows)
    BY DEF TypeOK, Pages
  <2> QED
    BY <2>1, <2>2
<1>2. row \in 1..Rows /\ yielded \in Seq(1..Rows)
  BY <1>1 DEF TypeOK, Pages
<1>3. row = Len(yielded) + 1
  BY <1>1 DEF RowBook, TypeOK, Cursors
<1>4. Len(yielded') = row /\ Len(yielded) \in Nat
  BY <1>1, <1>2, <1>3
<1> HIDE DEF row
<1>5. agents[row] \in AgentNames /\ NameLength[agents[row]] \in Nat
  BY <1>2 DEF LookupInv
<1>6. Resolving /\ verdict = "none" /\ (Resolving <=> Resolving')
  BY <1>1 DEF LookAtAgent, LookupInv, Resolving
<1>7. Absent(row - 1) /\ Len(told) <= maxNamesInError
  BY <1>1, <1>3, <1>6, <1>4 DEF LookupInv
<1>8. CASE /\ agents[row] = wanted.name /\ pc' = "over"
           /\ verdict' = "found" /\ found' = row /\ UNCHANGED naming
  <2>1. \A r \in 1..(found' - 1) : agents'[r] # wanted'.name
    BY <1>1, <1>8, <1>7 DEF Absent
  <2>2. Len(told) <= Len(yielded) /\ Len(told) \in Nat => Len(told) <= Len(yielded')
    BY <1>3, <1>4
  <2> QED
    BY <1>1, <1>2, <1>4, <1>8, <1>6, <2>1, <2>2 DEF LookupInv, naming, Absent
<1>9. CASE agents[row] # wanted.name /\ pc' = "yielding" /\ Note(agents[row])
           /\ UNCHANGED <<verdict, found>>
  <2>1. \A r \in 1..row : agents'[r] # wanted'.name
    <3>1. \A r \in 1..row : r \in 1..(row - 1) \/ r = row
      BY <1>2
    <3> QED
      BY <1>1, <1>9, <1>7, <3>1 DEF Absent
  <2>2. CASE UNCHANGED <<told, seenRunes>> /\ truncated' = TRUE
    BY <1>1, <1>4, <1>9, <1>6, <2>1, <2>2 DEF LookupInv, Absent
  <2>3. CASE /\ told' = Append(told, agents[row]) /\ truncated' = truncated
             /\ seenRunes' = seenRunes + NameLength[agents[row]]
             /\ Len(told) < maxNamesInError /\ seenRunes' <= maxNamesRunes
    <3>1. told \in Seq(AgentNames) /\ seenRunes \in Nat
      BY DEF LookupInv
    <3>2. /\ told' \in Seq(AgentNames) /\ Len(told') = Len(told) + 1 /\ Len(told) \in Nat
          /\ seenRunes' \in Nat /\ Len(told') <= maxNamesInError
      <4>1. told' \in Seq(AgentNames) /\ Len(told') = Len(told) + 1 /\ Len(told) \in Nat
        BY <1>5, <2>3, <3>1
      <4>2. seenRunes' \in Nat
        BY <1>5, <2>3, <3>1
      <4>3. maxNamesInError \in Nat
        BY LookupAssumption
      <4> QED
        BY <2>3, <4>1, <4>2, <4>3
    <3>3. ~truncated => /\ Len(told) = Len(yielded) /\ Len(told') = row
                        /\ \A i \in 1..Len(told) : told[i] = agents[i]
      BY <1>1, <1>3, <1>4, <1>6, <3>2 DEF LookupInv
    <3>4. ~truncated => \A i \in 1..Len(told') : told'[i] = agents[i]
      BY <2>3, <3>1, <3>2, <3>3
    <3> QED
      BY <1>1, <1>4, <1>9, <1>6, <2>1, <2>3, <3>2, <3>3, <3>4, SMTT(30) DEF LookupInv, Absent
  <2> QED
    BY <1>9, <2>2, <2>3 DEF Note
<1> QED
  BY <1>8, <1>9 DEF LookAtAgent, row

LEMMA WalkKeepsLookup ==
  ASSUME LookupInv, TypeOK, RowBook, TypeOK', RowBook', WalkOn
  PROVE  LookupInv'
<1>1. /\ Resolving /\ UNCHANGED <<yielded, asking, found, naming>> /\ pc # "over" /\ verdict = "none"
  BY DEF WalkOn, RefuseUnbounded, Fetch, PageYielded, Complete, RefuseBroken, Follow, LookupInv
<1>2. pc' = "over" <=> outcome' # "none"
  BY DEF WalkOn, RefuseUnbounded, Fetch, PageYielded, Complete, RefuseBroken, Follow, Stop, RowBook
<1>3. CASE outcome' = "complete"
  <2>1. verdict' = "missing" /\ pc' = "over"
    BY <1>2, <1>3 DEF WalkOn
  <2>2. Len(yielded) = Rows
    BY <1>1, <1>3 DEF RowBook
  <2> QED
    BY <1>1, <2>1, <2>2 DEF LookupInv, asking, naming, Absent, Resolving
<1>4. CASE outcome' # "complete"
  <2>1. verdict' \in {"none", "failed"} /\ (verdict' = "none" <=> outcome' = "none")
    BY <1>4 DEF WalkOn
  <2> QED
    BY <1>1, <1>2, <2>1, QuietKeepsLookup
<1> QED
  BY <1>3, <1>4

LEMMA StepKeepsLookup ==
  ASSUME LookupInv, TypeOK, RowBook, TypeOK', RowBook', [LookupNext]_lvars
  PROVE  LookupInv'
<1>1. CASE RefuseName
  BY <1>1, QuietKeepsLookup DEF RefuseName, Resolving, vars, asking
<1>2. CASE ResolveRunner
  BY <1>2 DEF ResolveRunner, LookupInv, Resolving, vars, asking, naming, Absent
<1>3. CASE UNCHANGED lvars
  BY <1>3 DEF lvars, vars, LookupInv, Resolving, asking, naming, Absent
<1> QED
  BY <1>1, <1>2, <1>3, LookKeepsLookup, WalkKeepsLookup DEF LookupNext

\* A name resolves to the first agent that has it, and to a miss only when none has it.
THEOREM NameResolvesHolds == LookupSpec => []NameResolves
<1>1. LookupInv => NameResolves
  <2> SUFFICES ASSUME LookupInv
               PROVE  NameResolves
    OBVIOUS
  <2>1. verdict = "missing" => wanted.name \notin Range(agents)
    BY DEF LookupInv, Absent, Range
  <2>2. verdict = "missing" /\ ~truncated => told = agents
    <3> SUFFICES ASSUME verdict = "missing", ~truncated
                 PROVE  told = agents
      OBVIOUS
    <3>1. told \in Seq(AgentNames) /\ Len(told) = Rows /\ agents \in [1..Rows -> AgentNames]
          /\ \A i \in 1..Len(told) : told[i] = agents[i]
      BY DEF LookupInv
    <3> QED
      BY <3>1
  <2> QED
    BY <2>1, <2>2 DEF LookupInv, NameResolves, Absent
<1>2. LookupSpec => [](TypeOK /\ AskBook /\ RowBook)
  BY LookupIsWalk, BooksHold, PTL
<1> QED
  BY <1>1, <1>2, LookupInvInit, StepKeepsLookup, PTL DEF LookupSpec

-----------------------------------------------------------------------------
(* The runner picked from an answer. *)

Ids  == STRING \union {""}
Accs == [chosen : Ids, silent : Ids]

\* A runner that may be returned, of those up to the k-th.
Says(t, k, id)    == \E i \in 1..k : Serves(t[i]) /\ t[i].id = id /\ t[i].reported /\ Matches(t[i])
Quiet(t, k, id)   == \E i \in 1..k : Serves(t[i]) /\ t[i].id = id /\ ~t[i].reported

\* What is known after a look at k runners.
Looked(t, k, acc) ==
  /\ acc \in Accs
  /\ IF acc.chosen # "" THEN Says(t, k, acc.chosen)
     ELSE /\ \A i \in 1..k : ~(Serves(t[i]) /\ t[i].reported /\ Matches(t[i]))
          /\ IF acc.silent # "" THEN Quiet(t, k, acc.silent)
             ELSE \A i \in 1..k : ~(Serves(t[i]) /\ ~t[i].reported)

LEMMA LookType ==
  ASSUME NEW acc \in Accs, NEW r \in RunnerInfo
  PROVE  Look(acc, r) \in Accs
BY DEF Look, Accs, Ids, RunnerInfo

\* One runner more.
LEMMA LookNext ==
  ASSUME NEW t \in Seq(RunnerInfo), NEW k \in 0..(Len(t) - 1), NEW acc, Looked(t, k, acc),
         NEW r, r = t[k + 1], NEW a, a = Look(acc, r)
  PROVE  Looked(t, k + 1, a)
<1>1. /\ acc \in Accs /\ k \in Nat /\ k + 1 \in 1..(k + 1) /\ \A i \in 1..k : i \in 1..(k + 1)
      /\ \A i \in 1..(k + 1) : i \in 1..k \/ i = k + 1
  <2>1. k \in Nat
    OBVIOUS
  <2>2. acc \in Accs
    BY DEF Looked
  <2>3. /\ k + 1 \in 1..(k + 1) /\ \A i \in 1..k : i \in 1..(k + 1)
        /\ \A i \in 1..(k + 1) : i \in 1..k \/ i = k + 1
    BY <2>1
  <2> QED
    BY <2>1, <2>2, <2>3
<1>2. r \in RunnerInfo
  OBVIOUS
<1>3. a \in Accs
  BY <1>1, <1>2, LookType
<1>4. CASE acc.chosen # "" \/ ~r.online \/ r.id = ""
  <2>1. a = acc
    BY <1>4 DEF Look
  <2>2. acc.chosen # "" => Looked(t, k + 1, acc)
    BY <1>1 DEF Looked, Says
  <2>3. acc.chosen = "" => Looked(t, k + 1, acc)
    <3>1. acc.chosen = "" => ~Serves(t[k + 1])
      BY <1>4 DEF Serves
    <3> QED
      BY <1>1, <3>1, Zenon DEF Looked, Quiet
  <2> QED
    BY <2>1, <2>2, <2>3
<1>5. CASE acc.chosen = "" /\ r.online /\ r.id # "" /\ ~r.reported
  <2>1. a = IF acc.silent = "" THEN [acc EXCEPT !.silent = r.id] ELSE acc
    BY <1>5 DEF Look
  <2>2. a.chosen = "" /\ a.silent = IF acc.silent = "" THEN r.id ELSE acc.silent
    BY <1>1, <1>2, <1>5, <2>1 DEF Accs, RunnerInfo
  <2>3. Serves(t[k + 1]) /\ ~t[k + 1].reported /\ t[k + 1].id = r.id
    BY <1>5 DEF Serves
  <2>4. \A i \in 1..(k + 1) : ~(Serves(t[i]) /\ t[i].reported /\ Matches(t[i]))
    BY <1>1, <1>5, <2>3 DEF Looked
  <2>5. a.silent # ""
    BY <1>5, <2>2
  <2>6. Quiet(t, k + 1, a.silent)
    <3>1. CASE acc.silent = ""
      BY <1>1, <2>2, <2>3, <3>1 DEF Quiet
    <3>2. CASE acc.silent # ""
      <4>1. Quiet(t, k, acc.silent)
        BY <1>5, <3>2 DEF Looked
      <4> QED
        BY <1>1, <2>2, <3>2, <4>1 DEF Quiet
    <3> QED
      BY <3>1, <3>2
  <2> QED
    BY <1>3, <2>2, <2>4, <2>5, <2>6 DEF Looked
<1>6. CASE acc.chosen = "" /\ r.online /\ r.id # "" /\ r.reported
  <2>1. a = IF Matches(r) THEN [acc EXCEPT !.chosen = r.id] ELSE acc
    BY <1>6 DEF Look
  <2>2. Serves(t[k + 1]) /\ t[k + 1].reported /\ t[k + 1].id = r.id
    BY <1>6 DEF Serves
  <2>3. CASE Matches(r)
    <3>1. a.chosen = r.id
      BY <1>1, <2>1, <2>3 DEF Accs
    <3>2. Says(t, k + 1, a.chosen)
      BY <1>1, <2>2, <2>3, <3>1 DEF Says
    <3> QED
      BY <1>3, <1>6, <3>1, <3>2 DEF Looked
  <2>4. CASE ~Matches(r)
    <3>1. a = acc /\ ~Matches(t[k + 1])
      BY <2>1, <2>4
    <3>2. \A i \in 1..(k + 1) : ~(Serves(t[i]) /\ t[i].reported /\ Matches(t[i]))
      BY <1>1, <1>6, <3>1 DEF Looked
    <3>3. IF acc.silent # "" THEN Quiet(t, k + 1, acc.silent)
          ELSE \A i \in 1..(k + 1) : ~(Serves(t[i]) /\ ~t[i].reported)
      BY <1>1, <1>6, <2>2 DEF Looked, Quiet
    <3> QED
      BY <1>1, <1>6, <3>1, <3>2, <3>3 DEF Looked
  <2> QED
    BY <2>3, <2>4
<1> QED
  BY <1>4, <1>5, <1>6

\* The loop over an answer.
LEMMA LookAll ==
  ASSUME NEW t \in Seq(RunnerInfo)
  PROVE  Looked(t, Len(t), FoldLeft(Look, [chosen |-> "", silent |-> ""], t))
<1> DEFINE n    == Len(t)
           base == [chosen |-> "", silent |-> ""]
           step == [p \in Accs \X (1..n) |-> Look(p[1], t[p[2]])]
           Eq(g) == g = [S \in SUBSET DOMAIN t |->
                           IF S = {} THEN base ELSE Look(g[S \ {Max(S)}], t[Max(S)])]
           f    == CHOOSE g : Eq(g)
           T    == {k \in 0..n : Looked(t, k, f[1..k])}
<1>1. n \in Nat /\ DOMAIN t = 1..n /\ \A i \in 1..n : t[i] \in RunnerInfo
  OBVIOUS
<1>2. base \in Accs /\ base.chosen = "" /\ base.silent = ""
  BY DEF Accs, Ids
<1>3. FoldLeft(Look, base, t) = f[DOMAIN t]
  BY DEF FoldLeft, MapThenFoldSet
<1> HIDE DEF base
<1>4. step \in [Accs \X (1..n) -> Accs]
  BY <1>1, LookType
<1>5. PICK g : IsFoldMap(g, n, Accs, base, step)
  <2> HIDE DEF step, n
  <2> QED
    BY <1>1, <1>2, <1>4, FoldMap
<1>6. Eq(g)
  <2>1. g \in [SUBSET (1..n) -> Accs]
    BY <1>5 DEF IsFoldMap
  <2>2. ASSUME NEW S \in SUBSET (1..n)
        PROVE  g[S] = IF S = {} THEN base ELSE Look(g[S \ {Max(S)}], t[Max(S)])
    <3>1. g[S] = IF S = {} THEN base ELSE step[<<g[S \ {Max(S)}], Max(S)>>]
      BY <1>5 DEF IsFoldMap
    <3>2. CASE S = {}
      BY <3>1, <3>2
    <3>3. CASE S # {}
      <4>1. S \in SUBSET (0..n)
        BY <1>1
      <4>2. Max(S) \in S
        BY <1>1, <3>3, <4>1, LastExists
      <4>3. Max(S) \in 1..n /\ g[S \ {Max(S)}] \in Accs
        BY <2>1, <4>2
      <4> DEFINE i == Max(S)
                 m == g[S \ {Max(S)}]
      <4>4. step[<<m, i>>] = Look(m, t[i])
        <5> HIDE DEF i, m
        <5>1. i \in 1..n /\ m \in Accs
          BY <4>3 DEF i, m
        <5> QED
          BY <5>1
      <4> QED
        BY <3>1, <3>3, <4>4
    <3> QED
      BY <3>2, <3>3
  <2> HIDE DEF n
  <2> QED
    BY <1>1, <2>1, <2>2
<1>7. Eq(f)
  BY <1>6, Zenon
<1> HIDE DEF f, n, step
<1>8. 0 \in T
  <2>1. f[{}] = base /\ 1..0 = {} /\ 0 \in 0..n
    BY <1>1, <1>7
  <2>2. Looked(t, 0, base)
    <3>1. \A i \in 1..0 : FALSE
      OBVIOUS
    <3> QED
      BY <1>2, <3>1 DEF Looked
  <2>3. Looked(t, 0, f[1..0])
    BY <2>1, <2>2, Zenon
  <2> QED
    BY <2>1, <2>3
<1>9. ASSUME NEW k \in 0..(n - 1), k \in T PROVE k + 1 \in T
  <2> DEFINE S == 1..(k + 1)
  <2>1. k \in Nat /\ k + 1 \in 1..n /\ k + 1 \in 0..n
    BY <1>1
  <2>2. S \in SUBSET (1..n) /\ S # {} /\ S \in SUBSET (0..n)
    <3>1. \A i \in 1..(k + 1) : i \in 1..n /\ i \in 0..n
      BY <1>1
    <3>2. k + 1 \in 1..(k + 1)
      BY <2>1
    <3> QED
      BY <3>1, <3>2
  <2>3. Max(S) = k + 1
    <3>1. k + 1 \in S /\ \A y \in S : y <= k + 1
      BY <1>1
    <3> HIDE DEF S
    <3> QED
      BY <1>1, <2>2, <3>1, LastIs
  <2>4. S \ {k + 1} = 1..k
    BY <1>1
  <2>5. f[S] = Look(f[S \ {Max(S)}], t[Max(S)])
    <3> HIDE DEF S
    <3> QED
      BY <1>1, <1>7, <2>2
  <2>6. f[S] = Look(f[1..k], t[k + 1])
    BY <2>3, <2>4, <2>5
  <2>7. Looked(t, k, f[1..k]) /\ k \in 0..(Len(t) - 1)
    BY <1>9 DEF n
  <2>8. Looked(t, k + 1, f[1..(k + 1)])
    BY <2>6, <2>7, LookNext
  <2> QED
    BY <2>1, <2>8
<1>10. 0..n \subseteq T
  <2> HIDE DEF T
  <2> QED
    BY <1>1, <1>8, <1>9, PrefixInduction
<1>11. n \in 0..n
  BY <1>1
<1>12. Looked(t, n, f[1..n])
  BY <1>10, <1>11
<1> QED
  BY <1>1, <1>3, <1>12 DEF n, base

\* The code compares four spellings; with canonical names canonical, two would do.
LEMMA MatchesRuns ==
  ASSUME wanted \in Questions, wanted.for = "runner", NEW r \in RunnerInfo
  PROVE  Matches(r) /\ r.reported <=> Runs(r)
<1> DEFINE c == wanted.canonicalize
           w == wanted.harness
<1>1. w \in Harnesses \union {""} /\ c \in Aliases
  BY DEF Questions
<1>2. c \in [Harnesses -> Harnesses] /\ \A h \in Harnesses : c[c[h]] = c[h]
  BY <1>1, LookupAssumption
<1>3. r.harnesses \subseteq Harnesses
  BY DEF RunnerInfo
<1> HIDE DEF c, w
<1>4. CASE w = ""
  BY <1>4 DEF Matches, Wanted, Runs, w
<1>5. CASE w # ""
  <2>1. Wanted = {w, c[w]} /\ w \in Harnesses /\ c[w] \in Harnesses
    BY <1>1, <1>2, <1>5 DEF Wanted, Canonical, w, c
  <2>2. ASSUME NEW h \in r.harnesses PROVE h \in Wanted \/ c[h] \in Wanted <=> c[h] = c[w]
    BY <1>2, <1>3, <2>1
  <2>3. Matches(r) <=> \E h \in r.harnesses : h \in Wanted \/ c[h] \in Wanted
    BY <2>1 DEF Matches, Canonical, c
  <2>4. Runs(r) <=> r.reported /\ \E h \in r.harnesses : c[h] = c[w]
    BY <1>5 DEF Runs, Canonical, c, w
  <2> QED
    BY <2>2, <2>3, <2>4
<1> QED
  BY <1>4, <1>5

\* RunnerServes of a pick.
Served(t, id) ==
  LET usable == {r \in Range(t) : Serves(r)} IN
  IF \E r \in usable : Runs(r) THEN \E r \in usable : r.id = id /\ Runs(r)
  ELSE IF \E r \in usable : ~r.reported THEN \E r \in usable : r.id = id /\ ~r.reported
  ELSE id = ""

LEMMA BestServes ==
  ASSUME NEW t \in Seq(RunnerInfo), wanted \in Questions, wanted.for = "runner"
  PROVE  Served(t, Best(t))
<1> DEFINE n      == Len(t)
           acc    == FoldLeft(Look, [chosen |-> "", silent |-> ""], t)
           usable == {r \in Range(t) : Serves(r)}
<1>1. Looked(t, n, acc) /\ Best(t) = IF acc.chosen # "" THEN acc.chosen ELSE acc.silent
  BY LookAll DEF Best
<1> HIDE DEF acc
<1>2. /\ \A i \in 1..n : t[i] \in RunnerInfo /\ t[i] \in Range(t)
      /\ \A r \in Range(t) : \E i \in 1..n : t[i] = r
  BY DEF Range
<1> HIDE DEF n
<1>3. \A i \in 1..n : Matches(t[i]) /\ t[i].reported <=> Runs(t[i])
  BY <1>2, MatchesRuns
<1>4. CASE acc.chosen # ""
  <2>1. PICK i \in 1..n : Serves(t[i]) /\ t[i].id = acc.chosen /\ t[i].reported /\ Matches(t[i])
    BY <1>1, <1>4 DEF Looked, Says
  <2>2. t[i] \in usable /\ t[i].id = Best(t) /\ Runs(t[i])
    BY <1>1, <1>2, <1>3, <1>4, <2>1
  <2> QED
    BY <2>2 DEF Served
<1>5. CASE acc.chosen = ""
  <2>1. ~\E r \in usable : Runs(r)
    BY <1>1, <1>2, <1>3, <1>5 DEF Looked
  <2>2. CASE acc.silent # ""
    <3>1. PICK i \in 1..n : Serves(t[i]) /\ t[i].id = acc.silent /\ ~t[i].reported
      BY <1>1, <1>5, <2>2 DEF Looked, Quiet
    <3>2. t[i] \in usable /\ t[i].id = Best(t) /\ ~t[i].reported
      BY <1>1, <1>2, <1>5, <3>1
    <3> QED
      BY <2>1, <3>2 DEF Served
  <2>3. CASE acc.silent = ""
    <3>1. ~\E r \in usable : ~r.reported
      BY <1>1, <1>2, <1>5, <2>3 DEF Looked
    <3> QED
      BY <1>1, <1>5, <2>1, <2>3, <3>1 DEF Served
  <2> QED
    BY <2>2, <2>3
<1> QED
  BY <1>4, <1>5

RunnerInv == wanted \in Questions /\ RunnerServes

\* The runner found is online, and is one that says it runs the harness whenever there is
\* such a runner, else one that says nothing, for every answer and every way of naming
\* harnesses (ResolveOnlineRunner).
THEOREM RunnerServesHolds == LookupSpec => []RunnerServes
<1>1. LookupInit => RunnerInv
  BY DEF LookupInit, RunnerInv, RunnerServes
<1>2. RunnerInv /\ [LookupNext]_lvars => RunnerInv'
  <2> SUFFICES ASSUME RunnerInv, [LookupNext]_lvars PROVE RunnerInv'
    OBVIOUS
  <2>1. wanted' = wanted /\ wanted \in Questions
    BY DEF RunnerInv, LookupNext, RefuseName, LookAtAgent, WalkOn, ResolveRunner, lvars, asking
  <2>2. CASE UNCHANGED <<runners, found, verdict>>
    BY <2>1, <2>2 DEF RunnerInv, RunnerServes, Serves, Runs, Canonical
  <2>3. CASE ~(verdict' = "found" /\ wanted.for = "runner")
    BY <2>1, <2>3 DEF RunnerInv, RunnerServes
  <2>4. CASE /\ wanted.for = "runner" /\ runners' \in Runners
             /\ found' = Best(runners') /\ verdict' = "found"
    <3>1. Served(runners', Best(runners'))
      <4>1. runners' \in Seq(RunnerInfo)
        BY <2>4, LookupAssumption
      <4> QED
        BY <2>1, <2>4, <4>1, BestServes
    <3>2. RunnerServes'
      BY <2>1, <2>4, <3>1 DEF Served, RunnerServes, Serves, Runs, Canonical
    <3> QED
      BY <2>1, <3>2 DEF RunnerInv
  <2>5. CASE ResolveRunner
    BY <2>3, <2>4, <2>5 DEF ResolveRunner
  <2>6. CASE UNCHANGED lvars
    BY <2>2, <2>6 DEF lvars
  <2> QED
    BY <2>3, <2>5, <2>6 DEF LookupNext, RefuseName, LookAtAgent, WalkOn, Resolving
<1> QED
  BY <1>1, <1>2, PTL DEF LookupSpec, RunnerInv
=============================================================================
