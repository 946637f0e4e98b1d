------------------------- MODULE ChildrenTree_proofs -------------------------
(***************************************************************************)
(* Proofs about ChildrenTree, for every tree, every cap, ceiling and       *)
(* number of tokens.                                                       *)
(***************************************************************************)
EXTENDS ChildrenTree, SequenceFacts, FiniteSetTheorems

-----------------------------------------------------------------------------
(* The world of a walk. *)

LEMMA WorldFacts ==
  ASSUME ShapeBook
  PROVE  /\ RootID \in SessionIDs
         /\ Kids \in [SessionIDs -> Seq(SessionIDs)]
         /\ \A s \in SessionIDs : \A i, j \in 1..Len(Kids[s]) : Kids[s][i] = Kids[s][j] => i = j
         /\ MaxNodes \in Nat \ {0} /\ Concurrency \in Nat \ {0}
BY TreeAssumption DEF ShapeBook, RootID, Kids, MaxNodes, Concurrency

LEMMA NodeFacts ==
  ASSUME ShapeBook, NEW n \in DOMAIN walks
  PROVE  /\ n \in Seq(SessionIDs) /\ n # <<>> /\ ID(n) \in SessionIDs
         /\ Below(n) \in Seq(SessionIDs)
         /\ walks[n].at \in {"waiting", "fetching", "placing", "done"}
         /\ walks[n].listed \in Nat /\ walks[n].placed \in Nat
<1>1. n \in Seq(SessionIDs) /\ n # <<>>
  BY DEF ShapeBook, Nodes
<1>2. ID(n) \in SessionIDs
  BY <1>1 DEF ID
<1>3. walks[n] \in Walk
  BY DEF ShapeBook
<1> QED
  BY <1>1, <1>2, <1>3, WorldFacts DEF Below, Walk

-----------------------------------------------------------------------------
(* A goroutine's step within its own node. *)

\* The walk moves at one node, which may place more children that it makes no walk for.
LEMMA MoveShape ==
  ASSUME ShapeBook, NEW n \in DOMAIN walks,
         walks' \in [DOMAIN walks -> Walk],
         \A m \in DOMAIN walks \ {n} : walks'[m] = walks[m],
         walks'[n].placed \in walks[n].placed..Len(Below(n)),
         UNCHANGED world
  PROVE  ShapeBook'
<1>1. DOMAIN walks' = DOMAIN walks
  OBVIOUS
<1>2. \A m \in DOMAIN walks : Below(m)' = Below(m)
  BY DEF Below, Kids, ID
<1>3. Root' = Root
  BY DEF Root, RootID
<1>4. ASSUME NEW m \in DOMAIN walks
      PROVE  walks[m].placed <= walks'[m].placed /\ walks'[m].placed <= Len(Below(m))
             /\ walks[m].placed \in Nat /\ walks'[m].placed \in Nat
  <2>1. Len(Below(m)) \in Nat /\ walks[m].placed \in Nat
    BY NodeFacts
  <2>2. CASE m = n
    <3>1. walks'[m].placed \in walks[m].placed..Len(Below(m))
      BY <2>2
    <3> QED
      BY <2>1, <3>1
  <2>3. CASE m # n
    <3>1. walks'[m] = walks[m]
      BY <2>3
    <3>2. walks[m].placed <= Len(Below(m))
      BY DEF ShapeBook
    <3> QED
      BY <2>1, <3>1, <3>2
  <2> QED
    BY <2>2, <2>3
<1>5. ASSUME NEW m \in DOMAIN walks' \ {Root'}
      PROVE  \E p \in DOMAIN walks' : \E i \in 1..walks'[p].placed : m = Append(p, Below(p)'[i])
  <2>1. PICK p \in DOMAIN walks : \E i \in 1..walks[p].placed : m = Append(p, Below(p)[i])
    BY <1>1, <1>3, <1>5 DEF ShapeBook
  <2>2. 1..walks[p].placed \subseteq 1..walks'[p].placed
    BY <1>4
  <2> QED
    BY <1>1, <1>2, <2>1, <2>2
<1>6. world' \in Worlds /\ DOMAIN walks' \subseteq Nodes
  BY <1>1 DEF ShapeBook
<1>7. \A m \in DOMAIN walks' : walks'[m].placed <= Len(Below(m)')
  BY <1>1, <1>2, <1>4
<1> QED
  BY <1>1, <1>5, <1>6, <1>7 DEF ShapeBook

\* What a set counts when one element may enter or leave it.
LEMMA CountMoves ==
  ASSUME NEW D, IsFiniteSet(D), NEW S, NEW T, S \subseteq D, NEW n \in D,
         T \subseteq D, \A m \in D \ {n} : m \in T <=> m \in S
  PROVE  /\ Cardinality(S) \in Nat /\ Cardinality(T) \in Nat
         /\ n \in S /\ n \in T => Cardinality(T) = Cardinality(S)
         /\ n \notin S /\ n \notin T => Cardinality(T) = Cardinality(S)
         /\ n \in S /\ n \notin T => Cardinality(T) = Cardinality(S) - 1
         /\ n \notin S /\ n \in T => Cardinality(T) = Cardinality(S) + 1
<1>1. IsFiniteSet(S) /\ IsFiniteSet(T)
  BY FS_Subset
<1>2. Cardinality(S) \in Nat /\ Cardinality(T) \in Nat
  BY <1>1, FS_CardinalityType
<1>3. (n \in S <=> n \in T) => T = S
  OBVIOUS
<1>4. n \in S /\ n \notin T => T = S \ {n}
  OBVIOUS
<1>5. n \notin S /\ n \in T => T = S \union {n}
  OBVIOUS
<1>6. n \in S => Cardinality(S \ {n}) = Cardinality(S) - 1
  BY <1>1, FS_RemoveElement
<1>7. n \notin S => Cardinality(S \union {n}) = Cardinality(S) + 1
  BY <1>1, FS_AddElement
<1> QED
  BY <1>2, <1>3, <1>4, <1>5, <1>6, <1>7

LEMMA MoveCount ==
  ASSUME ShapeBook, CountBook, NEW n \in DOMAIN walks, walks[n].at # "done",
         walks' \in [DOMAIN walks -> Walk],
         \A m \in DOMAIN walks \ {n} : walks'[m] = walks[m],
         UNCHANGED <<world, visited, returned>>,
         tokens' = IF walks[n].at = "fetching"
                   THEN IF walks'[n].at = "fetching" THEN tokens ELSE tokens - 1
                   ELSE IF walks'[n].at = "fetching" THEN tokens + 1 ELSE tokens,
         walks'[n].at = "fetching" /\ walks[n].at # "fetching" => tokens < Concurrency,
         group' = IF walks'[n].at = "done" THEN group - 1 ELSE group
  PROVE  CountBook'
<1>1. DOMAIN walks' = DOMAIN walks /\ IsFiniteSet(DOMAIN walks)
  BY DEF CountBook
<1>2. Fetching \subseteq DOMAIN walks /\ Running \subseteq DOMAIN walks
  BY DEF Fetching, Running
<1>3. Fetching' \subseteq DOMAIN walks /\ Running' \subseteq DOMAIN walks
  BY <1>1 DEF Fetching, Running
<1>4. \A m \in DOMAIN walks \ {n} : (m \in Fetching' <=> m \in Fetching)
                                    /\ (m \in Running' <=> m \in Running)
  BY <1>1 DEF Fetching, Running
<1>5. /\ n \in Fetching <=> walks[n].at = "fetching"
      /\ n \in Fetching' <=> walks'[n].at = "fetching"
      /\ n \in Running
      /\ n \in Running' <=> walks'[n].at # "done"
  BY <1>1 DEF Fetching, Running
<1>6. /\ tokens = Cardinality(Fetching) /\ group = Cardinality(Running)
      /\ tokens <= Concurrency /\ Concurrency \in Nat
  BY WorldFacts DEF CountBook
<1>7. /\ tokens \in Nat /\ tokens' = Cardinality(Fetching')
  BY <1>1, <1>2, <1>3, <1>4, <1>5, <1>6, CountMoves
<1>8. group' = Cardinality(Running')
  BY <1>1, <1>2, <1>3, <1>4, <1>5, <1>6, CountMoves
<1>9. tokens' <= Concurrency
  BY <1>6, <1>7
<1>10. ~returned
  BY <1>5 DEF CountBook
<1>11. Concurrency' = Concurrency /\ MaxNodes' = MaxNodes
  BY DEF Concurrency, MaxNodes
<1> QED
  BY <1>1, <1>7, <1>8, <1>9, <1>10, <1>11 DEF CountBook

-----------------------------------------------------------------------------
(* A child that is descended into. *)

\* A path is walked once: its parent places each child once.
LEMMA ChildIsNew ==
  ASSUME ShapeBook, NEW n \in DOMAIN walks, walks[n].placed < Len(Below(n))
  PROVE  LET id == Below(n)[walks[n].placed + 1]
         IN  /\ id \in SessionIDs
             /\ Append(n, id) \in Nodes
             /\ Append(n, id) \notin DOMAIN walks
<1> DEFINE next == walks[n].placed + 1
           id == Below(n)[next]
           child == Append(n, id)
<1>1. walks[n].placed \in Nat /\ Below(n) \in Seq(SessionIDs) /\ n \in Seq(SessionIDs) /\ n # <<>>
      /\ ID(n) \in SessionIDs
  BY NodeFacts
<1>2. next \in 1..Len(Below(n))
  BY <1>1
<1>3. id \in SessionIDs
  BY <1>1, <1>2
<1>4. child \in Nodes
  BY <1>1, <1>3 DEF Nodes
<1>5. child # Root
  <2>1. Len(child) = Len(n) + 1 /\ Len(n) \in Nat /\ Len(n) # 0
    BY <1>1, <1>3
  <2>2. Len(Root) = 1
    BY DEF Root
  <2> QED
    BY <2>1, <2>2
<1>6. ASSUME child \in DOMAIN walks
      PROVE  FALSE
  <2>1. PICK p \in DOMAIN walks : \E i \in 1..walks[p].placed : child = Append(p, Below(p)[i])
    BY <1>5, <1>6 DEF ShapeBook
  <2>2. PICK i \in 1..walks[p].placed : child = Append(p, Below(p)[i])
    BY <2>1
  <2>3. /\ walks[p].placed \in Nat /\ Below(p) \in Seq(SessionIDs) /\ p \in Seq(SessionIDs)
        /\ walks[p].placed <= Len(Below(p))
    BY NodeFacts DEF ShapeBook
  <2>4. i \in 1..Len(Below(p))
    BY <2>3
  <2>5. Below(p)[i] \in SessionIDs
    BY <2>3, <2>4
  <2>6. p = n /\ Below(p)[i] = id
    BY <1>1, <1>3, <2>2, <2>3, <2>5, AppendInjective
  <2>7. i \in 1..Len(Below(n)) /\ Below(n)[i] = Below(n)[next] /\ i <= walks[n].placed
    BY <2>2, <2>3, <2>4, <2>6
  <2>8. i = next
    BY <1>1, <1>2, <2>7, WorldFacts DEF Below
  <2> QED
    BY <1>1, <2>7, <2>8
<1> QED
  BY <1>3, <1>4, <1>6

LEMMA SpawnBook ==
  ASSUME ShapeBook, CountBook,
         NEW n \in DOMAIN walks, walks[n].at = "placing", walks[n].placed < Len(Below(n)),
         NEW child, child = Append(n, Below(n)[walks[n].placed + 1]),
         ~Full, visited' = visited + 1, Spawn(n, child),
         UNCHANGED <<world, tokens, returned>>
  PROVE  ShapeBook' /\ CountBook'
<1>1. child \in Nodes /\ child \notin DOMAIN walks /\ n # child
  BY ChildIsNew
<1>2. /\ DOMAIN walks' = DOMAIN walks \union {child}
      /\ walks'[n] = [walks[n] EXCEPT !.placed = @ + 1]
      /\ walks'[child] = NewWalk
      /\ \A m \in DOMAIN walks \ {n} : walks'[m] = walks[m]
      /\ group' = group + 1
  BY <1>1 DEF Spawn
<1>3. /\ walks \in [DOMAIN walks -> Walk]
      /\ walks[n] \in Walk /\ walks[n].placed \in Nat
      /\ Len(Below(n)) \in Nat
  BY NodeFacts, SMTT(30) DEF ShapeBook
<1>4. /\ walks'[n] \in Walk /\ walks'[n].at = "placing"
      /\ walks'[n].placed = walks[n].placed + 1
  BY <1>2, <1>3 DEF Walk
<1>5. NewWalk \in Walk /\ NewWalk.at = "waiting" /\ NewWalk.placed = 0
  BY DEF NewWalk, Walk
<1>6. walks' \in [DOMAIN walks' -> Walk]
  <2>1. \A m \in DOMAIN walks' : walks'[m] \in Walk
    BY <1>2, <1>3, <1>4, <1>5
  <2> QED
    BY <2>1 DEF Spawn
<1>7. \A m : Below(m)' = Below(m)
  BY DEF Below, Kids, ID
<1>8. Root' = Root
  BY DEF Root, RootID
<1>9. DOMAIN walks' \subseteq Nodes /\ world' \in Worlds
  BY <1>1, <1>2 DEF ShapeBook
<1>10. ASSUME NEW m \in DOMAIN walks'
       PROVE  walks'[m].placed <= Len(Below(m))
  <2>1. CASE m = n
    BY <1>3, <1>4, <2>1
  <2>2. CASE m = child
    <3>1. Len(Below(m)) \in Nat
      <4>1. m \in Seq(SessionIDs) /\ m # <<>>
        BY <1>1, <2>2 DEF Nodes
      <4>2. ID(m) \in SessionIDs
        BY <4>1 DEF ID
      <4> QED
        BY <4>2, WorldFacts DEF Below
    <3> QED
      BY <1>2, <1>5, <2>2, <3>1
  <2>3. CASE m # n /\ m # child
    <3>1. m \in DOMAIN walks /\ walks'[m] = walks[m]
      BY <1>2, <2>3
    <3> QED
      BY <3>1 DEF ShapeBook
  <2> QED
    BY <2>1, <2>2, <2>3
<1>11. ASSUME NEW m \in DOMAIN walks' \ {Root}
       PROVE  \E p \in DOMAIN walks' : \E i \in 1..walks'[p].placed : m = Append(p, Below(p)[i])
  <2>1. CASE m = child
    <3>1. walks'[n].placed \in 1..walks'[n].placed
      BY <1>3, <1>4
    <3>2. m = Append(n, Below(n)[walks'[n].placed])
      BY <1>4, <2>1
    <3> QED
      BY <1>2, <3>1, <3>2
  <2>2. CASE m # child
    <3>1. PICK p \in DOMAIN walks : \E i \in 1..walks[p].placed : m = Append(p, Below(p)[i])
      BY <1>2, <1>11, <2>2 DEF ShapeBook
    <3>2. 1..walks[p].placed \subseteq 1..walks'[p].placed
      <4>1. CASE p = n
        BY <1>3, <1>4, <4>1
      <4>2. CASE p # n
        BY <1>2, <4>2
      <4> QED
        BY <4>1, <4>2
    <3> QED
      BY <1>2, <3>1, <3>2
  <2> QED
    BY <2>1, <2>2
<1>12. ShapeBook'
  <2>1. \A m \in DOMAIN walks' : walks'[m].placed <= Len(Below(m)')
    BY <1>7, <1>10
  <2>2. ASSUME NEW m \in DOMAIN walks' \ {Root'}
        PROVE  \E p \in DOMAIN walks' : \E i \in 1..walks'[p].placed : m = Append(p, Below(p)'[i])
    BY <1>7, <1>8, <1>11
  <2> QED
    BY <1>6, <1>9, <2>1, <2>2 DEF ShapeBook
<1>13. IsFiniteSet(DOMAIN walks') /\ visited' = Cardinality(DOMAIN walks')
  <2>1. IsFiniteSet(DOMAIN walks) /\ visited = Cardinality(DOMAIN walks)
    BY DEF CountBook
  <2>2. /\ IsFiniteSet(DOMAIN walks \union {child})
        /\ Cardinality(DOMAIN walks \union {child}) = Cardinality(DOMAIN walks) + 1
    BY <1>1, <2>1, FS_AddElement
  <2> QED
    BY <1>2, <2>1, <2>2
<1>14. MaxNodes' = MaxNodes /\ Concurrency' = Concurrency
  BY DEF MaxNodes, Concurrency
<1>15. visited' <= MaxNodes
  BY FS_CardinalityType, WorldFacts DEF CountBook, Full
<1>16. Fetching' = Fetching
  <2>1. \A m \in DOMAIN walks' : walks'[m].at = "fetching" <=> m \in Fetching
    BY <1>1, <1>2, <1>4, <1>5 DEF Fetching
  <2> QED
    BY <1>2, <2>1 DEF Fetching
<1>17. Running' = Running \union {child} /\ child \notin Running
  <2>1. \A m \in DOMAIN walks' : walks'[m].at # "done" <=> m \in Running \union {child}
    BY <1>1, <1>2, <1>4, <1>5 DEF Running
  <2> QED
    BY <1>1, <1>2, <2>1 DEF Running
<1>18. IsFiniteSet(Running)
  BY FS_Subset DEF CountBook, Running
<1>19. group' = Cardinality(Running')
  BY <1>2, <1>17, <1>18, FS_AddElement DEF CountBook
<1>20. n \in Running
  BY DEF Running
<1> QED
  BY <1>12, <1>13, <1>14, <1>15, <1>16, <1>19, <1>20 DEF CountBook

-----------------------------------------------------------------------------
(* The actions. *)

At == {"waiting", "fetching", "placing", "done"}

LEMMA GoesBook ==
  ASSUME ShapeBook, CountBook,
         NEW n \in DOMAIN walks, NEW here \in At \ {"done"}, NEW there \in At,
         Goes(n, here, there),
         UNCHANGED <<world, visited, returned>>,
         tokens' = IF here = "fetching"
                   THEN IF there = "fetching" THEN tokens ELSE tokens - 1
                   ELSE IF there = "fetching" THEN tokens + 1 ELSE tokens,
         there = "fetching" /\ here # "fetching" => tokens < Concurrency,
         group' = IF there = "done" THEN group - 1 ELSE group
  PROVE  ShapeBook' /\ CountBook'
<1>1. walks \in [DOMAIN walks -> Walk] /\ walks[n] \in Walk
  BY DEF ShapeBook
<1>2. walks[n].at = here
  BY DEF Goes
<1>3. /\ walks' \in [DOMAIN walks -> Walk]
      /\ \A m \in DOMAIN walks \ {n} : walks'[m] = walks[m]
      /\ walks'[n].at = there /\ walks'[n].placed = walks[n].placed
  BY <1>1 DEF Goes, Walk, At
<1>4. walks'[n].placed \in walks[n].placed..Len(Below(n))
  <2>1. walks[n].placed \in Nat /\ Len(Below(n)) \in Nat /\ walks[n].placed <= Len(Below(n))
    BY NodeFacts DEF ShapeBook
  <2> QED
    BY <1>3, <2>1
<1>5. ShapeBook'
  BY <1>3, <1>4, MoveShape
<1>6. CountBook'
  BY <1>2, <1>3, MoveCount DEF At
<1> QED
  BY <1>5, <1>6

LEMMA FailsBook ==
  ASSUME WalkBook, NEW n \in DOMAIN walks, Fails(n)
  PROVE  FailBook'
<1>1. n # <<>>
  BY NodeFacts DEF WalkBook
<1> QED
  BY <1>1 DEF WalkBook, FailBook, Fails

LEMMA PageBook ==
  ASSUME WalkBook, NEW n \in DOMAIN walks, NEW k \in 0..world.page, FetchPage(n, k),
         UNCHANGED world
  PROVE  WalkBook'
<1> DEFINE there == IF walks[n].listed + k = Len(Below(n)) THEN "placing" ELSE "waiting"
<1>1. ShapeBook /\ CountBook /\ walks \in [DOMAIN walks -> Walk] /\ walks[n] \in Walk
  BY DEF WalkBook, ShapeBook
<1>2. walks[n].at = "fetching" /\ walks[n].listed + k \in Nat
  <2>1. world.page \in Nat
    BY <1>1, TreeAssumption DEF ShapeBook
  <2> QED
    BY <1>1, <2>1 DEF FetchPage, Walk
<1>3. walks' = [walks EXCEPT ![n].listed = @ + k, ![n].at = there]
  BY DEF FetchPage
<1>4. there \in {"placing", "waiting"}
  OBVIOUS
<1> HIDE DEF there
<1>5. /\ walks' \in [DOMAIN walks -> Walk]
      /\ \A m \in DOMAIN walks \ {n} : walks'[m] = walks[m]
      /\ walks'[n].at = there /\ walks'[n].placed = walks[n].placed
  BY <1>1, <1>2, <1>3, <1>4 DEF Walk
<1>6. walks'[n].placed \in walks[n].placed..Len(Below(n))
  <2>1. walks[n].placed \in Nat /\ Len(Below(n)) \in Nat /\ walks[n].placed <= Len(Below(n))
    <3>1. walks[n].placed <= Len(Below(n))
      BY <1>1 DEF ShapeBook
    <3> QED
      BY <1>1, <3>1, NodeFacts
  <2> QED
    BY <1>5, <2>1
<1>7. ShapeBook'
  BY <1>1, <1>5, <1>6, MoveShape
<1>8. UNCHANGED <<visited, returned, group, firstErr, failed>> /\ tokens' = tokens - 1
  BY DEF FetchPage, marks
<1>9. CountBook'
  BY <1>1, <1>2, <1>4, <1>5, <1>8, MoveCount
<1> QED
  BY <1>7, <1>8, <1>9 DEF WalkBook, FailBook

\* A child placed without a walk of its own: seen above, or refused by admit.
LEMMA PlaceBook ==
  ASSUME WalkBook, NEW n \in DOMAIN walks, PlaceChild(n), UNCHANGED world
  PROVE  WalkBook'
<1> DEFINE id == Below(n)[walks[n].placed + 1]
           child == Append(n, id)
<1>1. ShapeBook /\ CountBook /\ walks \in [DOMAIN walks -> Walk] /\ walks[n] \in Walk
  BY DEF WalkBook, ShapeBook
<1>2. /\ walks[n].at = "placing" /\ walks[n].placed < Len(Below(n))
      /\ UNCHANGED <<tokens, firstErr, returned>>
  BY DEF PlaceChild
<1>3. walks[n].placed \in Nat /\ Len(Below(n)) \in Nat
  BY <1>1, NodeFacts
<1>4. \/ walks' = [walks EXCEPT ![n].placed = @ + 1] /\ UNCHANGED <<failed, visited, group>>
      \/ ~Full /\ visited' = visited + 1 /\ Spawn(n, child) /\ UNCHANGED failed
  BY DEF PlaceChild, Refuse, marks
<1>5. CASE walks' = [walks EXCEPT ![n].placed = @ + 1] /\ UNCHANGED <<failed, visited, group>>
  <2>1. /\ walks' \in [DOMAIN walks -> Walk]
        /\ \A m \in DOMAIN walks \ {n} : walks'[m] = walks[m]
        /\ walks'[n].at = "placing" /\ walks'[n].placed = walks[n].placed + 1
    BY <1>1, <1>2, <1>3, <1>5 DEF Walk
  <2>2. walks'[n].placed \in walks[n].placed..Len(Below(n))
    BY <1>2, <1>3, <2>1
  <2>3. ShapeBook'
    BY <1>1, <2>1, <2>2, MoveShape
  <2>4. CountBook'
    BY <1>1, <1>2, <1>5, <2>1, MoveCount
  <2> QED
    BY <1>2, <1>5, <2>3, <2>4 DEF WalkBook, FailBook
<1>6. CASE ~Full /\ visited' = visited + 1 /\ Spawn(n, child) /\ UNCHANGED failed
  <2>1. ShapeBook' /\ CountBook'
    BY <1>1, <1>2, <1>6, SpawnBook
  <2> QED
    BY <1>2, <1>6, <2>1 DEF WalkBook, FailBook
<1> QED
  BY <1>4, <1>5, <1>6

LEMMA NodeStepBook ==
  ASSUME WalkBook, NEW n \in DOMAIN walks, UNCHANGED world,
         TakeToken(n) \/ GiveUpWaiting(n) \/ FetchFails(n) \/ StopAtCap(n) \/ FinishNode(n)
  PROVE  WalkBook'
<1>1. ShapeBook /\ CountBook /\ FailBook
  BY DEF WalkBook
<1>2. CASE TakeToken(n)
  <2>1. /\ Goes(n, "waiting", "fetching") /\ tokens < Concurrency /\ tokens' = tokens + 1
        /\ UNCHANGED <<visited, returned, group, firstErr, failed>>
    BY <1>2 DEF TakeToken, marks
  <2>2. ShapeBook' /\ CountBook'
    BY <1>1, <2>1, GoesBook DEF At
  <2> QED
    BY <1>1, <2>1, <2>2 DEF WalkBook, FailBook
<1>3. CASE GiveUpWaiting(n)
  <2>1. /\ Goes(n, "waiting", "done") /\ tokens' = tokens /\ group' = group - 1
        /\ UNCHANGED <<visited, returned>> /\ Fails(n)
    BY <1>3 DEF GiveUpWaiting, Fails
  <2>2. ShapeBook' /\ CountBook'
    BY <1>1, <2>1, GoesBook DEF At
  <2> QED
    BY <2>1, <2>2, FailsBook DEF WalkBook
<1>4. CASE FetchFails(n)
  <2>1. /\ Goes(n, "fetching", "done") /\ tokens' = tokens - 1 /\ group' = group - 1
        /\ UNCHANGED <<visited, returned>> /\ Fails(n)
    BY <1>4 DEF FetchFails, Fails
  <2>2. ShapeBook' /\ CountBook'
    BY <1>1, <2>1, GoesBook DEF At
  <2> QED
    BY <2>1, <2>2, FailsBook DEF WalkBook
<1>5. CASE StopAtCap(n) \/ FinishNode(n)
  <2>1. /\ Goes(n, "placing", "done") /\ tokens' = tokens /\ group' = group - 1
        /\ UNCHANGED <<visited, returned, firstErr, failed>>
    BY <1>5 DEF StopAtCap, FinishNode, Leave, marks
  <2>2. ShapeBook' /\ CountBook'
    BY <1>1, <2>1, GoesBook DEF At
  <2> QED
    BY <1>1, <2>1, <2>2 DEF WalkBook, FailBook
<1> QED
  BY <1>2, <1>3, <1>4, <1>5

\* The wait group is empty only when no goroutine is left.
LEMMA ReturnBook ==
  ASSUME WalkBook, Return, UNCHANGED world
  PROVE  WalkBook'
<1>1. /\ UNCHANGED <<walks, visited, tokens, group, firstErr, failed, world>>
      /\ group = 0 /\ returned' = TRUE
  BY DEF Return, shared, marks
<1>2. IsFiniteSet(DOMAIN walks) /\ group = Cardinality(Running)
  BY DEF WalkBook, CountBook
<1>3. IsFiniteSet(Running)
  BY <1>2, FS_Subset DEF Running
<1>4. Running = {}
  BY <1>1, <1>2, <1>3, FS_EmptySet
<1>5. Running' = Running /\ Fetching' = Fetching
  BY <1>1 DEF Running, Fetching
<1>6. CountBook'
  BY <1>1, <1>4, <1>5 DEF WalkBook, CountBook, MaxNodes, Concurrency
<1>7. ShapeBook'
  BY <1>1 DEF WalkBook, ShapeBook, Below, Kids, ID, Root, RootID
<1> QED
  BY <1>1, <1>6, <1>7 DEF WalkBook, FailBook

LEMMA SameBook ==
  ASSUME WalkBook, UNCHANGED <<walks, shared, failed, returned, world>>
  PROVE  WalkBook'
<1>1. UNCHANGED <<walks, visited, tokens, group, firstErr, failed, returned, world>>
  BY DEF shared
<1>2. Running' = Running /\ Fetching' = Fetching
  BY <1>1 DEF Running, Fetching
<1>3. CountBook'
  BY <1>1, <1>2 DEF WalkBook, CountBook, MaxNodes, Concurrency
<1>4. ShapeBook'
  BY <1>1 DEF WalkBook, ShapeBook, Below, Kids, ID, Root, RootID
<1> QED
  BY <1>1, <1>3, <1>4 DEF WalkBook, FailBook

LEMMA InitBook == Init => WalkBook
<1> SUFFICES ASSUME Init PROVE WalkBook
  OBVIOUS
<1>1. world \in Worlds /\ RootID \in SessionIDs /\ MaxNodes \in Nat \ {0} /\ Concurrency \in Nat \ {0}
  BY TreeAssumption DEF Init, RootID, MaxNodes, Concurrency
<1>2. walks = [n \in {Root} |-> NewWalk] /\ DOMAIN walks = {Root}
  BY DEF Init
<1>3. NewWalk \in Walk /\ NewWalk.at = "waiting" /\ NewWalk.placed = 0
  BY DEF NewWalk, Walk
<1>4. Root \in Nodes
  BY <1>1 DEF Root, Nodes
<1>5. walks \in [DOMAIN walks -> Walk] /\ walks[Root] = NewWalk
  BY <1>2, <1>3
<1>6. ASSUME NEW n \in DOMAIN walks
      PROVE  walks[n].placed <= Len(Below(n))
  <2>1. Len(Below(n)) \in Nat
    <3>1. ID(n) = RootID
      <4>1. n = <<RootID>>
        BY <1>2 DEF Root
      <4>2. Len(n) = 1 /\ n[1] = RootID
        BY <4>1
      <4> QED
        BY <4>2 DEF ID
    <3>2. Kids[RootID] \in Seq(SessionIDs)
      BY <1>1, TreeAssumption DEF Kids
    <3> QED
      BY <3>1, <3>2 DEF Below
  <2> QED
    BY <1>2, <1>3, <2>1
<1>7. ShapeBook
  BY <1>1, <1>2, <1>4, <1>5, <1>6 DEF ShapeBook
<1>8. Fetching = {} /\ Running = {Root}
  BY <1>2, <1>3 DEF Fetching, Running
<1>9. IsFiniteSet({Root}) /\ Cardinality({Root}) = 1
  BY FS_Singleton
<1>10. Cardinality({}) = 0
  BY FS_EmptySet
<1>11. visited = 1 /\ tokens = 0 /\ group = 1 /\ returned = FALSE
  BY DEF Init
<1>12. CountBook
  BY <1>1, <1>2, <1>8, <1>9, <1>10, <1>11 DEF CountBook
<1> QED
  BY <1>7, <1>12 DEF WalkBook, FailBook, Init

LEMMA NextBook == WalkBook /\ [Next]_vars => WalkBook'
<1> SUFFICES ASSUME WalkBook, [Next]_vars PROVE WalkBook'
  OBVIOUS
<1>1. CASE Work
  <2>1. UNCHANGED world
    BY <1>1 DEF Work
  <2>2. ASSUME NEW n \in DOMAIN walks,
               \/ TakeToken(n) \/ GiveUpWaiting(n) \/ FetchFails(n)
               \/ \E k \in 0..world.page : FetchPage(n, k)
               \/ StopAtCap(n) \/ PlaceChild(n) \/ FinishNode(n)
        PROVE  WalkBook'
    BY <2>1, <2>2, NodeStepBook, PageBook, PlaceBook
  <2>3. CASE Return
    BY <2>1, <2>3, ReturnBook
  <2> QED
    BY <1>1, <2>2, <2>3 DEF Work
<1>2. CASE CallerCancels /\ UNCHANGED world
  BY <1>2, SameBook DEF CallerCancels, marks
<1>3. CASE Finished \/ UNCHANGED vars
  BY <1>3, SameBook DEF Finished, vars, marks
<1> QED
  BY <1>1, <1>2, <1>3 DEF Next

LEMMA BookSuffices == WalkBook => NothingOutlives
<1> SUFFICES ASSUME WalkBook PROVE NothingOutlives
  OBVIOUS
<1>1. Cardinality(Fetching) <= Concurrency
  BY DEF WalkBook, CountBook
<1>2. ASSUME returned
      PROVE  (\A n \in DOMAIN walks : walks[n].at = "done") /\ tokens = 0
  <2>1. Running = {}
    BY <1>2 DEF WalkBook, CountBook
  <2>2. \A n \in DOMAIN walks : walks[n].at = "done"
    BY <2>1 DEF Running
  <2>3. Fetching = {}
    BY <2>2 DEF Fetching
  <2> QED
    BY <2>2, <2>3, FS_EmptySet DEF WalkBook, CountBook
<1>3. Cardinality(DOMAIN walks) <= MaxNodes
  BY DEF WalkBook, CountBook
<1> QED
  BY <1>1, <1>2, <1>3 DEF WalkBook, FailBook, NothingOutlives, Fetching

\* In every tree, under every cap: a walk has no more requests in flight than tokens, and
\* returns with no goroutine left, no token out, within its node ceiling, and with an error
\* exactly when a listing failed (ChildrenTree's wait group, gateFetch, admit, recordErr).
THEOREM NothingOutlivesHolds == Spec => []NothingOutlives
<1>1. Spec => []WalkBook
  BY InitBook, NextBook, PTL DEF Spec
<1> QED
  BY <1>1, BookSuffices, PTL

-----------------------------------------------------------------------------
(***************************************************************************)
(* The tree that grows: GrowBook is invariant beside WalkBook.             *)
(***************************************************************************)

\* The server's relation and the options stand still.
LEMMA WorldStands ==
  ASSUME UNCHANGED world
  PROVE  /\ Root' = Root /\ RootID' = RootID /\ Kids' = Kids
         /\ MaxDepth' = MaxDepth /\ MaxNodes' = MaxNodes
         /\ \A n : Below(n)' = Below(n) /\ ID(n)' = ID(n) /\ Depth(n)' = Depth(n)
                   /\ ancestors(n)' = ancestors(n) /\ IsPath(n)' = IsPath(n)
BY DEF Root, RootID, Kids, MaxDepth, MaxNodes, Below, ID, Depth, ancestors, IsPath

\* No node is made, and a walk that comes to its end leaves its node settled.
LEMMA StillGrows ==
  ASSUME GrowBook, UNCHANGED <<world, tree, repeated, visited>>,
         DOMAIN walks' = DOMAIN walks,
         \A m \in DOMAIN walks : walks'[m].placed = walks[m].placed,
         truncated \subseteq truncated', failed \subseteq failed',
         \A m \in DOMAIN walks : walks'[m].at = "done" => walks[m].at = "done" \/ Settled(m)'
  PROVE  GrowBook'
<1>1. PathBook'
  BY WorldStands, Zenon DEF GrowBook, PathBook
<1>2. TreeBook'
  BY WorldStands DEF GrowBook, TreeBook
<1>3. ASSUME NEW m \in DOMAIN walks', walks'[m].at = "done"
      PROVE  Settled(m)'
  <2>1. CASE walks[m].at = "done"
    <3>1. Settled(m)
      BY <1>3, <2>1 DEF GrowBook, MarkBook
    <3> QED
      BY <1>3, <3>1, WorldStands DEF Settled
  <2> QED
    BY <1>3, <2>1
<1>4. MarkBook'
  <2>1. \A m \in repeated' : \E n \in DOMAIN walks' : \E id \in ancestors(n)' : m = Append(n, id)
    BY WorldStands DEF GrowBook, MarkBook
  <2>2. /\ tree' \subseteq DOMAIN walks' \union truncated' \union repeated'
        /\ visited' < MaxNodes' => tree' \subseteq DOMAIN walks' \union repeated'
    BY WorldStands DEF GrowBook, MarkBook
  <2> QED
    BY <1>3, <2>1, <2>2 DEF MarkBook
<1> QED
  BY <1>1, <1>2, <1>4 DEF GrowBook

\* A walk moves on within its node, and what it still is stays open.
LEMMA GoesGrows ==
  ASSUME ShapeBook, GrowBook, NEW n \in DOMAIN walks, NEW here, NEW there,
         Goes(n, here, there), UNCHANGED <<world, tree, repeated, visited>>,
         truncated \subseteq truncated', failed \subseteq failed',
         there = "done" => Settled(n)'
  PROVE  GrowBook'
<1>1. walks[n] \in Walk
  BY DEF ShapeBook
<1>2. /\ DOMAIN walks' = DOMAIN walks
      /\ \A m \in DOMAIN walks \ {n} : walks'[m] = walks[m]
      /\ walks'[n].at = there /\ walks'[n].placed = walks[n].placed
  BY <1>1 DEF Goes, Walk
<1>3. \A m \in DOMAIN walks : walks'[m].placed = walks[m].placed
  BY <1>2
<1>4. \A m \in DOMAIN walks : walks'[m].at = "done" => walks[m].at = "done" \/ Settled(m)'
  BY <1>2
<1> QED
  BY <1>2, <1>3, <1>4, StillGrows

LEMMA NodeStepGrows ==
  ASSUME WalkBook, GrowBook, NEW n \in DOMAIN walks, UNCHANGED world,
         TakeToken(n) \/ GiveUpWaiting(n) \/ FetchFails(n) \/ StopAtCap(n) \/ FinishNode(n)
  PROVE  GrowBook'
<1>1. ShapeBook /\ walks[n] \in Walk
  BY DEF WalkBook, ShapeBook
<1>2. CASE TakeToken(n)
  BY <1>1, <1>2, GoesGrows DEF TakeToken, marks
<1>3. CASE GiveUpWaiting(n) \/ FetchFails(n)
  <2>1. PICK here : Goes(n, here, "done")
    BY <1>3 DEF GiveUpWaiting, FetchFails
  <2>2. Fails(n) /\ UNCHANGED <<tree, truncated, repeated, visited>>
    BY <1>3 DEF GiveUpWaiting, FetchFails, Fails
  <2>3. Settled(n)' /\ failed \subseteq failed'
    BY <2>2 DEF Fails, Settled
  <2> QED
    BY <1>1, <2>1, <2>2, <2>3, GoesGrows
<1>4. CASE StopAtCap(n)
  <2>1. /\ Goes(n, "placing", "done") /\ Depth(n) >= MaxDepth
        /\ UNCHANGED <<tree, repeated, failed, visited>>
        /\ truncated' = IF Below(n) # <<>> THEN truncated \union {n} ELSE truncated
    BY <1>4 DEF StopAtCap
  <2>2. Settled(n)'
    BY <2>1, WorldStands DEF Settled
  <2> QED
    BY <1>1, <2>1, <2>2, GoesGrows
<1>5. CASE FinishNode(n)
  <2>1. /\ Goes(n, "placing", "done") /\ Depth(n) < MaxDepth /\ walks[n].placed = Len(Below(n))
        /\ UNCHANGED <<tree, truncated, repeated, failed, visited>>
    BY <1>5 DEF FinishNode, marks
  <2>2. walks'[n].placed = walks[n].placed
    BY <1>1, <2>1 DEF Goes, Walk
  <2>3. Settled(n)'
    BY <2>1, <2>2, WorldStands DEF Settled
  <2> QED
    BY <1>1, <2>1, <2>3, GoesGrows
<1> QED
  BY <1>2, <1>3, <1>4, <1>5

LEMMA PageGrows ==
  ASSUME WalkBook, GrowBook, NEW n \in DOMAIN walks, NEW k \in 0..world.page, FetchPage(n, k),
         UNCHANGED world
  PROVE  GrowBook'
<1> DEFINE there == IF walks[n].listed + k = Len(Below(n)) THEN "placing" ELSE "waiting"
<1>1. walks[n] \in Walk
  BY DEF WalkBook, ShapeBook
<1>2. /\ walks' = [walks EXCEPT ![n].listed = @ + k, ![n].at = there]
      /\ UNCHANGED <<tree, truncated, repeated, failed, visited>>
  BY DEF FetchPage, marks
<1>3. there # "done"
  OBVIOUS
<1> HIDE DEF there
<1>4. /\ DOMAIN walks' = DOMAIN walks
      /\ \A m \in DOMAIN walks \ {n} : walks'[m] = walks[m]
      /\ walks'[n].at # "done" /\ walks'[n].placed = walks[n].placed
  BY <1>1, <1>2, <1>3 DEF Walk
<1>5. \A m \in DOMAIN walks : walks'[m].placed = walks[m].placed
  BY <1>4
<1>6. \A m \in DOMAIN walks : walks'[m].at = "done" => walks[m].at = "done"
  BY <1>4
<1> QED
  BY <1>2, <1>4, <1>5, <1>6, StillGrows

-----------------------------------------------------------------------------
(* A child placed. *)

LEMMA ChildFacts ==
  ASSUME NEW n \in Seq(SessionIDs), n # <<>>, NEW id \in SessionIDs
  PROVE  /\ Append(n, id) \in Seq(SessionIDs) /\ Append(n, id) # <<>>
         /\ Len(Append(n, id)) = Len(n) + 1 /\ Len(n) \in Nat /\ Len(n) >= 1
         /\ \A i \in 1..Len(n) : Append(n, id)[i] = n[i]
         /\ Append(n, id)[Len(n) + 1] = id
         /\ ID(Append(n, id)) = id /\ Depth(Append(n, id)) = Depth(n) + 1
         /\ ancestors(Append(n, id)) = ancestors(n) \union {id}
<1> DEFINE child == Append(n, id)
<1>1. /\ child \in Seq(SessionIDs) /\ Len(child) = Len(n) + 1
      /\ Len(n) \in Nat /\ Len(n) >= 1
      /\ \A i \in 1..Len(n) : child[i] = n[i]
      /\ child[Len(n) + 1] = id
  BY AppendProperties
<1>2. child # <<>>
  BY <1>1
<1>3. ID(child) = id /\ Depth(child) = Depth(n) + 1
  BY <1>1 DEF ID, Depth
<1> HIDE DEF child
<1>4. ancestors(child) = ancestors(n) \union {id}
  <2>1. ASSUME NEW s \in ancestors(child)
        PROVE  s \in ancestors(n) \union {id}
    <3>1. PICK i \in 1..(Len(n) + 1) : s = child[i]
      BY <1>1, <2>1 DEF ancestors
    <3>2. CASE i = Len(n) + 1
      BY <1>1, <3>1, <3>2
    <3>3. CASE i # Len(n) + 1
      <4>1. i \in 1..Len(n)
        BY <1>1, <3>1, <3>3
      <4> QED
        BY <1>1, <3>1, <4>1 DEF ancestors
    <3> QED
      BY <3>2, <3>3
  <2>2. ASSUME NEW s \in ancestors(n)
        PROVE  s \in ancestors(child)
    <3>1. PICK i \in 1..Len(n) : s = n[i]
      BY <2>2 DEF ancestors
    <3>2. i \in 1..Len(child) /\ s = child[i]
      BY <1>1, <3>1
    <3> QED
      BY <3>2 DEF ancestors
  <2>3. id \in ancestors(child)
    <3>1. Len(n) + 1 \in 1..Len(child)
      BY <1>1
    <3> QED
      BY <1>1, <3>1 DEF ancestors
  <2> QED
    BY <2>1, <2>2, <2>3
<1> QED
  BY <1>1, <1>2, <1>3, <1>4 DEF child

\* A path goes on to a child that is not on it.
LEMMA PathGrows ==
  ASSUME NEW n \in Seq(SessionIDs), n # <<>>, NEW i \in 1..Len(Below(n)),
         NEW id \in SessionIDs, id = Below(n)[i], IsPath(n), ~Seen(n, id)
  PROVE  IsPath(Append(n, id))
<1> DEFINE child == Append(n, id)
<1>1. /\ Len(child) = Len(n) + 1 /\ Len(n) \in Nat /\ Len(n) >= 1
      /\ \A k \in 1..Len(n) : child[k] = n[k]
      /\ child[Len(n) + 1] = id
  BY ChildFacts
<1> HIDE DEF child
<1>2. child[1] = RootID
  BY <1>1 DEF IsPath
<1>3. ASSUME NEW k \in 1..(Len(child) - 1)
      PROVE  \E j \in 1..Len(Kids[child[k]]) : Kids[child[k]][j] = child[k + 1]
  <2>1. k \in 1..Len(n) /\ child[k] = n[k]
    BY <1>1
  <2>2. CASE k = Len(n)
    <3>1. Kids[child[k]] = Below(n)
      BY <2>1, <2>2 DEF Below, ID
    <3>2. child[k + 1] = Below(n)[i]
      BY <1>1, <2>2
    <3> QED
      BY <3>1, <3>2
  <2>3. CASE k # Len(n)
    <3>1. k \in 1..(Len(n) - 1) /\ k + 1 \in 1..Len(n)
      BY <1>1, <2>1, <2>3
    <3>2. child[k + 1] = n[k + 1]
      BY <1>1, <3>1
    <3> QED
      BY <2>1, <3>1, <3>2 DEF IsPath
  <2> QED
    BY <2>2, <2>3
<1>4. \A k \in 1..Len(n) : child[k] # id
  BY <1>1 DEF Seen, ancestors
<1>5. ASSUME NEW k \in 1..Len(child), NEW j \in 1..Len(child), child[k] = child[j]
      PROVE  k = j
  <2>1. k \in 1..Len(n) \/ k = Len(n) + 1
    BY <1>1
  <2>2. j \in 1..Len(n) \/ j = Len(n) + 1
    BY <1>1
  <2>3. k \in 1..Len(n) /\ j \in 1..Len(n) => k = j
    BY <1>1, <1>5 DEF IsPath
  <2> QED
    BY <1>1, <1>4, <1>5, <2>1, <2>2, <2>3
<1>6. IsPath(child)
  BY <1>2, <1>3, <1>5 DEF IsPath
<1> QED
  BY <1>6 DEF child

\* What PlaceChild does to the walks and the marks.
PlacesOne(n, child) ==
  /\ DOMAIN walks \subseteq DOMAIN walks' /\ DOMAIN walks' \subseteq DOMAIN walks \union {child}
  /\ \A m \in DOMAIN walks \ {n} : walks'[m] = walks[m]
  /\ walks'[n].at = "placing" /\ walks'[n].placed = walks[n].placed + 1
  /\ tree' = tree \union {child}
  /\ UNCHANGED failed
  /\ \/ child \in repeated' /\ repeated' = repeated \union {child}
        /\ UNCHANGED <<truncated, visited>> /\ DOMAIN walks' = DOMAIN walks
     \/ visited >= MaxNodes /\ truncated' = truncated \union {child}
        /\ UNCHANGED <<repeated, visited>> /\ DOMAIN walks' = DOMAIN walks
     \/ child \in DOMAIN walks' /\ walks'[child] = NewWalk
        /\ visited' = visited + 1 /\ UNCHANGED <<truncated, repeated>>

LEMMA PlaceChildPlaces ==
  ASSUME WalkBook, NEW n \in DOMAIN walks, PlaceChild(n),
         NEW id, id = Below(n)[walks[n].placed + 1]
  PROVE  /\ PlacesOne(n, Append(n, id))
         /\ Append(n, id) \in repeated' \ repeated => Seen(n, id)
         /\ Append(n, id) \in DOMAIN walks' => ~Seen(n, id)
<1> DEFINE child == Append(n, id)
<1>1. ShapeBook /\ walks[n] \in Walk /\ walks \in [DOMAIN walks -> Walk]
  BY DEF WalkBook, ShapeBook
<1>2. walks[n].at = "placing" /\ walks[n].placed < Len(Below(n)) /\ walks[n].placed \in Nat
  BY <1>1 DEF PlaceChild, Walk
<1>3. child \notin DOMAIN walks
  BY <1>1, <1>2, ChildIsNew
<1>4. /\ tree' = tree \union {child}
      /\ \/ /\ Seen(n, id)
            /\ walks' = [walks EXCEPT ![n].placed = @ + 1]
            /\ repeated' = repeated \union {child}
            /\ UNCHANGED <<truncated, failed, visited, group>>
         \/ ~Seen(n, id) /\ Full /\ Refuse(n, child)
         \/ ~Seen(n, id) /\ ~Full /\ visited' = visited + 1 /\ Spawn(n, child) /\ UNCHANGED marks
  BY DEF PlaceChild
<1> HIDE DEF child
<1>5. CASE walks' = [walks EXCEPT ![n].placed = @ + 1]
  <2>1. /\ DOMAIN walks' = DOMAIN walks
        /\ \A m \in DOMAIN walks \ {n} : walks'[m] = walks[m]
        /\ walks'[n].at = "placing" /\ walks'[n].placed = walks[n].placed + 1
    BY <1>1, <1>2, <1>5 DEF Walk
  <2>2. \/ /\ Seen(n, id) /\ repeated' = repeated \union {child}
           /\ UNCHANGED <<truncated, failed, visited>>
        \/ /\ visited >= MaxNodes /\ truncated' = truncated \union {child}
           /\ UNCHANGED <<repeated, failed, visited>>
    <3>1. Spawn(n, child) => child \in DOMAIN walks'
      BY DEF Spawn
    <3> QED
      BY <1>3, <1>4, <2>1, <3>1 DEF Refuse, Full
  <2> QED
    BY <1>3, <1>4, <2>1, <2>2 DEF PlacesOne, child
<1>6. CASE ~Seen(n, id) /\ ~Full /\ visited' = visited + 1 /\ Spawn(n, child) /\ UNCHANGED marks
  <2>1. /\ DOMAIN walks' = DOMAIN walks \union {child}
        /\ \A m \in DOMAIN walks \ {n} : walks'[m] = walks[m]
        /\ walks'[n] = [walks[n] EXCEPT !.placed = @ + 1]
        /\ walks'[child] = NewWalk
    BY <1>3, <1>6 DEF Spawn
  <2>2. walks'[n].at = "placing" /\ walks'[n].placed = walks[n].placed + 1
    BY <1>1, <1>2, <2>1 DEF Walk
  <2> QED
    BY <1>4, <1>6, <2>1, <2>2 DEF PlacesOne, child, marks
<1> QED
  BY <1>4, <1>5, <1>6 DEF Refuse

LEMMA PlaceGrows ==
  ASSUME WalkBook, GrowBook, NEW n \in DOMAIN walks, PlaceChild(n), UNCHANGED world
  PROVE  GrowBook'
<1> DEFINE next == walks[n].placed + 1
           id == Below(n)[next]
           child == Append(n, id)
<1>1. ShapeBook /\ Depth(n) < MaxDepth /\ walks[n].placed < Len(Below(n))
  BY DEF WalkBook, PlaceChild
<1>2. /\ n \in Seq(SessionIDs) /\ n # <<>> /\ Below(n) \in Seq(SessionIDs)
      /\ walks[n].placed \in Nat
  BY <1>1, NodeFacts
<1>3. next \in 1..Len(Below(n)) /\ next > 0
  BY <1>1, <1>2
<1>4. id \in SessionIDs
  BY <1>2, <1>3
<1>5. child \notin DOMAIN walks
  BY <1>1, ChildIsNew
<1>6. /\ PlacesOne(n, child)
      /\ child \in repeated' \ repeated => Seen(n, id)
      /\ child \in DOMAIN walks' => ~Seen(n, id)
  BY PlaceChildPlaces
<1>7. ID(child) = id /\ ancestors(child) = ancestors(n) \union {id}
  BY <1>2, <1>4, ChildFacts
<1>8. IsPath(n) /\ (~Seen(n, id) => IsPath(child))
  BY <1>2, <1>3, <1>4, PathGrows DEF GrowBook, PathBook
<1> HIDE DEF child, id, next
<1>9. PathBook'
  <2>1. \A m \in DOMAIN walks : \A s \in ancestors(m) : \E p \in DOMAIN walks' : ID(p) = s
    BY <1>6, Zenon DEF GrowBook, PathBook, PlacesOne
  <2>2. ASSUME NEW m \in DOMAIN walks'
        PROVE  /\ IsPath(m)
               /\ \A s \in ancestors(m) : \E p \in DOMAIN walks' : ID(p) = s
               /\ walks'[m].placed > 0 => Depth(m) < MaxDepth
    <3>1. CASE m = child
      <4>1. walks'[m].placed = 0 /\ m \in DOMAIN walks'
        BY <1>5, <1>6, <2>2, <3>1 DEF PlacesOne, NewWalk
      <4>2. IsPath(m)
        BY <1>6, <1>8, <3>1, <4>1
      <4>3. ASSUME NEW s \in ancestors(m)
            PROVE  \E p \in DOMAIN walks' : ID(p) = s
        <5>1. CASE s = id
          BY <1>7, <3>1, <4>1, <5>1
        <5>2. CASE s \in ancestors(n)
          BY <2>1, <5>2
        <5> QED
          BY <1>7, <3>1, <4>3, <5>1, <5>2
      <4> QED
        BY <4>1, <4>2, <4>3
    <3>2. CASE m # child
      <4>1. m \in DOMAIN walks
        BY <1>6, <2>2, <3>2 DEF PlacesOne
      <4>2. walks'[m].placed > 0 => Depth(m) < MaxDepth
        <5>1. CASE m = n
          BY <1>1, <5>1
        <5>2. CASE m # n
          BY <1>6, <4>1, <5>2 DEF PlacesOne, GrowBook, PathBook
        <5> QED
          BY <5>1, <5>2
      <4>3. IsPath(m)
        BY <4>1 DEF GrowBook, PathBook
      <4> QED
        BY <2>1, <4>1, <4>2, <4>3
    <3> QED
      BY <3>1, <3>2
  <2> QED
    BY <2>2, WorldStands DEF PathBook
<1>10. TreeBook'
  <2>1. Root \in DOMAIN walks' /\ DOMAIN walks' \subseteq tree'
    BY <1>6 DEF GrowBook, TreeBook, PlacesOne
  <2>2. ASSUME NEW m \in DOMAIN walks', NEW i \in 1..walks'[m].placed
        PROVE  Append(m, Below(m)[i]) \in tree'
    <3>1. CASE m = n
      <4>1. i = next \/ i \in 1..walks[n].placed
        BY <1>2, <1>6, <2>2, <3>1 DEF PlacesOne, next
      <4>2. CASE i = next
        BY <1>6, <3>1, <4>2 DEF PlacesOne, child, id
      <4>3. CASE i \in 1..walks[n].placed
        BY <1>6, <3>1, <4>3 DEF GrowBook, TreeBook, PlacesOne
      <4> QED
        BY <4>1, <4>2, <4>3
    <3>2. CASE m = child
      <4>1. walks'[m].placed = 0
        BY <1>5, <1>6, <2>2, <3>2 DEF PlacesOne, NewWalk
      <4> QED
        BY <4>1
    <3>3. CASE m # n /\ m # child
      BY <1>6, <2>2, <3>3 DEF GrowBook, TreeBook, PlacesOne
    <3> QED
      BY <3>1, <3>2, <3>3
  <2>3. ASSUME NEW m \in tree' \ {Root}
        PROVE  \E p \in DOMAIN walks' : \E i \in 1..walks'[p].placed : m = Append(p, Below(p)[i])
    <3>1. CASE m = child
      <4>1. next \in 1..walks'[n].placed /\ n \in DOMAIN walks'
        BY <1>2, <1>6 DEF PlacesOne, next
      <4>2. m = Append(n, Below(n)[next])
        BY <3>1 DEF child, id
      <4> QED
        BY <4>1, <4>2
    <3>2. CASE m # child
      <4>1. m \in tree \ {Root}
        BY <1>6, <2>3, <3>2 DEF PlacesOne
      <4>2. PICK p \in DOMAIN walks : \E i \in 1..walks[p].placed : m = Append(p, Below(p)[i])
        BY <4>1, Zenon DEF GrowBook, TreeBook
      <4>3. p \in DOMAIN walks' /\ 1..walks[p].placed \subseteq 1..walks'[p].placed
        <5>1. CASE p = n
          BY <1>2, <1>6, <5>1 DEF PlacesOne
        <5>2. CASE p # n
          BY <1>6, <5>2 DEF PlacesOne
        <5> QED
          BY <5>1, <5>2
      <4> QED
        BY <4>2, <4>3
    <3> QED
      BY <3>1, <3>2
  <2> QED
    BY <2>1, <2>2, <2>3, WorldStands DEF TreeBook
<1>11. MarkBook'
  <2>1. visited \in Nat /\ MaxNodes \in Nat
    BY <1>1, WorldFacts, FS_CardinalityType DEF WalkBook, CountBook
  <2>2. /\ tree' \subseteq DOMAIN walks' \union truncated' \union repeated'
        /\ visited' < MaxNodes => tree' \subseteq DOMAIN walks' \union repeated'
    BY <1>6, <2>1 DEF GrowBook, MarkBook, PlacesOne
  <2>3. ASSUME NEW m \in repeated'
        PROVE  \E p \in DOMAIN walks' : \E s \in ancestors(p) : m = Append(p, s)
    <3>1. CASE m \in repeated
      BY <1>6, <3>1 DEF GrowBook, MarkBook, PlacesOne
    <3>2. CASE m \notin repeated
      <4>1. m = child /\ n \in DOMAIN walks'
        BY <1>6, <2>3, <3>2 DEF PlacesOne
      <4>2. id \in ancestors(n)
        BY <1>6, <2>3, <3>2, <4>1 DEF Seen
      <4> QED
        BY <4>1, <4>2 DEF child
    <3> QED
      BY <3>1, <3>2
  <2>4. ASSUME NEW m \in DOMAIN walks', walks'[m].at = "done"
        PROVE  Settled(m)'
    <3>1. m # n /\ m # child
      BY <1>5, <1>6, <2>4 DEF PlacesOne, NewWalk
    <3>2. m \in DOMAIN walks /\ walks'[m] = walks[m]
      BY <1>6, <3>1 DEF PlacesOne
    <3>3. Settled(m)
      BY <2>4, <3>2 DEF GrowBook, MarkBook
    <3>4. failed' = failed /\ truncated \subseteq truncated'
      BY <1>6 DEF PlacesOne
    <3> QED
      BY <3>2, <3>3, <3>4, WorldStands DEF Settled
  <2> QED
    BY <2>2, <2>3, <2>4, WorldStands DEF MarkBook
<1> QED
  BY <1>9, <1>10, <1>11 DEF GrowBook

-----------------------------------------------------------------------------
(* The walk grows its tree and nothing else. *)

LEMMA InitGrows == Init => GrowBook
<1> SUFFICES ASSUME Init PROVE GrowBook
  OBVIOUS
<1>1. /\ walks = [n \in {Root} |-> NewWalk] /\ DOMAIN walks = {Root}
      /\ tree = {Root} /\ truncated = {} /\ repeated = {}
  BY DEF Init
<1>2. walks[Root].placed = 0 /\ walks[Root].at = "waiting"
  BY <1>1 DEF NewWalk
<1>3. Len(Root) = 1 /\ Root[1] = RootID
  BY DEF Root
<1>4. IsPath(Root) /\ ancestors(Root) = {RootID} /\ ID(Root) = RootID
  BY <1>3 DEF IsPath, ancestors, ID
<1>5. PathBook
  BY <1>1, <1>2, <1>4 DEF PathBook
<1>6. TreeBook
  BY <1>1, <1>2 DEF TreeBook
<1>7. MarkBook
  BY <1>1, <1>2 DEF MarkBook
<1> QED
  BY <1>5, <1>6, <1>7 DEF GrowBook

LEMMA SameGrows ==
  ASSUME GrowBook, UNCHANGED <<tree, marks, walks, shared, world>>
  PROVE  GrowBook'
<1>1. UNCHANGED <<tree, truncated, repeated, failed, walks, visited, world>>
  BY DEF marks, shared
<1> QED
  BY <1>1, StillGrows

LEMMA NextGrows == WalkBook /\ GrowBook /\ [Next]_vars => GrowBook'
<1> SUFFICES ASSUME WalkBook, GrowBook, [Next]_vars PROVE GrowBook'
  OBVIOUS
<1>1. CASE Work
  <2>1. UNCHANGED world
    BY <1>1 DEF Work
  <2>2. ASSUME NEW n \in DOMAIN walks,
               \/ TakeToken(n) \/ GiveUpWaiting(n) \/ FetchFails(n)
               \/ \E k \in 0..world.page : FetchPage(n, k)
               \/ StopAtCap(n) \/ PlaceChild(n) \/ FinishNode(n)
        PROVE  GrowBook'
    BY <2>1, <2>2, NodeStepGrows, PageGrows, PlaceGrows
  <2>3. CASE Return
    BY <2>1, <2>3, SameGrows DEF Return
  <2> QED
    BY <1>1, <2>2, <2>3 DEF Work
<1>2. CASE CallerCancels /\ UNCHANGED world
  BY <1>2, SameGrows DEF CallerCancels
<1>3. CASE Finished \/ UNCHANGED vars
  BY <1>3, SameGrows DEF Finished, vars
<1> QED
  BY <1>1, <1>2, <1>3 DEF Next

-----------------------------------------------------------------------------
(* The shape of a whole tree. *)

\* The way down to a child that some walk has placed.
LEMMA PlacedIsDown ==
  ASSUME ShapeBook, GrowBook, NEW m \in tree, m # Root
  PROVE  \E n \in DOMAIN walks, i \in Nat, id \in SessionIDs :
           /\ i \in 1..Len(Below(n)) /\ id = Below(n)[i] /\ m = Append(n, id)
           /\ n \in Seq(SessionIDs) /\ n # <<>> /\ IsPath(n) /\ Depth(n) < MaxDepth
<1>1. PICK n \in DOMAIN walks : \E i \in 1..walks[n].placed : m = Append(n, Below(n)[i])
  BY Zenon DEF GrowBook, TreeBook
<1>2. PICK i \in 1..walks[n].placed : m = Append(n, Below(n)[i])
  BY <1>1
<1>3. /\ n \in Seq(SessionIDs) /\ n # <<>> /\ Below(n) \in Seq(SessionIDs)
      /\ walks[n].placed \in Nat /\ walks[n].placed <= Len(Below(n))
  BY NodeFacts DEF ShapeBook
<1>4. i \in Nat /\ i \in 1..Len(Below(n)) /\ walks[n].placed > 0
  BY <1>2, <1>3
<1>5. Below(n)[i] \in SessionIDs
  BY <1>3, <1>4
<1>6. IsPath(n) /\ Depth(n) < MaxDepth
  BY <1>4 DEF GrowBook, PathBook
<1> QED
  BY <1>2, <1>3, <1>4, <1>5, <1>6

LEMMA TreeIsPaths ==
  ASSUME ShapeBook, GrowBook
  PROVE  tree \subseteq Paths
<1> SUFFICES ASSUME NEW m \in tree PROVE m \in Paths
  OBVIOUS
<1>1. MaxDepth \in Nat \ {0} /\ RootID \in SessionIDs
  BY TreeAssumption DEF ShapeBook, MaxDepth, RootID
<1>2. CASE m = Root
  <2>1. Len(m) = 1 /\ m[1] = RootID /\ m \in [1..1 -> SessionIDs]
    BY <1>1, <1>2 DEF Root
  <2>2. 1 \in 1..(MaxDepth + 1)
    BY <1>1
  <2>3. m \in UNION {[1..d -> SessionIDs] : d \in 1..(MaxDepth + 1)}
    BY <2>1, <2>2
  <2>4. 1..(Len(m) - 1) = {}
    BY <2>1
  <2> QED
    BY <2>1, <2>3, <2>4 DEF Paths
<1>3. CASE m # Root
  <2>1. PICK n \in DOMAIN walks, i \in Nat, id \in SessionIDs :
          /\ i \in 1..Len(Below(n)) /\ id = Below(n)[i] /\ m = Append(n, id)
          /\ n \in Seq(SessionIDs) /\ n # <<>> /\ IsPath(n) /\ Depth(n) < MaxDepth
    BY <1>3, PlacedIsDown
  <2>2. /\ m \in Seq(SessionIDs) /\ Len(m) = Len(n) + 1 /\ Len(n) \in Nat /\ Len(n) >= 1
        /\ \A k \in 1..Len(n) : m[k] = n[k]
        /\ m[Len(n) + 1] = id
    BY <2>1, ChildFacts
  <2>3. Len(m) \in 1..(MaxDepth + 1) /\ m \in [1..Len(m) -> SessionIDs]
    <3>1. Len(n) - 1 < MaxDepth
      BY <2>1 DEF Depth
    <3>2. Len(m) \in 1..(MaxDepth + 1)
      BY <1>1, <2>2, <3>1
    <3>3. m \in [1..Len(m) -> SessionIDs]
      BY <2>2, LenProperties
    <3> QED
      BY <3>2, <3>3
  <2>4. m \in UNION {[1..d -> SessionIDs] : d \in 1..(MaxDepth + 1)}
    BY <2>3
  <2>5. m[1] = RootID
    BY <2>1, <2>2 DEF IsPath
  <2>6. ASSUME NEW k \in 1..(Len(m) - 1)
        PROVE  \E j \in 1..Len(Kids[m[k]]) : Kids[m[k]][j] = m[k + 1]
    <3>1. k \in 1..Len(n) /\ m[k] = n[k]
      BY <2>2
    <3>2. CASE k = Len(n)
      BY <2>1, <2>2, <3>1, <3>2 DEF Below, ID
    <3>3. CASE k # Len(n)
      <4>1. k \in 1..(Len(n) - 1) /\ k + 1 \in 1..Len(n)
        BY <2>2, <3>1, <3>3
      <4> QED
        BY <2>1, <2>2, <3>1, <4>1 DEF IsPath
    <3> QED
      BY <3>2, <3>3
  <2>7. \A k, j \in 1..(Len(m) - 1) : m[k] = m[j] => k = j
    BY <2>1, <2>2 DEF IsPath
  <2> QED
    BY <2>4, <2>5, <2>6, <2>7 DEF Paths
<1> QED
  BY <1>2, <1>3

\* A walk that is over and has failed nowhere has placed every child above the cap.
LEMMA AllPlaced ==
  ASSUME ShapeBook, GrowBook, NEW n \in DOMAIN walks, walks[n].at = "done",
         n \notin failed, Depth(n) < MaxDepth \/ n \notin truncated,
         NEW i \in 1..Len(Below(n))
  PROVE  Append(n, Below(n)[i]) \in tree
<1>1. Settled(n)
  BY DEF GrowBook, MarkBook
<1>2. Below(n) \in Seq(SessionIDs)
  BY NodeFacts
<1>3. Below(n) # <<>>
  BY <1>2
<1>4. Depth(n) \in Int /\ MaxDepth \in Nat
  <2>1. Len(n) \in Nat
    BY NodeFacts
  <2> QED
    BY <2>1, TreeAssumption DEF ShapeBook, Depth, MaxDepth
<1>5. walks[n].placed = Len(Below(n))
  BY <1>1, <1>3, <1>4 DEF Settled
<1> QED
  BY <1>5 DEF GrowBook, TreeBook

\* A child that repeats no session of its path is descended into, when there is room.
LEMMA FreshIsWalked ==
  ASSUME ShapeBook, GrowBook, visited < MaxNodes, NEW n \in DOMAIN walks,
         NEW id \in SessionIDs, ~Seen(n, id), Append(n, id) \in tree
  PROVE  Append(n, id) \in DOMAIN walks
<1>1. SUFFICES ASSUME Append(n, id) \in repeated PROVE FALSE
  BY DEF GrowBook, MarkBook
<1>2. PICK p \in DOMAIN walks : \E s \in ancestors(p) : Append(n, id) = Append(p, s)
  BY <1>1, Zenon DEF GrowBook, MarkBook
<1>3. PICK s \in ancestors(p) : Append(n, id) = Append(p, s)
  BY <1>2
<1>4. n \in Seq(SessionIDs) /\ p \in Seq(SessionIDs)
  BY NodeFacts
<1>5. s \in SessionIDs
  BY <1>3, <1>4 DEF ancestors
<1>6. n = p /\ id = s
  BY <1>3, <1>4, <1>5, AppendInjective
<1> QED
  BY <1>3, <1>6 DEF Seen

LEMMA PathsAreTree ==
  ASSUME ShapeBook, GrowBook, \A n \in DOMAIN walks : walks[n].at = "done",
         failed = {}, visited < MaxNodes
  PROVE  Paths \subseteq tree
<1> SUFFICES ASSUME NEW m \in Paths PROVE m \in tree
  OBVIOUS
<1>1. PICK d \in 1..(MaxDepth + 1) : m \in [1..d -> SessionIDs]
  BY DEF Paths
<1>2. MaxDepth \in Nat \ {0} /\ RootID \in SessionIDs /\ d \in Nat /\ d >= 1
  BY TreeAssumption DEF ShapeBook, MaxDepth, RootID
<1>3. m \in Seq(SessionIDs) /\ Len(m) = d
  BY <1>1, <1>2
<1>4. /\ m[1] = RootID
      /\ \A i \in 1..(d - 1) : \E j \in 1..Len(Kids[m[i]]) : Kids[m[i]][j] = m[i + 1]
      /\ \A i, j \in 1..(d - 1) : m[i] = m[j] => i = j
  BY <1>3 DEF Paths
<1> DEFINE upto(k) == SubSeq(m, 1, k)
           In == {k \in Nat : k + 1 \in 1..d =>
                    upto(k + 1) \in tree /\ (k + 1 < d => upto(k + 1) \in DOMAIN walks)}
<1>5. \A k \in 1..d : /\ upto(k) \in Seq(SessionIDs) /\ Len(upto(k)) = k
                      /\ \A i \in 1..k : upto(k)[i] = m[i]
  BY <1>2, <1>3, SubSeqProperties
<1>6. 0 \in In
  <2>1. upto(1) = Root
    <3>1. upto(1) \in Seq(SessionIDs) /\ Len(upto(1)) = 1 /\ upto(1)[1] = RootID
      BY <1>2, <1>4, <1>5
    <3>2. Root \in Seq(SessionIDs) /\ Len(Root) = 1 /\ Root[1] = RootID
      BY <1>2 DEF Root
    <3> HIDE DEF upto
    <3> QED
      BY <3>1, <3>2, SeqEqual
  <2>2. Root \in tree /\ Root \in DOMAIN walks
    BY DEF GrowBook, TreeBook
  <2> HIDE DEF upto
  <2>3. 0 + 1 = 1
    OBVIOUS
  <2> QED
    BY <2>1, <2>2, <2>3
<1>7. ASSUME NEW k \in Nat, k \in In
      PROVE  k + 1 \in In
  <2>1. SUFFICES ASSUME k + 2 \in 1..d
                 PROVE  upto(k + 2) \in tree /\ (k + 2 < d => upto(k + 2) \in DOMAIN walks)
    <3>1. k + 1 \in Nat /\ (k + 1) + 1 = k + 2
      OBVIOUS
    <3> QED
      BY <2>1, <3>1
  <2> DEFINE n == upto(k + 1)
             id == m[k + 2]
  <2>2. k + 1 \in 1..(d - 1) /\ k + 1 \in 1..d /\ k + 1 < d
    BY <1>2, <2>1
  <2>3. n \in DOMAIN walks
    BY <1>7, <2>2
  <2>4. n \in Seq(SessionIDs) /\ Len(n) = k + 1 /\ \A i \in 1..(k + 1) : n[i] = m[i]
    BY <1>5, <2>2
  <2>5. ID(n) = m[k + 1] /\ Depth(n) = k
    BY <2>4 DEF ID, Depth
  <2>6. PICK j \in 1..Len(Below(n)) : Below(n)[j] = id
    <3>1. (k + 1) + 1 = k + 2
      OBVIOUS
    <3> QED
      BY <1>4, <2>2, <2>5, <3>1 DEF Below
  <2>7. Depth(n) < MaxDepth
    BY <1>2, <2>1, <2>5
  <2>8. id \in SessionIDs
    BY <1>1, <2>1
  <2> HIDE DEF n, id
  <2>9. Append(n, id) \in tree
    BY <2>3, <2>6, <2>7, AllPlaced
  <2>10. upto(k + 2) = Append(n, id)
    <3>1. /\ upto(k + 2) \in Seq(SessionIDs) /\ Len(upto(k + 2)) = k + 2
          /\ \A i \in 1..(k + 2) : upto(k + 2)[i] = m[i]
      BY <1>5, <2>1
    <3>2. /\ Append(n, id) \in Seq(SessionIDs) /\ Len(Append(n, id)) = k + 2
          /\ \A i \in 1..(k + 1) : Append(n, id)[i] = n[i]
          /\ Append(n, id)[k + 2] = id
      <4>1. Len(n) + 1 = k + 2
        BY <2>4
      <4> QED
        BY <2>4, <2>8, <4>1, AppendProperties
    <3>3. \A i \in 1..(k + 2) : upto(k + 2)[i] = Append(n, id)[i]
      <4> SUFFICES ASSUME NEW i \in 1..(k + 2) PROVE upto(k + 2)[i] = Append(n, id)[i]
        OBVIOUS
      <4>1. CASE i = k + 2
        BY <3>1, <3>2, <4>1 DEF id
      <4>2. CASE i # k + 2
        <5>1. i \in 1..(k + 1)
          BY <4>2
        <5> QED
          BY <2>4, <3>1, <3>2, <5>1
      <4> QED
        BY <4>1, <4>2
    <3> HIDE DEF upto
    <3> QED
      BY <3>1, <3>2, <3>3, SeqEqual
  <2>11. ASSUME k + 2 < d
         PROVE  Append(n, id) \in DOMAIN walks
    <3>1. k + 2 \in 1..(d - 1)
      BY <1>2, <2>1, <2>11
    <3>2. \A i \in 1..(k + 1) : n[i] # id
      <4> SUFFICES ASSUME NEW i \in 1..(k + 1), n[i] = id PROVE FALSE
        OBVIOUS
      <4>1. m[i] = m[k + 2] /\ i \in 1..(d - 1) /\ i # k + 2
        BY <1>2, <2>4, <3>1 DEF id
      <4> QED
        BY <1>4, <3>1, <4>1
    <3>3. ~Seen(n, id)
      BY <2>4, <3>2 DEF Seen, ancestors
    <3> QED
      BY <2>3, <2>8, <2>9, <3>3, FreshIsWalked
  <2> QED
    BY <2>9, <2>10, <2>11
<1> HIDE DEF In
<1>8. Nat \subseteq In
  BY <1>6, <1>7, SetInduction
<1>9. upto(d) \in tree
  <2>1. d - 1 \in In /\ (d - 1) + 1 = d /\ d \in 1..d
    BY <1>2, <1>8
  <2> QED
    BY <2>1 DEF In
<1>10. upto(d) = m
  BY <1>3, SubSeqFull
<1> QED
  BY <1>9, <1>10

LEMMA BooksShape == WalkBook /\ GrowBook => ShapeIsTopology
<1> SUFFICES ASSUME WalkBook, GrowBook, returned, failed = {}, visited < MaxNodes
             PROVE  tree = Paths
  BY DEF ShapeIsTopology
<1>1. \A n \in DOMAIN walks : walks[n].at = "done"
  BY DEF WalkBook, CountBook, Running
<1> QED
  BY <1>1, TreeIsPaths, PathsAreTree DEF WalkBook

LEMMA BooksHold == Spec => [](WalkBook /\ GrowBook)
<1>1. Init => WalkBook /\ GrowBook
  BY InitBook, InitGrows
<1>2. (WalkBook /\ GrowBook) /\ [Next]_vars => (WalkBook /\ GrowBook)'
  BY NextBook, NextGrows
<1> QED
  BY <1>1, <1>2, PTL DEF Spec

\* Whatever order the listings come back in, a tree walked whole is the server's: every
\* path from the root that repeats no session, down to the cap, and each path's first
\* repetition as a leaf (walk, the set of ancestors per path).
THEOREM ShapeHolds == Spec => []ShapeIsTopology
  BY BooksHold, BooksShape, PTL

-----------------------------------------------------------------------------
(* The sessions below the root. *)

LEMMA ChildrenAre ==
  ASSUME NEW S
  PROVE  /\ \A s \in S : \A i \in 1..Len(Kids[s]) : Kids[s][i] \in Children(S)
         /\ \A x \in Children(S) : \E s \in S : \E i \in 1..Len(Kids[s]) : x = Kids[s][i]
BY DEF Children

LEMMA ChildrenType ==
  ASSUME ShapeBook, NEW S, S \subseteq SessionIDs
  PROVE  Children(S) \subseteq SessionIDs
<1> SUFFICES ASSUME NEW x \in Children(S) PROVE x \in SessionIDs
  OBVIOUS
<1>1. PICK s \in S : \E i \in 1..Len(Kids[s]) : x = Kids[s][i]
  BY ChildrenAre
<1>2. Kids[s] \in Seq(SessionIDs)
  BY WorldFacts
<1> QED
  BY <1>1, <1>2

LEMMA ChildrenGrow ==
  ASSUME NEW S, NEW T, S \subseteq T
  PROVE  Children(S) \subseteq Children(T)
BY DEF Children

\* The recursion of Reach, unfolded.
LEMMA ReachRuns ==
  ASSUME ShapeBook, NEW n \in Nat, n = Cardinality(SessionIDs)
  PROVE  /\ Reach[0] = Children({RootID})
         /\ \A k \in 1..n : Reach[k] = Reach[k - 1] \union Children(Reach[k - 1])
<1> DEFINE D == SUBSET SessionIDs
           base == Children({RootID})
           step == [p \in D \X (1..n) |-> p[1] \union Children(p[1])]
           Eq(f) == f = [k \in 0..n |->
                          IF k = 0 THEN Children({RootID}) ELSE f[k - 1] \union Children(f[k - 1])]
<1>1. base \in D
  BY WorldFacts, ChildrenType
<1>2. step \in [D \X (1..n) -> D]
  <2>1. \A S \in D : S \union Children(S) \in D
    BY ChildrenType
  <2> QED
    BY <2>1
<1>3. PICK h : IsLoop(h, n, D, base, step)
  <2> HIDE DEF D, base, step
  <2> QED
    BY <1>1, <1>2, Iteration
<1>4. Eq(h)
  <2>1. h \in [0..n -> D] /\ h[0] = base
    BY <1>3 DEF IsLoop
  <2>2. ASSUME NEW k \in 0..n
        PROVE  h[k] = IF k = 0 THEN base ELSE h[k - 1] \union Children(h[k - 1])
    <3>1. CASE k = 0
      BY <2>1, <3>1
    <3>2. CASE k # 0
      <4>1. k \in 1..n /\ k - 1 \in 0..n
        BY <3>2
      <4>2. h[k] = step[<<h[k - 1], k>>] /\ h[k - 1] \in D
        BY <1>3, <2>1, <4>1 DEF IsLoop
      <4>3. step[<<h[k - 1], k>>] = h[k - 1] \union Children(h[k - 1])
        BY <4>1, <4>2
      <4> QED
        BY <3>2, <4>2, <4>3
    <3> QED
      BY <3>1, <3>2
  <2> HIDE DEF D
  <2> QED
    BY <2>1, <2>2
<1>5. Reach = CHOOSE f : Eq(f)
  BY DEF Reach
<1> HIDE DEF Eq
<1>6. Eq(Reach)
  BY <1>4, <1>5
<1>7. Reach = [k \in 0..n |->
                 IF k = 0 THEN Children({RootID}) ELSE Reach[k - 1] \union Children(Reach[k - 1])]
  BY <1>6 DEF Eq
<1>8. 0 \in 0..n /\ \A k \in 1..n : k \in 0..n /\ k # 0
  OBVIOUS
<1>9. Reach[0] = Children({RootID})
  BY <1>7, <1>8
<1>10. ASSUME NEW k \in 1..n
       PROVE  Reach[k] = Reach[k - 1] \union Children(Reach[k - 1])
  BY <1>7, <1>8
<1> QED
  BY <1>9, <1>10

LEMMA Sessions == ASSUME ShapeBook PROVE Cardinality(SessionIDs) \in Nat
BY SessionsAssumption, FS_CardinalityType

\* No session is reached but the children of sessions that are.
LEMMA ReachWithin ==
  ASSUME ShapeBook, NEW V, RootID \in V, Children(V) \subseteq V
  PROVE  Subtree \subseteq Children(V)
<1> DEFINE n == Cardinality(SessionIDs)
           In == {k \in 0..n : Reach[k] \subseteq Children(V)}
<1>1. n \in Nat
  BY Sessions
<1>2. /\ Reach[0] = Children({RootID})
      /\ \A k \in 1..n : Reach[k] = Reach[k - 1] \union Children(Reach[k - 1])
  BY <1>1, ReachRuns
<1> HIDE DEF n
<1>3. 0 \in In
  BY <1>1, <1>2, ChildrenGrow
<1>4. ASSUME NEW k \in 0..(n - 1), k \in In
      PROVE  k + 1 \in In
  <2>1. k + 1 \in 1..n /\ (k + 1) - 1 = k
    BY <1>1
  <2>2. Reach[k + 1] = Reach[k] \union Children(Reach[k])
    BY <1>2, <2>1
  <2>3. Reach[k] \subseteq Children(V) /\ Reach[k] \subseteq V
    BY <1>4
  <2>4. Children(Reach[k]) \subseteq Children(V)
    BY <2>3, ChildrenGrow
  <2> QED
    BY <2>1, <2>2, <2>3, <2>4
<1> HIDE DEF In
<1>5. 0..n \subseteq In
  BY <1>1, <1>3, <1>4, PrefixInduction
<1>6. n \in In
  BY <1>1, <1>5
<1> QED
  BY <1>6 DEF In, Subtree, n

LEMMA ReachGrows ==
  ASSUME ShapeBook, NEW k \in 0..Cardinality(SessionIDs)
  PROVE  Reach[k] \subseteq Subtree
<1> DEFINE n == Cardinality(SessionIDs)
           In == {i \in 0..n : i >= k => Reach[k] \subseteq Reach[i]}
<1>1. n \in Nat /\ k \in 0..n
  BY Sessions
<1>2. \A i \in 1..n : Reach[i] = Reach[i - 1] \union Children(Reach[i - 1])
  BY <1>1, ReachRuns
<1>3. Subtree = Reach[n]
  BY DEF Subtree
<1> HIDE DEF n
<1>4. 0 \in In
  BY <1>1
<1>5. ASSUME NEW i \in 0..(n - 1), i \in In
      PROVE  i + 1 \in In
  <2>1. i + 1 \in 1..n /\ (i + 1) - 1 = i
    BY <1>1
  <2>2. Reach[i] \subseteq Reach[i + 1]
    BY <1>2, <2>1
  <2>3. i + 1 >= k => i + 1 = k \/ i >= k
    BY <1>1
  <2> QED
    BY <1>5, <2>1, <2>2, <2>3
<1> HIDE DEF In
<1>6. 0..n \subseteq In
  BY <1>1, <1>4, <1>5, PrefixInduction
<1>7. n \in In /\ n >= k
  BY <1>1, <1>6
<1> QED
  BY <1>3, <1>7 DEF In

\* A path that repeats no session before its last is no longer than there are sessions.
LEMMA PathIsShort ==
  ASSUME ShapeBook, NEW m \in Paths
  PROVE  /\ m \in Seq(SessionIDs) /\ Len(m) \in Nat /\ Len(m) >= 1
         /\ Len(m) - 1 <= Cardinality(SessionIDs)
<1>1. PICK d \in 1..(MaxDepth + 1) : m \in [1..d -> SessionIDs]
  BY DEF Paths
<1>2. d \in Nat /\ d >= 1
  BY TreeAssumption DEF ShapeBook, MaxDepth
<1>3. m \in Seq(SessionIDs) /\ Len(m) = d
  BY <1>1, <1>2
<1>4. \A i, j \in 1..(d - 1) : m[i] = m[j] => i = j
  BY <1>3 DEF Paths
<1> DEFINE n == Cardinality(SessionIDs)
           f == [i \in 1..(d - 1) |-> m[i]]
<1>5. n \in Nat
  BY Sessions
<1>6. IsFiniteSet(1..(d - 1)) /\ Cardinality(1..(d - 1)) = d - 1
  BY <1>2, FS_Interval
<1>7. f \in [1..(d - 1) -> SessionIDs]
  <2>1. \A i \in 1..(d - 1) : i \in 1..d
    BY <1>2
  <2> QED
    BY <1>1, <2>1
<1>8. d - 1 <= n
  <2>1. SUFFICES ASSUME n < d - 1 PROVE FALSE
    BY <1>2, <1>5
  <2>2. \E x, y \in 1..(d - 1) : x # y /\ f[x] = f[y]
    <3> HIDE DEF f
    <3> QED
      BY <1>6, <1>7, <2>1, SessionsAssumption, FS_PigeonHole
  <2> QED
    BY <1>4, <2>2
<1> QED
  BY <1>2, <1>3, <1>8 DEF n

LEMMA PathEndsInSubtree ==
  ASSUME ShapeBook, NEW m \in Paths, Len(m) > 1
  PROVE  ID(m) \in Subtree
<1> DEFINE n == Cardinality(SessionIDs)
           e == Len(m) - 2
           In == {k \in 0..e : m[k + 2] \in Reach[k]}
<1>1. /\ Len(m) \in Nat /\ e \in Nat /\ n \in Nat /\ e <= n
  BY PathIsShort, Sessions
<1>2. /\ Reach[0] = Children({RootID})
      /\ \A k \in 1..n : Reach[k] = Reach[k - 1] \union Children(Reach[k - 1])
  BY <1>1, ReachRuns
<1>3. /\ m[1] = RootID
      /\ \A i \in 1..(Len(m) - 1) : \E j \in 1..Len(Kids[m[i]]) : Kids[m[i]][j] = m[i + 1]
  BY DEF Paths
<1> HIDE DEF n
<1>4. \A S : \A i \in 1..(Len(m) - 1) : m[i] \in S => m[i + 1] \in Children(S)
  BY <1>3, ChildrenAre
<1>5. 0 \in In
  <2>1. 1 \in 1..(Len(m) - 1) /\ 0 + 2 = 2 /\ 1 + 1 = 2
    BY <1>1
  <2>2. m[2] \in Children({RootID})
    BY <1>3, <1>4, <2>1
  <2> QED
    BY <1>1, <1>2, <2>1, <2>2
<1>6. ASSUME NEW k \in 0..(e - 1), k \in In
      PROVE  k + 1 \in In
  <2>1. /\ k + 1 \in 0..e /\ k + 1 \in 1..n /\ (k + 1) - 1 = k /\ k + 2 \in 1..(Len(m) - 1)
        /\ (k + 2) + 1 = (k + 1) + 2
    BY <1>1
  <2>2. m[k + 2] \in Reach[k]
    BY <1>6
  <2>3. m[(k + 1) + 2] \in Children(Reach[k])
    BY <1>4, <2>1, <2>2
  <2> QED
    BY <1>2, <2>1, <2>3
<1> HIDE DEF In
<1>7. 0..e \subseteq In
  BY <1>1, <1>5, <1>6, PrefixInduction
<1>8. m[Len(m)] \in Reach[e]
  <2>1. e \in In /\ e + 2 = Len(m)
    BY <1>1, <1>7
  <2> QED
    BY <2>1 DEF In
<1>9. e \in 0..n
  BY <1>1
<1> QED
  BY <1>8, <1>9, ReachGrows DEF ID, n

-----------------------------------------------------------------------------
(* What SubtreeBusy answers. *)

LEMMA SummaryTells ==
  ASSUME ShapeBook, NEW s \in SessionIDs
  PROVE  ChildSessionBusy(s) <=> s \in Working
<1>1. IF Summary[s].busy = Absent
      THEN s \in Working <=> Summary[s].status \notin TerminalStatuses \union {Absent}
      ELSE Summary[s].busy = (s \in Working)
  BY SummaryAssumption DEF ShapeBook, Summary, Working
<1>2. CASE Summary[s].busy = Absent
  BY <1>1, <1>2 DEF ChildSessionBusy
<1>3. CASE Summary[s].busy # Absent
  <2>1. Summary[s].busy = (s \in Working)
    BY <1>1, <1>3
  <2>2. ChildSessionBusy(s) = Summary[s].busy
    BY <1>3 DEF ChildSessionBusy
  <2> QED
    BY <2>1, <2>2, Zenon
<1> QED
  BY <1>2, <1>3

\* Nodes made below the root name sessions below the root.
LEMMA TreeIsBelow ==
  ASSUME ShapeBook, GrowBook, NEW m \in tree, Depth(m) > 0
  PROVE  ID(m) \in Subtree /\ ID(m) \in SessionIDs
<1>1. m \in Paths
  BY TreeIsPaths
<1>2. m \in Seq(SessionIDs) /\ Len(m) \in Nat /\ Len(m) > 1
  BY <1>1, PathIsShort DEF Depth
<1> QED
  BY <1>1, <1>2, PathEndsInSubtree DEF ID

\* When no mark hides anything, the nodes walked name every session there is below.
LEMMA WalkedIsClosed ==
  ASSUME ShapeBook, GrowBook, \A n \in DOMAIN walks : walks[n].at = "done",
         \A n \in tree : ~Hides(n)
  PROVE  \A x \in Children({ID(n) : n \in DOMAIN walks}) :
           /\ x \in {ID(n) : n \in DOMAIN walks}
           /\ \E m \in tree : Depth(m) > 0 /\ ID(m) = x
<1> DEFINE V == {ID(n) : n \in DOMAIN walks}
<1> SUFFICES ASSUME NEW x \in Children(V)
             PROVE  x \in V /\ \E m \in tree : Depth(m) > 0 /\ ID(m) = x
  OBVIOUS
<1>1. PICK s \in V : \E i \in 1..Len(Kids[s]) : x = Kids[s][i]
  <2> HIDE DEF V
  <2> QED
    BY ChildrenAre
<1>2. PICK n \in DOMAIN walks : s = ID(n)
  BY <1>1
<1>3. PICK i \in 1..Len(Below(n)) : x = Below(n)[i]
  BY <1>1, <1>2 DEF Below
<1>4. n \in Seq(SessionIDs) /\ n # <<>> /\ Below(n) \in Seq(SessionIDs)
  BY NodeFacts
<1>5. x \in SessionIDs
  BY <1>3, <1>4
<1>6. n \in tree /\ n \notin failed /\ n \notin truncated
  BY DEF GrowBook, TreeBook, Hides
<1>7. Append(n, x) \in tree
  BY <1>3, <1>6, AllPlaced
<1>8. ID(Append(n, x)) = x /\ Depth(Append(n, x)) > 0
  <2>1. ID(Append(n, x)) = x /\ Depth(Append(n, x)) = Len(n) /\ Len(n) >= 1 /\ Len(n) \in Nat
    BY <1>4, <1>5, ChildFacts DEF Depth
  <2> QED
    BY <2>1
<1>9. Append(n, x) \in DOMAIN walks \union repeated
  BY <1>7 DEF GrowBook, MarkBook, Hides
<1>10. x \in V
  <2>1. CASE Append(n, x) \in DOMAIN walks
    BY <1>8, <2>1
  <2>2. CASE Append(n, x) \in repeated
    <3>1. PICK p \in DOMAIN walks : \E id \in ancestors(p) : Append(n, x) = Append(p, id)
      BY <2>2, Zenon DEF GrowBook, MarkBook
    <3>2. PICK id \in ancestors(p) : Append(n, x) = Append(p, id)
      BY <3>1
    <3>3. p \in Seq(SessionIDs)
      BY NodeFacts
    <3>4. id \in SessionIDs
      BY <3>2, <3>3 DEF ancestors
    <3>5. x = id
      BY <1>4, <1>5, <3>2, <3>3, <3>4, AppendInjective
    <3>6. \E q \in DOMAIN walks : ID(q) = id
      BY <3>2 DEF GrowBook, PathBook
    <3> QED
      BY <3>5, <3>6
  <2> QED
    BY <1>9, <2>1, <2>2
<1> QED
  BY <1>7, <1>8, <1>10

LEMMA BooksBusy == WalkBook /\ GrowBook => BusyIsSound
<1> SUFFICES ASSUME WalkBook, GrowBook, returned
             PROVE  /\ busy => Subtree \intersect Working # {}
                    /\ complete /\ ~busy => Subtree \intersect Working = {}
                    /\ \A n \in tree \ (truncated \union repeated \union failed) :
                         \A i \in 1..Len(Below(n)) : Append(n, Below(n)[i]) \in tree
  BY DEF BusyIsSound
<1>1. ShapeBook /\ \A n \in DOMAIN walks : walks[n].at = "done"
  BY DEF WalkBook, CountBook, Running
<1>2. ASSUME busy
      PROVE  Subtree \intersect Working # {}
  <2>1. PICK n \in tree : Depth(n) > 0 /\ ChildSessionBusy(ID(n))
    BY <1>2 DEF busy
  <2>2. ID(n) \in Subtree /\ ID(n) \in SessionIDs
    BY <1>1, <2>1, TreeIsBelow
  <2>3. ID(n) \in Working
    BY <1>1, <2>1, <2>2, SummaryTells
  <2> QED
    BY <2>2, <2>3
<1>3. ASSUME complete, ~busy, NEW s \in Subtree, s \in Working
      PROVE  FALSE
  <2> DEFINE V == {ID(n) : n \in DOMAIN walks}
  <2>1. \A n \in tree : ~Hides(n)
    BY <1>3 DEF complete
  <2>2. \A x \in Children(V) : x \in V /\ \E m \in tree : Depth(m) > 0 /\ ID(m) = x
    BY <1>1, <2>1, WalkedIsClosed
  <2>3. RootID \in V
    <3>1. Root \in DOMAIN walks
      BY DEF GrowBook, TreeBook
    <3>2. ID(Root) = RootID
      BY DEF Root, ID
    <3> QED
      BY <3>1, <3>2
  <2> HIDE DEF V
  <2>4. s \in Children(V)
    BY <1>1, <1>3, <2>2, <2>3, ReachWithin
  <2>5. PICK m \in tree : Depth(m) > 0 /\ ID(m) = s
    BY <2>2, <2>4
  <2>6. s \in SessionIDs
    BY <1>1, <2>5, TreeIsBelow
  <2>7. ChildSessionBusy(ID(m))
    BY <1>1, <1>3, <2>5, <2>6, SummaryTells
  <2> QED
    BY <1>3, <2>5, <2>7 DEF busy
<1>4. ASSUME NEW n \in tree \ (truncated \union repeated \union failed),
             NEW i \in 1..Len(Below(n))
      PROVE  Append(n, Below(n)[i]) \in tree
  <2>1. n \in DOMAIN walks
    BY DEF GrowBook, MarkBook
  <2> QED
    BY <1>1, <2>1, AllPlaced
<1> QED
  BY <1>2, <1>3, <1>4

\* Whatever the walk ran into, a busy answer is true, an idle one that calls itself complete
\* is too, and a child is left out of the tree only below a mark (SubtreeBusy,
\* ChildSessionBusy, the marks of TreeNode).
THEOREM BusyHolds == Spec => []BusyIsSound
  BY BooksHold, BooksBusy, PTL
=============================================================================
