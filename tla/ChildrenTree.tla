---------------------------- MODULE ChildrenTree ----------------------------
(***************************************************************************)
(* Sessions.ChildrenTree and SubtreeBusy (tree.go): a session's subtree    *)
(* walked by one goroutine per admitted node, every request of which takes *)
(* a token, with a ceiling on nodes, a cap on depth and one set of         *)
(* ancestors per path; and the answer SubtreeBusy draws from the result.   *)
(*                                                                         *)
(* The sessions and their parenthood are the server's and stand still      *)
(* during a walk.  A node is the path of session ids that leads to it from *)
(* the root: its TreeNode in the code, and its ancestors set.  One listing *)
(* drained page by page is pageSeq, of which PageWalk is the model.        *)
(***************************************************************************)
EXTENDS Naturals, Sequences, FiniteSets

CONSTANTS
  SessionIDs,
  Absent,   (* A nil pointer.                                              *)
  Worlds    (* The trees walked, each with the options it is walked with.  *)

TerminalStatuses == {"completed", "failed", "cancelled"}

\* A server has finitely many sessions.
ASSUME SessionsAssumption == IsFiniteSet(SessionIDs)

(* A world: the session the walk is asked about; every session's children in *)
(* listing order, each once; the sessions that have work outstanding; what   *)
(* listings say of a session; TreeOptions with defaults applied; the most    *)
(* children of one page.                                                     *)
ASSUME TreeAssumption ==
  \A w \in Worlds :
    /\ w.root \in SessionIDs
    /\ w.kids \in [SessionIDs -> Seq(SessionIDs)]
    /\ \A s \in SessionIDs : \A i, j \in 1..Len(w.kids[s]) :
         w.kids[s][i] = w.kids[s][j] => i = j
    /\ w.working \subseteq SessionIDs
    /\ {w.depth, w.concurrency, w.nodes, w.page} \subseteq Nat \ {0}

\* The live flag is right when the server sends it; without it, the task status is.
ASSUME SummaryAssumption ==
  \A w \in Worlds : \A s \in SessionIDs :
    IF w.summary[s].busy = Absent
    THEN s \in w.working <=> w.summary[s].status \notin TerminalStatuses \union {Absent}
    ELSE w.summary[s].busy = (s \in w.working)

VARIABLES
  world,      (* The tree this walk is of.                                   *)
  tree,       (* The nodes made.                                             *)
  truncated, repeated, failed,   (* Those marked Truncated, Repeated, Err.   *)
  walks,      (* Per node descended into: where its goroutine is, how many   *)
              (* children it has listed and how many it has placed.          *)
  visited,    (* Nodes admitted, the root among them.                        *)
  tokens,     (* Tokens taken.                                               *)
  group,      (* The wait group.                                             *)
  firstErr,   (* The node whose failure was recorded first; <<>> before.     *)
  ctxDone,    (* The caller's context is done.                               *)
  returned    (* ChildrenTree has returned.                                  *)

marks  == <<truncated, repeated, failed>>
shared == <<visited, tokens, group, firstErr>>
vars   == <<world, tree, marks, walks, shared, ctxDone, returned>>

RootID      == world.root
Kids        == world.kids
Working     == world.working
Summary     == world.summary
MaxDepth    == world.depth
Concurrency == world.concurrency
MaxNodes    == world.nodes

Root == <<RootID>>
ID(n) == n[Len(n)]
Depth(n) == Len(n) - 1
Below(n) == Kids[ID(n)]
ancestors(n) == {n[i] : i \in 1..Len(n)}

Nodes == {n \in Seq(SessionIDs) : n # <<>>}
Walk  == [at : {"waiting", "fetching", "placing", "done"}, listed : Nat, placed : Nat]

NewWalk == [at |-> "waiting", listed |-> 0, placed |-> 0]

Init ==
  /\ world \in Worlds
  /\ tree = {Root}
  /\ truncated = {} /\ repeated = {} /\ failed = {}
  /\ walks = [n \in {Root} |-> NewWalk]
  /\ visited = 1
  /\ tokens = 0
  /\ group = 1
  /\ firstErr = <<>>
  /\ ctxDone = FALSE
  /\ returned = FALSE

-----------------------------------------------------------------------------
(* listChildren: every page behind the gate. *)

Goes(n, here, there) ==
  /\ n \in DOMAIN walks /\ walks[n].at = here
  /\ walks' = [walks EXCEPT ![n].at = there]

\* The gate of gateFetch; when the context is done as well, select takes either.
TakeToken(n) ==
  /\ Goes(n, "waiting", "fetching")
  /\ tokens < Concurrency
  /\ tokens' = tokens + 1
  /\ UNCHANGED <<tree, marks, visited, group, firstErr, ctxDone, returned>>

\* recordErr, and the node's own Err; what was listed before is dropped.
Fails(n) ==
  /\ failed' = failed \union {n}
  /\ firstErr' = IF firstErr = <<>> THEN n ELSE firstErr
  /\ group' = group - 1
  /\ UNCHANGED <<tree, truncated, repeated, visited, ctxDone, returned>>

GiveUpWaiting(n) ==
  /\ ctxDone
  /\ Goes(n, "waiting", "done")
  /\ Fails(n)
  /\ UNCHANGED tokens

\* The token is kept when the request fails.
BugFetchFails(n) ==
  /\ Goes(n, "fetching", "done")
  /\ Fails(n)
  /\ UNCHANGED tokens

FetchFails(n) ==
  /\ Goes(n, "fetching", "done")
  /\ tokens' = tokens - 1
  /\ Fails(n)

\* One page; the token is given back before the next is asked for.
FetchPage(n, k) ==
  /\ n \in DOMAIN walks /\ walks[n].at = "fetching"
  /\ walks[n].listed + k <= Len(Below(n))
  /\ k = 0 => Below(n) = <<>>
  /\ walks' = [walks EXCEPT ![n].listed = @ + k,
                 ![n].at = IF walks[n].listed + k = Len(Below(n)) THEN "placing" ELSE "waiting"]
  /\ tokens' = tokens - 1
  /\ UNCHANGED <<tree, marks, visited, group, firstErr, ctxDone, returned>>

-----------------------------------------------------------------------------
(* walk, once the children are listed. *)

Leave == group' = group - 1

\* The probe at the depth cap only tells whether there was more.
StopAtCap(n) ==
  /\ Depth(n) >= MaxDepth
  /\ Goes(n, "placing", "done")
  /\ truncated' = IF Below(n) # <<>> THEN truncated \union {n} ELSE truncated
  /\ Leave
  /\ UNCHANGED <<tree, repeated, failed, visited, tokens, firstErr, ctxDone, returned>>

\* One visited set for the whole walk, instead of one per path.
BugSeenAnywhere(n, id) == id \in {ID(m) : m \in DOMAIN walks}

Seen(n, id) == id \in ancestors(n)

\* The child's goroutine counts itself, once it runs.
BugSpawn(n, child) ==
  /\ walks' = [m \in DOMAIN walks \union {child} |->
                 IF m = n THEN [walks[n] EXCEPT !.placed = @ + 1]
                 ELSE IF m = child THEN NewWalk ELSE walks[m]]
  /\ UNCHANGED group

\* wg.Add, and the child's goroutine.
Spawn(n, child) ==
  /\ walks' = [m \in DOMAIN walks \union {child} |->
                 IF m = n THEN [walks[n] EXCEPT !.placed = @ + 1]
                 ELSE IF m = child THEN NewWalk ELSE walks[m]]
  /\ group' = group + 1

Full == visited >= MaxNodes

\* A child over the ceiling is left out without a mark.
BugRefuse(n, child) ==
  /\ walks' = [walks EXCEPT ![n].placed = @ + 1]
  /\ UNCHANGED <<marks, visited, group>>

\* admit has refused: the node is made and not descended into.
Refuse(n, child) ==
  /\ walks' = [walks EXCEPT ![n].placed = @ + 1]
  /\ truncated' = truncated \union {child}
  /\ UNCHANGED <<repeated, failed, visited, group>>

PlaceChild(n) ==
  /\ n \in DOMAIN walks /\ walks[n].at = "placing"
  /\ Depth(n) < MaxDepth
  /\ walks[n].placed < Len(Below(n))
  /\ LET id    == Below(n)[walks[n].placed + 1]
         child == Append(n, id)
     IN  /\ tree' = tree \union {child}
         /\ \/ /\ Seen(n, id)
               /\ walks' = [walks EXCEPT ![n].placed = @ + 1]
               /\ repeated' = repeated \union {child}
               /\ UNCHANGED <<truncated, failed, visited, group>>
            \/ /\ ~Seen(n, id) /\ Full
               /\ Refuse(n, child)
            \/ /\ ~Seen(n, id) /\ ~Full
               /\ visited' = visited + 1
               /\ Spawn(n, child)
               /\ UNCHANGED marks
  /\ UNCHANGED <<tokens, firstErr, ctxDone, returned>>

FinishNode(n) ==
  /\ Depth(n) < MaxDepth
  /\ Goes(n, "placing", "done")
  /\ walks[n].placed = Len(Below(n))
  /\ Leave
  /\ UNCHANGED <<tree, marks, visited, tokens, firstErr, ctxDone, returned>>

\* The root is walked on the caller's goroutine, which then waits for the group.
Return ==
  /\ ~returned
  /\ walks[Root].at = "done" /\ group = 0
  /\ returned' = TRUE
  /\ UNCHANGED <<tree, marks, walks, shared, ctxDone>>

CallerCancels ==
  /\ ~ctxDone /\ ~returned
  /\ ctxDone' = TRUE
  /\ UNCHANGED <<tree, marks, walks, shared, returned>>

Work ==
  /\ \/ \E n \in DOMAIN walks :
          \/ TakeToken(n) \/ GiveUpWaiting(n) \/ FetchFails(n)
          \/ \E k \in 0..world.page : FetchPage(n, k)
          \/ StopAtCap(n) \/ PlaceChild(n) \/ FinishNode(n)
     \/ Return
  /\ UNCHANGED world

Finished == returned /\ UNCHANGED vars

Next ==
  \/ Work
  \/ CallerCancels /\ UNCHANGED world
  \/ Finished

\* Goroutines run and requests come back.
Spec == Init /\ [][Next]_vars /\ WF_vars(Work)

-----------------------------------------------------------------------------
(* SubtreeBusy *)

ChildSessionBusy(s) ==
  IF Summary[s].busy # Absent THEN Summary[s].busy
  ELSE Summary[s].status \notin TerminalStatuses \union {Absent}

Hides(n) == n \in truncated \union failed

busy     == \E n \in tree : Depth(n) > 0 /\ ChildSessionBusy(ID(n))
complete == busy \/ ~(\E n \in tree : Hides(n))

-----------------------------------------------------------------------------
(***************************************************************************)
(* Properties.                                                             *)
(***************************************************************************)

\* The sessions below the root, by the server's own relation.
Children(S) == UNION {{Kids[s][i] : i \in 1..Len(Kids[s])} : s \in S}
Reach[k \in 0..Cardinality(SessionIDs)] ==
  IF k = 0 THEN Children({RootID}) ELSE Reach[k - 1] \union Children(Reach[k - 1])
Subtree == Reach[Cardinality(SessionIDs)]

\* A busy answer is true, and an idle one that claims to be complete is too: no
\* cycle, cap, ceiling, failure or cancellation hides work behind it, and what is left out
\* of the tree is left out below a mark (SubtreeBusy, the marks of TreeNode).
BusyIsSound ==
  returned =>
    /\ busy => Subtree \intersect Working # {}
    /\ complete /\ ~busy => Subtree \intersect Working = {}
    /\ \A n \in tree \ (truncated \union repeated \union failed) :
         \A i \in 1..Len(Below(n)) : Append(n, Below(n)[i]) \in tree

\* The paths of a whole tree: no session twice, but for a last one that repeats.
Paths ==
  {n \in UNION {[1..d -> SessionIDs] : d \in 1..(MaxDepth + 1)} :
     /\ n[1] = RootID
     /\ \A i \in 1..(Len(n) - 1) : \E j \in 1..Len(Kids[n[i]]) : Kids[n[i]][j] = n[i + 1]
     /\ \A i, j \in 1..(Len(n) - 1) : n[i] = n[j] => i = j}

\* The shape of a whole tree is the server's, whichever request came back first: a
\* session reachable in two ways is expanded under both (the set per path).
ShapeIsTopology ==
  returned /\ failed = {} /\ visited < MaxNodes => tree = Paths

\* The walk never has more requests in flight than its tokens, and returns with every
\* goroutine done, every token back and within its node ceiling, and with an error exactly
\* when a listing failed (wg, tokens, admit).
NothingOutlives ==
  /\ Cardinality({n \in DOMAIN walks : walks[n].at = "fetching"}) <= Concurrency
  /\ returned =>
       /\ \A n \in DOMAIN walks : walks[n].at = "done"
       /\ tokens = 0
       /\ Cardinality(DOMAIN walks) <= MaxNodes
       /\ firstErr = <<>> <=> failed = {}

\* A walk of a tree with cycles, whatever fails in it, comes to its end.
WalkReturns == <>returned

-----------------------------------------------------------------------------
(* The strengthening of NothingOutlives: every node walked but the root was  *)
(* placed by its parent, so none is walked twice; and visited, the tokens    *)
(* and the wait group count the nodes walked, fetching and not yet done.     *)

Fetching == {n \in DOMAIN walks : walks[n].at = "fetching"}
Running  == {n \in DOMAIN walks : walks[n].at # "done"}

ShapeBook ==
  /\ world \in Worlds
  /\ walks \in [DOMAIN walks -> Walk] /\ DOMAIN walks \subseteq Nodes
  /\ \A n \in DOMAIN walks : walks[n].placed <= Len(Below(n))
  /\ \A m \in DOMAIN walks \ {Root} : \E n \in DOMAIN walks :
       \E i \in 1..walks[n].placed : m = Append(n, Below(n)[i])

CountBook ==
  /\ IsFiniteSet(DOMAIN walks) /\ visited = Cardinality(DOMAIN walks)
  /\ visited <= MaxNodes
  /\ tokens = Cardinality(Fetching) /\ tokens <= Concurrency
  /\ group = Cardinality(Running)
  /\ returned => Running = {}

FailBook == firstErr = <<>> <=> failed = {}

WalkBook == ShapeBook /\ CountBook /\ FailBook

(* The strengthening of ShapeIsTopology and BusyIsSound: a node walked is a  *)
(* path from the root on which no session comes twice; the nodes made are    *)
(* the root and what the walks have placed; one that is not walked bears a   *)
(* mark that says why; and a walk that is done has placed every child, or    *)
(* its node bears a mark.                                                    *)

IsPath(n) ==
  /\ n[1] = RootID
  /\ \A i \in 1..(Len(n) - 1) : \E j \in 1..Len(Kids[n[i]]) : Kids[n[i]][j] = n[i + 1]
  /\ \A i, j \in 1..Len(n) : n[i] = n[j] => i = j

PathBook ==
  \A n \in DOMAIN walks :
    /\ IsPath(n)
    /\ \A id \in ancestors(n) : \E m \in DOMAIN walks : ID(m) = id
    /\ walks[n].placed > 0 => Depth(n) < MaxDepth

TreeBook ==
  /\ Root \in DOMAIN walks /\ DOMAIN walks \subseteq tree
  /\ \A n \in DOMAIN walks : \A i \in 1..walks[n].placed : Append(n, Below(n)[i]) \in tree
  /\ \A m \in tree \ {Root} : \E n \in DOMAIN walks :
       \E i \in 1..walks[n].placed : m = Append(n, Below(n)[i])

Settled(n) ==
  \/ n \in failed
  \/ Depth(n) >= MaxDepth /\ (Below(n) = <<>> \/ n \in truncated)
  \/ Depth(n) < MaxDepth /\ walks[n].placed = Len(Below(n))

MarkBook ==
  /\ tree \subseteq DOMAIN walks \union truncated \union repeated
  /\ visited < MaxNodes => tree \subseteq DOMAIN walks \union repeated
  /\ \A m \in repeated : \E n \in DOMAIN walks : \E id \in ancestors(n) : m = Append(n, id)
  /\ \A n \in DOMAIN walks : walks[n].at = "done" => Settled(n)

GrowBook == PathBook /\ TreeBook /\ MarkBook
=============================================================================
