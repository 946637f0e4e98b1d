------------------------------- MODULE Lookup -------------------------------
(***************************************************************************)
(* ResolveAgent and ResolveOnlineRunner (session.go): a name a person      *)
(* picked looked up in a walked listing, and a runner picked from one      *)
(* answer.  PageWalk is the walk; here the caller's loop is the code's.    *)
(***************************************************************************)
EXTENDS PageWalk, SequencesExt

CONSTANTS
  Agents,           (* The listings: row -> agent name.                      *)
  AgentNames,       (* What agents are called; "" is no name.                *)
  NameLength,       (* How much of an error each takes.                      *)
  maxNamesInError,  (* Bounds on the names a miss tells of: how many,        *)
  maxNamesRunes,    (* and how long in all.                                  *)
  Runners,          (* The answers about runners: sequences of RunnerInfo.   *)
  Harnesses,        (* The names of harnesses.                               *)
  Aliases           (* The functions for Canonicalize; nil is the identity.  *)

NoName == ""

\* What a server says of a runner.
RunnerInfo ==
  [id : STRING, online : BOOLEAN, reported : BOOLEAN, harnesses : SUBSET Harnesses]

ASSUME LookupAssumption ==
  /\ NoName \in AgentNames
  /\ Agents \subseteq [1..Rows -> AgentNames]
  /\ NameLength \in [AgentNames -> Nat]
  /\ maxNamesInError \in Nat /\ maxNamesRunes \in Nat
  /\ \A c \in Aliases : c \in [Harnesses -> Harnesses] /\ \A h \in Harnesses : c[c[h]] = c[h]
  /\ Runners \subseteq Seq(RunnerInfo)

VARIABLES
  agents,    (* The listing the server holds.                                *)
  wanted,    (* What is looked for: an agent's name, or a runner's harness.  *)
  verdict,   (* none, invalid, found, missing or failed.                     *)
  found,     (* The agent, by its row, or the runner, by its id.             *)
  told,      (* The names a miss tells of,                                   *)
  seenRunes, (* how long they are in all,                                    *)
  truncated, (* and whether some were left out.                              *)
  runners    (* The answer about runners.                                    *)

naming == <<told, seenRunes, truncated>>
lvars  == <<vars, agents, wanted, verdict, found, naming, runners>>
asking == <<agents, wanted>>

Questions ==
  [for : {"agent"}, name : AgentNames]
    \union [for : {"runner"}, harness : Harnesses \union {""}, canonicalize : Aliases]

LookupInit ==
  /\ Init
  /\ agents \in Agents /\ wanted \in Questions
  /\ verdict = "none" /\ found = 0
  /\ told = <<>> /\ seenRunes = 0 /\ truncated = FALSE
  /\ runners = <<>>

-----------------------------------------------------------------------------
(* ResolveAgent *)

Resolving == wanted.for = "agent" /\ wanted.name # NoName

\* No walk is begun.
RefuseName ==
  /\ verdict = "none" /\ wanted.for = "agent" /\ wanted.name = NoName
  /\ verdict' = "invalid"
  /\ UNCHANGED <<vars, asking, found, naming, runners>>

\* The name joins the miss's list while the list has room.
Note(name) ==
  IF Len(told) < maxNamesInError /\ seenRunes + NameLength[name] <= maxNamesRunes
  THEN told' = Append(told, name) /\ seenRunes' = seenRunes + NameLength[name] /\ UNCHANGED truncated
  ELSE truncated' = TRUE /\ UNCHANGED <<told, seenRunes>>

\* The caller's loop: the first agent of that name ends the walk.
LookAtAgent ==
  /\ Resolving /\ YieldRow
  /\ LET row == page.data[next + 1] IN
     IF agents[row] = wanted.name
     THEN pc' = "over" /\ verdict' = "found" /\ found' = row /\ UNCHANGED naming
     ELSE pc' = "yielding" /\ Note(agents[row]) /\ UNCHANGED <<verdict, found>>
  /\ UNCHANGED <<asking, runners>>

\* An error of the listing is taken for its end.
BugWalkOn ==
  /\ Resolving
  /\ RefuseUnbounded \/ Fetch \/ PageYielded \/ Complete \/ RefuseBroken \/ Follow
  /\ verdict' = IF outcome' = "none" THEN "none" ELSE "missing"
  /\ UNCHANGED <<asking, found, naming, runners>>

\* Every other step of the walk; an error it yields is the lookup's.
WalkOn ==
  /\ Resolving
  /\ RefuseUnbounded \/ Fetch \/ PageYielded \/ Complete \/ RefuseBroken \/ Follow
  /\ verdict' = CASE outcome' = "none"     -> "none"
                  [] outcome' = "complete" -> "missing"
                  [] OTHER                 -> "failed"
  /\ UNCHANGED <<asking, found, naming, runners>>

-----------------------------------------------------------------------------
(* ResolveOnlineRunner *)

Canonical(h) == wanted.canonicalize[h]

Wanted == IF wanted.harness = "" THEN {} ELSE {wanted.harness, Canonical(wanted.harness)}

Matches(r) == Wanted = {} \/ \E h \in r.harnesses : h \in Wanted \/ Canonical(h) \in Wanted

\* A runner that reports no list is taken where it stands.
BugBest(listing) ==
  LET Usable(r) == r.online /\ r.id # "" /\ (~r.reported \/ Matches(r))
      usable    == SelectSeq(listing, Usable)
  IN  IF usable # <<>> THEN Head(usable).id ELSE ""

\* One look at each runner: the first that advertises the harness is returned, and the
\* first that reports nothing is remembered.
Look(acc, r) ==
  CASE acc.chosen # "" \/ ~r.online \/ r.id = "" -> acc
    [] r.online /\ r.id # "" /\ acc.chosen = "" /\ ~r.reported ->
         IF acc.silent = "" THEN [acc EXCEPT !.silent = r.id] ELSE acc
    [] OTHER -> IF Matches(r) THEN [acc EXCEPT !.chosen = r.id] ELSE acc

Best(listing) ==
  LET all == FoldLeft(Look, [chosen |-> "", silent |-> ""], listing)
  IN  IF all.chosen # "" THEN all.chosen ELSE all.silent

\* One request, that fails or is answered.
ResolveRunner ==
  /\ verdict = "none" /\ wanted.for = "runner"
  /\ \/ runners' \in Runners /\ found' = Best(runners') /\ verdict' = "found"
     \/ verdict' = "failed" /\ UNCHANGED <<runners, found>>
  /\ UNCHANGED <<vars, asking, naming>>

LookupNext ==
  \/ RefuseName \/ LookAtAgent \/ WalkOn \/ ResolveRunner
  \/ verdict # "none" /\ UNCHANGED lvars

LookupSpec == LookupInit /\ [][LookupNext]_lvars

-----------------------------------------------------------------------------
(***************************************************************************)
(* Properties.                                                             *)
(***************************************************************************)

\* A name resolves to the first agent that has it, on whatever page, and to a miss only
\* when the whole listing was read and none has it: an agent that was not reached is
\* never reported absent.  A miss that leaves no name out tells of every agent, and its
\* list stays within its bounds (ResolveAgent, pageSeq's errors).
NameResolves ==
  /\ verdict = "found" /\ wanted.for = "agent" =>
       agents[found] = wanted.name /\ \A r \in 1..(found - 1) : agents[r] # wanted.name
  /\ verdict = "missing" =>
       /\ wanted.name \notin Range(agents)
       /\ ~truncated => told = agents
  /\ Len(told) <= maxNamesInError /\ seenRunes <= maxNamesRunes

Serves(r) == r.online /\ r.id # ""
Runs(r)   == r.reported /\ (wanted.harness # "" =>
                              \E h \in r.harnesses : Canonical(h) = Canonical(wanted.harness))

\* The runner found is online, and is one that says it runs the harness, under whichever
\* of its names either side wrote it, whenever there is such a runner; one that says
\* nothing is found only when none does, and none is found only when none could do
\* (ResolveOnlineRunner).
RunnerServes ==
  verdict = "found" /\ wanted.for = "runner" =>
    LET usable == {r \in Range(runners) : Serves(r)} IN
    IF \E r \in usable : Runs(r) THEN \E r \in usable : r.id = found /\ Runs(r)
    ELSE IF \E r \in usable : ~r.reported THEN \E r \in usable : r.id = found /\ ~r.reported
    ELSE found = ""
=============================================================================
