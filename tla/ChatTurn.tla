------------------------------ MODULE ChatTurn ------------------------------
(***************************************************************************)
(* One turn of a chat (chat.go): the goroutines that range over the Turn,  *)
(* the one that wins the claim and drives it, and what driving does: post  *)
(* the prompt once the subscription is live, then for every event track,   *)
(* yield, act and check for the end.                                       *)
(*                                                                         *)
(* The server and the caller's code are open here: Feed is what the stream *)
(* may carry, in any order and any number of times, and every hook, tool,  *)
(* post and range-loop body may succeed, fail, panic or stop.  A step is   *)
(* one call out of the package (a hook, a tool, a post, a yield) with the  *)
(* report of its failure, and the statements up to the next call.          *)
(***************************************************************************)
EXTENDS TurnTracker, Integers, FiniteSets

CONSTANTS
  Readers,       (* Goroutines ranging over the same Turn.                   *)
  Feed,          (* The events this instance's stream may carry.             *)
  MaxToolCalls,  (* ChatOptions.MaxToolCalls: 0 the default, < 0 no cap.     *)
  DefaultMaxToolCalls,
  MaxReads       (* Bound: the events one behaviour reads.                   *)

ASSUME ChatAssumption ==
  /\ Feed \subseteq Events
  /\ MaxToolCalls \in Int
  /\ DefaultMaxToolCalls \in Nat \ {0}
  /\ MaxReads \in Nat

VARIABLES
  reader,       (* Each goroutine: fresh, driving or refused.                *)
  claimed,      (* Turn.claimed                                              *)
  pc,           (* Where the driving goroutine is.                           *)
  event,        (* The event in hand; NoEvent before the first.              *)
  tracker,      (* turnRun.tracker                                           *)
  responseID,   (* turnRun.responseID                                        *)
  dispatched,   (* turnRun.dispatched                                        *)
  announced,    (* turnRun.announced                                         *)
  unfinishable, (* turnRun.unfinishable                                      *)
  stopped,      (* turnRun.stopped                                           *)
  toolErr,      (* runErr of the tool in hand.                               *)
  verdict       (* The verdict on the elicitation in hand.                   *)

(* What the outside saw: the caller's range loop and the server. *)
VARIABLES
  last,         (* The last thing yielded.                                   *)
  broke,        (* The range loop's body returned false.                     *)
  rangePanic,   (* yield was called again after that.                        *)
  reads,        (* How many events were read.                                *)
  posts,        (* How many times the prompt was posted.                     *)
  runs,         (* Per call, how many times its tool ran.                    *)
  answers,      (* Per call, how many outputs were posted for it.            *)
  consents,     (* Deliveries (the value of reads) the hook accepted.        *)
  verdicts,     (* The verdicts posted.                                      *)
  starts, ends  (* Per response, OnResponseStart and OnResponseEnd calls.    *)

caller == <<last, broke, rangePanic, stopped>>
turn   == <<tracker, responseID, dispatched, announced, unfinishable, toolErr, verdict>>
ghosts == <<reads, posts, runs, answers, consents, verdicts, starts, ends>>
readers == <<reader, claimed>>
vars   == <<readers, pc, event, turn, caller, ghosts>>

-----------------------------------------------------------------------------
PCs == {"unread", "subscribing", "reading", "yielding", "acting", "ending",
        "calling", "running", "ran", "answering", "resolving", "checking",
        "done"}

NoEvent == [kind |-> "none"]

Errors == {"stream error", "post failed", "input denied", "hook panicked",
           "call duplicated", "over budget", "tool failed", "turn incomplete"}
          \union Failures

\* The errors a turn cannot go on after.
Causes == Errors \ {"hook panicked", "call duplicated", "tool failed"}

Verdicts == [delivery : 1..MaxReads, prompt : Prompts, to : Sessions,
             action : {"accept", "decline"}]

\* How a post that reached for the server came back.
PostOutcomes == {"accepted", "denied", "failed"}

TypeOK ==
  /\ reader \in [Readers -> {"fresh", "driving", "refused"}]
  /\ claimed \in BOOLEAN
  /\ pc \in PCs
  /\ event \in Events \union {NoEvent}
  /\ tracker \in Trackers
  /\ responseID \in Responses \union {Blank}
  /\ dispatched \subseteq Calls
  /\ announced \subseteq Responses
  /\ unfinishable \in BOOLEAN
  /\ stopped \in BOOLEAN
  /\ toolErr \in BOOLEAN
  /\ verdict \in {"accept", "decline"}
  /\ last \in Errors \union {"nothing", "event"}
  /\ broke \in BOOLEAN
  /\ rangePanic \in BOOLEAN
  /\ reads \in 0..MaxReads
  /\ posts \in Nat
  /\ runs \in [Calls -> Nat]
  /\ answers \in [Calls -> Nat]
  /\ consents \subseteq 1..MaxReads
  /\ verdicts \subseteq Verdicts
  /\ starts \in [Responses -> Nat]
  /\ ends \in [Responses \union {Blank} -> Nat]

Init ==
  /\ reader = [r \in Readers |-> "fresh"]
  /\ claimed = FALSE
  /\ pc = "unread"
  /\ event = NoEvent
  /\ tracker \in {newTurnTracker(end) : end \in Ends}
  /\ responseID = Blank
  /\ dispatched = {}
  /\ announced = {}
  /\ unfinishable = FALSE
  /\ stopped = FALSE
  /\ toolErr = FALSE
  /\ verdict = "decline"
  /\ last = "nothing"
  /\ broke = FALSE
  /\ rangePanic = FALSE
  /\ reads = 0
  /\ posts = 0
  /\ runs = [c \in Calls |-> 0]
  /\ answers = [c \in Calls |-> 0]
  /\ consents = {}
  /\ verdicts = {}
  /\ starts = [r \in Responses |-> 0]
  /\ ends = [r \in Responses \union {Blank} |-> 0]

-----------------------------------------------------------------------------
(* The caller's side of a yield, and turnRun.emit in front of it. *)

\* The body of the caller's range loop.  Calling it once it has returned false
\* panics in the caller's goroutine.
RangeBody(x) ==
  /\ last' = x
  /\ rangePanic' = (rangePanic \/ broke)
  /\ broke' \in BOOLEAN

\* Yields whether or not the caller still reads.
BugEmitAlways(x) == RangeBody(x) /\ stopped' = broke'

emit(x) ==
  IF stopped
  THEN UNCHANGED caller
  ELSE RangeBody(x) /\ stopped' = broke'

\* A hook, nil or not, that returns or panics.
fire == UNCHANGED caller \/ emit("hook panicked")

At(here, there) == pc = here /\ pc' = there

-----------------------------------------------------------------------------
\* The claim is read before the lock is taken.
BugClaimUnlocked(r) ==
  /\ reader[r] = "fresh"
  /\ claimed' = TRUE
  /\ reader' = [reader EXCEPT ![r] = "driving"]
  /\ pc' = "subscribing"
  /\ UNCHANGED <<event, turn, caller, ghosts>>

(* Turn.Events: the first goroutine to claim the turn drives it. *)
Claim(r) ==
  /\ reader[r] = "fresh"
  /\ ~claimed
  /\ claimed' = TRUE
  /\ reader' = [reader EXCEPT ![r] = "driving"]
  /\ pc' = "subscribing"
  /\ UNCHANGED <<event, turn, caller, ghosts>>

\* ErrTurnAlreadyRead, yielded in the losing goroutine's own range loop.
Refuse(r) ==
  /\ reader[r] = "fresh"
  /\ claimed
  /\ reader' = [reader EXCEPT ![r] = "refused"]
  /\ UNCHANGED <<claimed, pc, event, turn, caller, ghosts>>

(* The stream: refused, broken off, or closed by the server. *)
StreamFails ==
  /\ pc \in {"subscribing", "reading"}
  /\ pc' = "done"
  /\ emit("stream error")
  /\ UNCHANGED <<readers, event, turn, ghosts>>

\* A stream that closes is taken for the end of the turn.
BugCloseQuietly ==
  /\ At("reading", "done")
  /\ UNCHANGED <<readers, event, turn, caller, ghosts>>

StreamCloses ==
  /\ At("reading", "done")
  /\ IF Ended(tracker) \/ stopped \/ unfinishable
     THEN UNCHANGED caller
     ELSE emit("turn incomplete")
  /\ UNCHANGED <<readers, event, turn, ghosts>>

(* The OnSubscribed hook of drive; identifier is anchorOf the acknowledgement. *)
PostPrompt(outcome, identifier) ==
  /\ pc = "subscribing"
  /\ posts' = posts + 1
  /\ \/ /\ outcome = "accepted"
        /\ tracker' = anchorOn(tracker, identifier)
        /\ pc' = "reading"
        /\ UNCHANGED caller
     \/ /\ outcome = "denied"
        /\ emit("input denied")
        /\ pc' = "done"
        /\ UNCHANGED tracker
     \/ /\ outcome = "failed"
        /\ emit("post failed")
        /\ pc' = "done"
        /\ UNCHANGED tracker
  /\ UNCHANGED <<readers, event, responseID, dispatched, announced,
                 unfinishable, toolErr, verdict, reads, runs, answers,
                 consents, verdicts, starts, ends>>

beginResponse(e) ==
  IF e.kind \in Announcing /\ e.response # Blank THEN e.response ELSE responseID

(* One event: track, then yield. *)
Receive(e) ==
  /\ At("reading", "yielding")
  /\ reads < MaxReads
  /\ reads' = reads + 1
  /\ event' = e
  /\ tracker' = Track(tracker, e)
  /\ responseID' = beginResponse(e)
  /\ UNCHANGED <<readers, dispatched, announced, unfinishable, toolErr, verdict,
                 caller, posts, runs, answers, consents, verdicts, starts, ends>>

YieldEvent ==
  /\ pc = "yielding"
  /\ emit("event")
  /\ pc' = IF stopped' THEN "done" ELSE "acting"
  /\ UNCHANGED <<readers, event, turn, ghosts>>

-----------------------------------------------------------------------------
(* turnRun.act, by the kind of event in hand. *)

ActOnNothing ==
  /\ At("acting", "checking")
  /\ event.kind \in {"input.consumed", "session.status", "session.superseded", "other"}
  /\ UNCHANGED <<readers, event, turn, caller, ghosts>>

ActOnObserved ==
  /\ At("acting", "checking")
  /\ event.kind \in Observed
  /\ fire
  /\ UNCHANGED <<readers, event, turn, ghosts>>

\* One start per announcing event.
BugAnnounceEvery(response) ==
  IF response = Blank
  THEN UNCHANGED <<announced, starts, caller>>
  ELSE /\ announced' = announced \union {response}
       /\ starts' = [starts EXCEPT ![response] = @ + 1]
       /\ fire

announceResponse(response) ==
  IF response = Blank \/ response \in announced
  THEN UNCHANGED <<announced, starts, caller>>
  ELSE /\ announced' = announced \union {response}
       /\ starts' = [starts EXCEPT ![response] = @ + 1]
       /\ fire

ActOnResponse ==
  /\ pc = "acting"
  /\ event.kind \in Announcing \union Terminals
  /\ announceResponse(event.response)
  /\ pc' = IF event.kind \in Terminals THEN "ending" ELSE "checking"
  /\ UNCHANGED <<readers, event, tracker, responseID, dispatched, unfinishable,
                 toolErr, verdict, reads, posts, runs, answers, consents,
                 verdicts, ends>>

\* The second half of endResponse.
EndResponse ==
  /\ At("ending", "checking")
  /\ ends' = [ends EXCEPT ![event.response] = @ + 1]
  /\ fire
  /\ UNCHANGED <<readers, event, turn, reads, posts, runs, answers, consents,
                 verdicts, starts>>

(* observeItem: the start hook first, whoever runs the call. *)
ActOnItem ==
  /\ pc = "acting"
  /\ event.kind = "output_item.done"
  /\ IF event.call = Blank
     THEN pc' = "checking" /\ UNCHANGED caller
     ELSE fire /\ pc' = IF event.awaiting THEN "calling" ELSE "checking"
  /\ UNCHANGED <<readers, event, turn, ghosts>>

toolBudget ==
  CASE MaxToolCalls = 0 -> DefaultMaxToolCalls
    [] MaxToolCalls < 0 -> 0
    [] OTHER            -> MaxToolCalls

BugSpentLate(calls) == toolBudget > 0 /\ Cardinality(calls) > toolBudget

Spent(calls) == toolBudget > 0 /\ Cardinality(calls) >= toolBudget

RefuseDuplicate ==
  /\ At("calling", "checking")
  /\ event.call \in dispatched
  /\ emit("call duplicated")
  /\ UNCHANGED <<readers, event, turn, ghosts>>

RefuseOverBudget ==
  /\ At("calling", "checking")
  /\ event.call \notin dispatched
  /\ Spent(dispatched)
  /\ emit("over budget")
  /\ unfinishable' = TRUE
  /\ UNCHANGED <<readers, event, tracker, responseID, dispatched, announced,
                 toolErr, verdict, ghosts>>

\* A call delivered again is run again.
BugDispatchAgain ==
  /\ At("calling", "running")
  /\ ~Spent(dispatched)
  /\ dispatched' = dispatched \union {event.call}
  /\ UNCHANGED <<readers, event, tracker, responseID, announced, unfinishable,
                 toolErr, verdict, caller, ghosts>>

Dispatch ==
  /\ At("calling", "running")
  /\ event.call \notin dispatched
  /\ ~Spent(dispatched)
  /\ dispatched' = dispatched \union {event.call}
  /\ UNCHANGED <<readers, event, tracker, responseID, announced, unfinishable,
                 toolErr, verdict, caller, ghosts>>

\* The tool's own code ran, or there is none.
Ran(how) ==
  /\ toolErr' = (how # "returned")
  /\ runs' = IF how = "unregistered" THEN runs ELSE [runs EXCEPT ![event.call] = @ + 1]

\* A tool that failed is reported and not answered.
BugRunAnswerSuccess ==
  /\ pc = "running"
  /\ \E how \in run(event.tool) : Ran(how)
  /\ pc' = IF toolErr' THEN "checking" ELSE "ran"
  /\ UNCHANGED <<readers, event, tracker, responseID, dispatched, announced,
                 unfinishable, verdict, caller, reads, posts, answers, consents,
                 verdicts, starts, ends>>

(* runTool: the tool, the end hook, the post. *)
RunTool ==
  /\ At("running", "ran")
  /\ \E how \in run(event.tool) : Ran(how)
  /\ UNCHANGED <<readers, event, tracker, responseID, dispatched, announced,
                 unfinishable, verdict, caller, reads, posts, answers, consents,
                 verdicts, starts, ends>>

\* A caller that stops while the end hook reports costs the server its answer.
BugToolEndedStops ==
  /\ pc = "ran"
  /\ fire
  /\ pc' = IF stopped' THEN "checking" ELSE "answering"
  /\ UNCHANGED <<readers, event, turn, ghosts>>

ToolEnded ==
  /\ At("ran", "answering")
  /\ fire
  /\ UNCHANGED <<readers, event, turn, ghosts>>

PostOutput(outcome) ==
  /\ At("answering", "checking")
  /\ answers' = [answers EXCEPT ![event.call] = @ + 1]
  /\ \/ outcome = "failed" /\ emit("post failed")
     \/ outcome = "denied" /\ emit("input denied")
     \/ outcome = "accepted" /\ toolErr /\ emit("tool failed")
     \/ outcome = "accepted" /\ ~toolErr /\ UNCHANGED caller
  /\ UNCHANGED <<readers, event, turn, reads, posts, runs, consents, verdicts,
                 starts, ends>>

\* The verdict is set before the hook runs, and a panic leaves it.
BugDecideAcceptFirst(decision) ==
  /\ At("acting", "resolving")
  /\ event.kind = "elicitation.request"
  /\ verdict' = IF decision = "decline" THEN "decline" ELSE "accept"
  /\ consents' = IF decision = "accept" THEN consents \union {reads} ELSE consents
  /\ IF decision = "panic" THEN emit("hook panicked") ELSE UNCHANGED caller
  /\ UNCHANGED <<readers, event, tracker, responseID, dispatched, announced,
                 unfinishable, toolErr, reads, posts, runs, answers, verdicts,
                 starts, ends>>

(* decideElicitation: no hook, a hook that answers, a hook that panics. *)
Decide(decision) ==
  /\ At("acting", "resolving")
  /\ event.kind = "elicitation.request"
  /\ \/ /\ decision = "accept"
        /\ verdict' = "accept"
        /\ consents' = consents \union {reads}
        /\ UNCHANGED caller
     \/ /\ decision = "decline"
        /\ verdict' = "decline"
        /\ UNCHANGED <<consents, caller>>
     \/ /\ decision = "panic"
        /\ verdict' = "decline"
        /\ emit("hook panicked")
        /\ UNCHANGED consents
  /\ UNCHANGED <<readers, event, tracker, responseID, dispatched, announced,
                 unfinishable, toolErr, reads, posts, runs, answers, verdicts,
                 starts, ends>>

elicitationTarget(e) ==
  IF e.target \in {Absent, Blank} THEN Session ELSE e.target

PostVerdict(outcome) ==
  /\ At("resolving", "checking")
  /\ verdicts' = verdicts \union
       {[delivery |-> reads, prompt |-> event.prompt,
         to |-> elicitationTarget(event), action |-> verdict]}
  /\ IF outcome = "failed" THEN emit("post failed") ELSE UNCHANGED caller
  /\ UNCHANGED <<readers, event, turn, reads, posts, runs, answers, consents,
                 starts, ends>>

(* The end of the loop body: a read that cannot go on, a turn that ended. *)
Check ==
  /\ pc = "checking"
  /\ IF stopped \/ unfinishable
     THEN pc' = "done" /\ UNCHANGED caller
     ELSE IF Ended(tracker)
     THEN /\ pc' = "done"
          /\ IF tracker.failure # "none" THEN emit(tracker.failure)
                                         ELSE UNCHANGED caller
     ELSE pc' = "reading" /\ UNCHANGED caller
  /\ UNCHANGED <<readers, event, turn, ghosts>>

-----------------------------------------------------------------------------
\* What the client does by itself, once a call it made has come back.
Step ==
  \/ YieldEvent \/ ActOnNothing \/ ActOnObserved \/ ActOnResponse \/ EndResponse
  \/ ActOnItem \/ RefuseDuplicate \/ RefuseOverBudget \/ Dispatch
  \/ RunTool \/ ToolEnded \/ Check

Post ==
  \/ \E i \in Items \union Pendings \union {Blank} : PostPrompt("accepted", i)
  \/ \E o \in {"denied", "failed"} : PostPrompt(o, Blank)
  \/ \E o \in PostOutcomes : PostOutput(o)
  \/ \E d \in {"accept", "decline", "panic"} : Decide(d)
  \/ \E o \in {"accepted", "failed"} : PostVerdict(o)

\* Every goroutine has left its range loop.
Finished ==
  /\ pc = "done"
  /\ \A r \in Readers : reader[r] # "fresh"
  /\ UNCHANGED vars

Next ==
  \/ \E r \in Readers : Claim(r) \/ Refuse(r)
  \/ Step
  \/ Post
  \/ \E e \in Feed : Receive(e)
  \/ StreamFails
  \/ StreamCloses
  \/ Finished

Spec == Init /\ [][Next]_vars

-----------------------------------------------------------------------------
(***************************************************************************)
(* Properties.                                                             *)
(***************************************************************************)

\* The event in hand is of the kind the driving goroutine is busy with.
Busy == {"yielding", "acting", "ending", "calling", "running", "ran",
         "answering", "resolving", "checking"}
AtCall == {"calling", "running", "ran", "answering"}

EventInHand ==
  /\ pc \in Busy => event \in Events /\ reads > 0
  /\ pc = "ending" => event.kind \in Terminals
  /\ pc \in AtCall => event.kind = "output_item.done" /\ event.call # Blank
  /\ pc = "resolving" => event.kind = "elicitation.request"

\* However many goroutines range over one Turn, and however the read goes, the
\* prompt is posted at most once (Turn.claim and the once-only OnSubscribed).
OnePrompt == posts <= 1

\* One authorisation runs a tool once: however often the wire delivers a call,
\* its tool runs at most once in a turn (turnRun.dispatched).
CallRunsOnce == \A c \in Calls : runs[c] <= 1

\* The server chooses the call ids; the budget still bounds how many tools one
\* prompt can make this client run (Chat.toolBudget).
RunsWithinBudget ==
  toolBudget > 0 => Cardinality({c \in Calls : runs[c] > 0}) <= toolBudget

\* No hook, tool, post or end of turn, and no failure of one, calls the range
\* loop's body after it has returned false (turnRun.emit).
NoYieldAfterBreak == ~rangePanic

\* The server parks the turn on a call, so a call this client took on is answered
\* exactly once before the drive goes on or returns: also when the tool failed or is
\* none it has, when its end hook panicked, and when the caller stopped reading
\* meanwhile; no tool ran for a call that is not answered, and one that was advertised
\* did run (runTool, ToolRegistry.run, Register).
RanIsAnswered ==
  /\ pc \notin {"running", "ran", "answering"} => \A c \in Calls :
       answers[c] = (IF c \in dispatched THEN 1 ELSE 0) /\ runs[c] <= answers[c]
  /\ pc = "ran" /\ event.tool \in Schemas => runs[event.call] = 1

\* An approval is accepted only when the hook accepted that very delivery, and
\* one delivery never gets two verdicts (resolveElicitation, decideElicitation).
AcceptNeedsConsent ==
  \A v \in verdicts :
    /\ v.action = "accept" <=> v.delivery \in consents
    /\ \A w \in verdicts : v.delivery = w.delivery => v = w

\* A turn ends one way.  An answered turn carries no failure, and the response of a
\* failed one is never taken for the answer; a caller who reads to the end of a turn that
\* has no answer is told why, and the cause is the last thing it reads: in particular no
\* stream that just closes is taken for a complete answer (turnTracker.id, Chat.drive).
EndsOneWay ==
  /\ tracker.id # Blank => tracker.failure = "none" /\ tracker.failedTurnID = Blank
  /\ pc = "done" /\ ~broke /\ tracker.id = Blank =>
       /\ last \in Causes
       /\ tracker.failure # "none" => last = tracker.failure

\* A caller that counts responses sees each start once, and no end of a named
\* response without its start, whichever of the announcing and terminal events
\* the stream carried (announceResponse, endResponse).
StartsBalanceEnds ==
  \A r \in Responses : starts[r] <= 1 /\ (ends[r] > 0 => starts[r] = 1)

-----------------------------------------------------------------------------
(* The strengthening of OnePrompt that every step preserves: the turn is     *)
(* driven from its one claim on, and has posted once it is past subscribing. *)

ClaimBook ==
  /\ pc = "unread" <=> ~claimed
  /\ posts \in {0, 1}
  /\ posts = 1 => pc \notin {"unread", "subscribing"}

(* The strengthening of CallRunsOnce, RunsWithinBudget and RanIsAnswered that *)
(* every step preserves: what dispatched says of runs and of answers.        *)

InHand(c, phases) == pc \in phases /\ event.call = c

CallBook ==
  /\ pc \in {"running", "ran", "answering"} => event.call \in dispatched
  /\ \A c \in Calls :
       /\ runs[c] <= IF c \in dispatched /\ ~InHand(c, {"running"}) THEN 1 ELSE 0
       /\ InHand(c, {"ran"}) /\ event.tool \in Names => runs[c] = 1
       /\ answers[c] = IF c \in dispatched /\ ~InHand(c, {"running", "ran", "answering"})
                       THEN 1 ELSE 0
  /\ IsFiniteSet(dispatched)
  /\ toolBudget > 0 => Cardinality(dispatched) <= toolBudget

(* The strengthening of NoYieldAfterBreak: stopped is what the drive knows of *)
(* the caller, and it is the truth.                                           *)

YieldBook == ~rangePanic /\ (stopped <=> broke)

(* The strengthening of AcceptNeedsConsent: neither a consent nor a verdict is *)
(* of a delivery that has not come to its own.                                 *)

Past == {"checking", "reading", "done"}

ConsentBook ==
  /\ \A d \in consents : d <= reads /\ (d = reads => pc \in Past \union {"resolving"})
  /\ pc = "resolving" => (verdict = "accept" <=> reads \in consents)
  /\ \A v \in verdicts : v.delivery <= reads /\ (v.delivery = reads => pc \in Past)
  /\ AcceptNeedsConsent

(* The strengthening of EndsOneWay: an event is only read while the turn has  *)
(* no end, so an end is never followed by another; a call is no end; and the  *)
(* cause of a read that cannot go on is the last thing told.                  *)

EndBook ==
  /\ tracker.id # Blank => tracker.failure = "none"
  /\ tracker.failure = "none" => tracker.failedTurnID = Blank
  /\ pc \in {"unread", "subscribing", "reading"} =>
       ~Ended(tracker) /\ ~unfinishable /\ ~stopped
  /\ pc \in Busy /\ event.kind = "output_item.done" => ~Ended(tracker)
  /\ unfinishable =>
       pc \in {"checking", "done"} /\ ~Ended(tracker) /\ (broke \/ last = "over budget")
  /\ pc = "done" /\ ~broke /\ tracker.id = Blank =>
       last \in Causes /\ (tracker.failure # "none" => last = tracker.failure)

(* The strengthening of StartsBalanceEnds: announced is the responses started. *)

StartBook ==
  /\ \A r \in Responses :
       /\ starts[r] = IF r \in announced THEN 1 ELSE 0
       /\ ends[r] > 0 => r \in announced
  /\ pc = "ending" => event.response \in announced \union {Blank}
=============================================================================
