-------------------------- MODULE ChatSession_proofs --------------------------
(***************************************************************************)
(* Proofs about ChatTurn and ChatSession, in three parts: what a turn does *)
(* once and within its budget, for every feed and number of goroutines;    *)
(* what its caller is told, and what becomes of approvals and start hooks; *)
(* and whose end a turn takes for its own, for every set of sessions,      *)
(* responses and disturbances.                                             *)
(***************************************************************************)
EXTENDS ChatSession, FiniteSetTheorems, TLAPS

-----------------------------------------------------------------------------
(* Which fields an event has follows from its kind. *)

LEMMA EventFields ==
  ASSUME NEW e \in Events
  PROVE  /\ e.kind = "input.consumed" => e \in InputConsumedEvents
         /\ e.kind = "session.status" => e \in StatusEvents
         /\ e.kind = "session.superseded" => e \in SupersededEvents
         /\ e.kind \in Announcing \union Terminals => e \in ResponseEvents
         /\ e.kind = "output_item.done" => e \in ItemEvents
         /\ e.kind = "elicitation.request" => e \in ElicitationEvents
BY DEF Events, InputConsumedEvents, StatusEvents, SupersededEvents, ResponseEvents,
       ItemEvents, ElicitationEvents, PlainEvents, Announcing, Terminals, Observed

(* Every method of the tracker returns a tracker. *)
LEMMA FailType ==
  ASSUME NEW t \in Trackers, NEW cause \in Failures
  PROVE  fail(t, cause) \in Trackers
BY DEF fail, Trackers

LEMMA TrackType ==
  ASSUME NEW t \in Trackers, NEW e \in Events
  PROVE  Track(t, e) \in Trackers
<1> USE TrackerAssumption
<1>1. CASE e.kind = "input.consumed"
  <2>1. e \in InputConsumedEvents
    BY <1>1, EventFields
  <2>2. crossBoundary(t, e) \in Trackers
    BY <2>1 DEF crossBoundary, Trackers, InputConsumedEvents
  <2> QED
    BY <1>1, <2>2 DEF Track, Terminals
<1>2. CASE e.kind = "session.status"
  <2>1. e \in StatusEvents
    BY <1>2, EventFields
  <2>2. observeIdleStatus(t, e) \in Trackers
    BY <2>1 DEF observeIdleStatus, Trackers, StatusEvents
  <2>3. ASSUME e.response # Absent
        PROVE  [t EXCEPT !.failedTurnID = e.response] \in Trackers
    BY <2>1, <2>3 DEF Trackers, StatusEvents
  <2>4. observeFailedStatus(t, e) \in Trackers
    BY <2>3, FailType DEF observeFailedStatus, Failures
  <2>5. observeStatus(t, e) \in Trackers
    BY <2>2, <2>4 DEF observeStatus
  <2> QED
    BY <1>2, <2>5 DEF Track, Terminals
<1>3. CASE e.kind = "session.superseded"
  <2>1. observeSuperseded(t, e) \in Trackers
    BY FailType DEF observeSuperseded, Failures
  <2> QED
    BY <1>3, <2>1 DEF Track, Terminals
<1>4. CASE e.kind \in Terminals
  <2>1. e.response \in Responses \union {Blank}
    BY <1>4, EventFields DEF ResponseEvents
  <2>2. [t EXCEPT !.failedTurnID = e.response] \in Trackers
    BY <2>1 DEF Trackers
  <2>3. observeResponseTerminal(t, e) \in Trackers
    BY <2>1, <2>2, FailType DEF observeResponseTerminal, Failures, Trackers
  <2> QED
    BY <1>4, <2>3 DEF Track, Terminals
<1> QED
  BY <1>1, <1>2, <1>3, <1>4 DEF Track

-----------------------------------------------------------------------------
(* Type correctness. *)

\* What a yield does to the four variables of the caller's side.
CallerTypeOK ==
  /\ last \in Errors \union {"nothing", "event"}
  /\ broke \in BOOLEAN
  /\ rangePanic \in BOOLEAN
  /\ stopped \in BOOLEAN

LEMMA EmitType ==
  ASSUME TypeOK, NEW x \in Errors \union {"event"}, emit(x)
  PROVE  CallerTypeOK'
BY DEF TypeOK, CallerTypeOK, emit, RangeBody, caller

LEMMA UnchangedCallerType ==
  ASSUME TypeOK, UNCHANGED caller
  PROVE  CallerTypeOK'
BY DEF TypeOK, CallerTypeOK, caller

LEMMA FireType ==
  ASSUME TypeOK, fire
  PROVE  CallerTypeOK'
BY EmitType, UnchangedCallerType DEF fire, Errors

LEMMA CallInHand ==
  ASSUME EventInHand, pc \in AtCall
  PROVE  event.call \in Calls
BY EventFields DEF EventInHand, AtCall, Busy, ItemEvents

LEMMA DeliveryInHand ==
  ASSUME TypeOK, EventInHand, pc \in Busy
  PROVE  reads \in 1..MaxReads
BY ChatAssumption DEF TypeOK, EventInHand

\* A tool call counts at most one run, and one for certain when the tool is registered.
LEMMA RunCounts ==
  ASSUME runs \in [Calls -> Nat], event.call \in Calls,
         NEW how \in run(event.tool), Ran(how)
  PROVE  /\ runs' \in [Calls -> Nat]
         /\ runs' \in {runs, [runs EXCEPT ![event.call] = @ + 1]}
         /\ event.tool \in Names => runs' = [runs EXCEPT ![event.call] = @ + 1]
<1>1. event.tool \in Names => how # "unregistered"
  BY DEF run
<1>2. runs' = IF how = "unregistered" THEN runs ELSE [runs EXCEPT ![event.call] = @ + 1]
  BY Zenon DEF Ran
<1> QED
  BY <1>1, <1>2

LEMMA TypeInit == Init => TypeOK
<1> USE TrackerAssumption, ChatAssumption
<1>1. ASSUME NEW end \in Ends PROVE newTurnTracker(end) \in Trackers
  BY DEF newTurnTracker, Trackers, Failures
<1>2. ASSUME Init
      PROVE  /\ runs \in [Calls -> Nat] /\ answers \in [Calls -> Nat]
             /\ starts \in [Responses -> Nat]
             /\ ends \in [Responses \union {Blank} -> Nat]
  BY <1>2 DEF Init
<1>3. ASSUME Init
      PROVE  /\ reads \in 0..MaxReads /\ posts \in Nat
             /\ consents \subseteq 1..MaxReads /\ verdicts \subseteq Verdicts
             /\ last \in Errors \union {"nothing", "event"}
             /\ reader \in [Readers -> {"fresh", "driving", "refused"}]
  BY <1>3 DEF Init
<1>4. ASSUME Init
      PROVE  tracker \in Trackers
  BY <1>1, <1>4 DEF Init
<1>5. ASSUME Init
      PROVE  /\ pc \in PCs /\ claimed \in BOOLEAN
             /\ broke \in BOOLEAN /\ rangePanic \in BOOLEAN /\ stopped \in BOOLEAN
  BY <1>5 DEF Init, PCs
<1> QED
  BY <1>2, <1>3, <1>4, <1>5 DEF Init, TypeOK

LEMMA TypeNext == TypeOK /\ EventInHand /\ [Next]_vars => TypeOK'
<1> SUFFICES ASSUME TypeOK, EventInHand, [Next]_vars
             PROVE  TypeOK'
  OBVIOUS
<1> USE TrackerAssumption, ChatAssumption
<1>1. ASSUME NEW r \in Readers, Claim(r)
      PROVE  TypeOK'
  BY <1>1 DEF TypeOK, Claim, PCs, turn, caller, ghosts
<1>2. ASSUME NEW r \in Readers, Refuse(r)
      PROVE  TypeOK'
  BY <1>2 DEF TypeOK, Refuse, turn, caller, ghosts
<1>3. CASE StreamFails
  <2>1. CallerTypeOK'
    BY <1>3, EmitType DEF StreamFails, Errors
  <2> QED
    BY <1>3, <2>1 DEF TypeOK, StreamFails, PCs, CallerTypeOK, readers, turn, ghosts
<1>4. CASE StreamCloses
  <2>1. CallerTypeOK'
    BY <1>4, EmitType, UnchangedCallerType DEF StreamCloses, Errors
  <2> QED
    BY <1>4, <2>1 DEF TypeOK, StreamCloses, At, PCs, CallerTypeOK, readers, turn, ghosts
<1>5. ASSUME NEW o \in PostOutcomes,
             NEW i \in Items \union Pendings \union {Blank}, PostPrompt(o, i)
      PROVE  TypeOK'
  <2>1. CallerTypeOK'
    BY <1>5, EmitType, UnchangedCallerType DEF PostPrompt, Errors
  <2>2. anchorOn(tracker, i) \in Trackers
    BY DEF TypeOK, anchorOn, Trackers
  <2>3. tracker' \in Trackers /\ pc' \in PCs
    BY <1>5, <2>2 DEF TypeOK, PostPrompt, PCs
  <2>4. posts' \in Nat
    <3>1. posts \in Nat
      BY DEF TypeOK
    <3>2. posts' = posts + 1
      BY <1>5 DEF PostPrompt
    <3> QED
      BY <3>1, <3>2
  <2> QED
    BY <1>5, <2>1, <2>3, <2>4 DEF TypeOK, PostPrompt, CallerTypeOK, readers
<1>6. ASSUME NEW e \in Feed, Receive(e)
      PROVE  TypeOK'
  <2>1. e \in Events
    OBVIOUS
  <2>2. tracker' \in Trackers
    BY <1>6, <2>1, TrackType DEF TypeOK, Receive
  <2>3. responseID' \in Responses \union {Blank}
    BY <1>6, <2>1, EventFields DEF TypeOK, Receive, beginResponse, ResponseEvents
  <2> QED
    BY <1>6, <2>1, <2>2, <2>3 DEF TypeOK, Receive, At, PCs, readers, caller
<1>7. CASE YieldEvent
  <2>1. CallerTypeOK'
    BY <1>7, EmitType DEF YieldEvent
  <2> QED
    BY <1>7, <2>1 DEF TypeOK, YieldEvent, PCs, CallerTypeOK, readers, turn, ghosts
<1>8. CASE ActOnNothing
  BY <1>8 DEF TypeOK, ActOnNothing, At, PCs, readers, turn, caller, ghosts
<1>9. CASE ActOnObserved
  <2>1. CallerTypeOK'
    BY <1>9, FireType DEF ActOnObserved
  <2> QED
    BY <1>9, <2>1 DEF TypeOK, ActOnObserved, At, PCs, CallerTypeOK, readers, turn, ghosts
<1>10. CASE ActOnResponse
  <2>1. event \in ResponseEvents
    BY <1>10, EventFields DEF EventInHand, Busy, ActOnResponse
  <2>2. CallerTypeOK'
    BY <1>10, FireType, UnchangedCallerType DEF ActOnResponse, announceResponse, caller
  <2>3. announced' \subseteq Responses /\ starts' \in [Responses -> Nat]
    BY <1>10, <2>1 DEF TypeOK, ActOnResponse, announceResponse, ResponseEvents
  <2> QED
    BY <1>10, <2>2, <2>3 DEF TypeOK, ActOnResponse, PCs, CallerTypeOK, readers
<1>11. CASE EndResponse
  <2>1. CallerTypeOK'
    BY <1>11, FireType DEF EndResponse
  <2>2. ends' \in [Responses \union {Blank} -> Nat]
    BY <1>11, EventFields DEF TypeOK, EventInHand, EndResponse, At, ResponseEvents, Busy
  <2> QED
    BY <1>11, <2>1, <2>2 DEF TypeOK, EndResponse, At, PCs, CallerTypeOK, readers, turn
<1>12. CASE ActOnItem
  <2>1. CallerTypeOK'
    BY <1>12, FireType, UnchangedCallerType DEF ActOnItem
  <2> QED
    BY <1>12, <2>1 DEF TypeOK, ActOnItem, PCs, CallerTypeOK, readers, turn, ghosts
<1>13. CASE RefuseDuplicate
  <2>1. CallerTypeOK'
    BY <1>13, EmitType DEF RefuseDuplicate, Errors
  <2> QED
    BY <1>13, <2>1 DEF TypeOK, RefuseDuplicate, At, PCs, CallerTypeOK, readers, turn, ghosts
<1>14. CASE RefuseOverBudget
  <2>1. CallerTypeOK'
    BY <1>14, EmitType DEF RefuseOverBudget, Errors
  <2> QED
    BY <1>14, <2>1 DEF TypeOK, RefuseOverBudget, At, PCs, CallerTypeOK, readers, ghosts
<1>15. CASE Dispatch
  <2>1. event.call \in Calls
    BY <1>15, CallInHand DEF Dispatch, At, AtCall
  <2> QED
    BY <1>15, <2>1 DEF TypeOK, Dispatch, At, PCs, readers, caller, ghosts
<1>16. CASE RunTool
  <2>1. event.call \in Calls
    BY <1>16, CallInHand DEF RunTool, At, AtCall
  <2>2. runs' \in [Calls -> Nat]
    BY <1>16, <2>1, RunCounts DEF TypeOK, RunTool
  <2>3. toolErr' \in BOOLEAN
    BY <1>16, Zenon DEF RunTool, Ran
  <2> QED
    BY <1>16, <2>2, <2>3 DEF TypeOK, RunTool, At, PCs, readers, caller
<1>17. CASE ToolEnded
  <2>1. CallerTypeOK'
    BY <1>17, FireType DEF ToolEnded
  <2> QED
    BY <1>17, <2>1 DEF TypeOK, ToolEnded, At, PCs, CallerTypeOK, readers, turn, ghosts
<1>18. ASSUME NEW o \in PostOutcomes, PostOutput(o)
       PROVE  TypeOK'
  <2>1. CallerTypeOK'
    BY <1>18, EmitType, UnchangedCallerType DEF PostOutput, PostOutcomes, Errors
  <2>2. event.call \in Calls
    BY <1>18, CallInHand DEF PostOutput, At, AtCall
  <2>3. answers' \in [Calls -> Nat]
    <3>1. answers \in [Calls -> Nat]
      BY DEF TypeOK
    <3>2. answers' = [answers EXCEPT ![event.call] = @ + 1]
      BY <1>18 DEF PostOutput
    <3> QED
      BY <2>2, <3>1, <3>2
  <2> QED
    BY <1>18, <2>1, <2>3 DEF TypeOK, PostOutput, At, PCs, CallerTypeOK, readers, turn
<1>19. ASSUME NEW d \in {"accept", "decline", "panic"}, Decide(d)
       PROVE  TypeOK'
  <2>1. CallerTypeOK'
    BY <1>19, EmitType, UnchangedCallerType DEF Decide, Errors
  <2>2. reads \in 1..MaxReads
    BY <1>19, DeliveryInHand DEF Decide, At, Busy
  <2>3. consents' \subseteq 1..MaxReads
    BY <1>19, <2>2 DEF TypeOK, Decide
  <2> QED
    BY <1>19, <2>1, <2>3 DEF TypeOK, Decide, At, PCs, CallerTypeOK, readers
<1>20. ASSUME NEW o \in PostOutcomes, PostVerdict(o)
       PROVE  TypeOK'
  <2>1. CallerTypeOK'
    BY <1>20, EmitType, UnchangedCallerType DEF PostVerdict, Errors
  <2>2. reads \in 1..MaxReads
    BY <1>20, DeliveryInHand DEF PostVerdict, At, Busy
  <2>2a. event \in ElicitationEvents
    BY <1>20, EventFields DEF EventInHand, Busy, PostVerdict, At
  <2>3. elicitationTarget(event) \in Sessions
    BY <2>2a, TrackerAssumption DEF elicitationTarget, ElicitationEvents
  <2> DEFINE v == [delivery |-> reads, prompt |-> event.prompt,
                   to |-> elicitationTarget(event), action |-> verdict]
  <2>3a. v \in Verdicts
    BY <2>2, <2>2a, <2>3 DEF TypeOK, Verdicts, ElicitationEvents
  <2>3b. verdicts' = verdicts \union {v}
    BY <1>20 DEF PostVerdict
  <2> HIDE DEF v
  <2>4. verdicts' \subseteq Verdicts
    BY <2>3a, <2>3b DEF TypeOK
  <2> QED
    BY <1>20, <2>1, <2>4 DEF TypeOK, PostVerdict, At, PCs, CallerTypeOK, readers, turn
<1>21. CASE Check
  <2>1. tracker.failure \in Failures \union {"none"}
    BY DEF TypeOK, Trackers
  <2>2. CallerTypeOK'
    BY <1>21, <2>1, EmitType, UnchangedCallerType DEF Check, Errors
  <2> QED
    BY <1>21, <2>2 DEF TypeOK, Check, PCs, CallerTypeOK, readers, turn, ghosts
<1>22. CASE UNCHANGED vars
  BY <1>22 DEF TypeOK, vars, readers, turn, caller, ghosts
<1> QED
  BY <1>1, <1>2, <1>3, <1>4, <1>5, <1>6, <1>7, <1>8, <1>9, <1>10, <1>11, <1>12,
     <1>13, <1>14, <1>15, <1>16, <1>17, <1>18, <1>19, <1>20, <1>21, <1>22
  DEF Next, Step, Post, PostOutcomes, Finished

-----------------------------------------------------------------------------
(* The event in hand. *)

\* Steps that leave the driving goroutine between events.
LEMMA EventIdle ==
  ASSUME pc' \in {"unread", "subscribing", "reading", "done"}
  PROVE  EventInHand'
BY DEF EventInHand, Busy, AtCall, Terminals

\* Steps that keep an event of any kind in hand.
LEMMA EventKept ==
  ASSUME EventInHand, pc \in Busy, UNCHANGED <<event, reads>>,
         pc' \in {"acting", "checking"}
  PROVE  EventInHand'
BY DEF EventInHand, Busy, AtCall

LEMMA EventNext == TypeOK /\ EventInHand /\ [Next]_vars => EventInHand'
<1> SUFFICES ASSUME TypeOK, EventInHand, [Next]_vars
             PROVE  EventInHand'
  OBVIOUS
<1> USE DEF At
<1>1. ASSUME NEW r \in Readers, Claim(r)
      PROVE  EventInHand'
  BY <1>1, EventIdle DEF Claim
<1>2. ASSUME NEW r \in Readers, Refuse(r)
      PROVE  EventInHand'
  BY <1>2 DEF Refuse, EventInHand, ghosts
<1>3. CASE StreamFails \/ StreamCloses
  BY <1>3, EventIdle DEF StreamFails, StreamCloses
<1>4. ASSUME NEW o \in PostOutcomes,
             NEW i \in Items \union Pendings \union {Blank}, PostPrompt(o, i)
      PROVE  EventInHand'
  <2>1. pc' \in {"reading", "done"}
    BY <1>4 DEF PostPrompt
  <2> QED
    BY <2>1, EventIdle
<1>5. ASSUME NEW e \in Feed, Receive(e)
      PROVE  EventInHand'
  <2>1. e \in Events
    BY ChatAssumption
  <2>2. reads' > 0
    BY <1>5, ChatAssumption DEF Receive, TypeOK
  <2> QED
    BY <1>5, <2>1, <2>2 DEF Receive, EventInHand, Busy, AtCall
<1>6. CASE YieldEvent
  BY <1>6, EventIdle, EventKept DEF YieldEvent, Busy, ghosts
<1>7. CASE ActOnNothing \/ ActOnObserved
  BY <1>7, EventKept DEF ActOnNothing, ActOnObserved, Busy, ghosts
<1>8. CASE ActOnResponse
  <2>1. UNCHANGED <<event, reads>>
    BY <1>8 DEF ActOnResponse
  <2>2. CASE event.kind \in Terminals
    BY <1>8, <2>1, <2>2 DEF ActOnResponse, EventInHand, Busy, AtCall
  <2>3. CASE event.kind \notin Terminals
    BY <1>8, <2>1, <2>3, EventKept DEF ActOnResponse, Busy
  <2> QED
    BY <2>2, <2>3
<1>9. CASE EndResponse
  BY <1>9, EventKept DEF EndResponse, Busy
<1>10. CASE ActOnItem
  <2>1. UNCHANGED <<event, reads>> /\ pc \in Busy
    BY <1>10 DEF ActOnItem, ghosts, Busy
  <2>2. CASE pc' = "checking"
    BY <2>1, <2>2, EventKept
  <2>3. CASE pc' = "calling"
    BY <1>10, <2>1, <2>3 DEF ActOnItem, EventInHand, Busy, AtCall
  <2> QED
    BY <1>10, <2>2, <2>3 DEF ActOnItem
<1>11. CASE RefuseDuplicate \/ RefuseOverBudget
  BY <1>11, EventKept DEF RefuseDuplicate, RefuseOverBudget, Busy, ghosts
<1>12. CASE Dispatch \/ RunTool \/ ToolEnded
  BY <1>12 DEF Dispatch, RunTool, ToolEnded, EventInHand, Busy, AtCall, ghosts
<1>13. ASSUME NEW o \in PostOutcomes, PostOutput(o)
       PROVE  EventInHand'
  BY <1>13, EventKept DEF PostOutput, Busy
<1>14. ASSUME NEW d \in {"accept", "decline", "panic"}, Decide(d)
       PROVE  EventInHand'
  BY <1>14 DEF Decide, EventInHand, Busy, AtCall
<1>15. ASSUME NEW o \in PostOutcomes, PostVerdict(o)
       PROVE  EventInHand'
  BY <1>15, EventKept DEF PostVerdict, Busy
<1>16. CASE Check
  BY <1>16, EventIdle DEF Check
<1>17. CASE UNCHANGED vars
  BY <1>17 DEF vars, ghosts, EventInHand
<1> QED
  BY <1>1, <1>2, <1>3, <1>4, <1>5, <1>6, <1>7, <1>8, <1>9, <1>10, <1>11, <1>12,
     <1>13, <1>14, <1>15, <1>16, <1>17
  DEF Next, Step, Post, PostOutcomes, Finished

\* Every variable of a turn keeps its type, whatever the server sends and however
\* hooks, tools, posts and range-loop bodies behave (the turnRun of chat.go).
THEOREM TypeCorrect == Spec => []TypeOK
<1>1. Init => EventInHand
  BY DEF Init, EventInHand, Busy, AtCall
<1> QED
  BY <1>1, TypeInit, TypeNext, EventNext, PTL DEF Spec

-----------------------------------------------------------------------------
(* One claim, one prompt. *)

LEMMA TypeAndEvent == Spec => [](TypeOK /\ EventInHand)
<1>1. Init => EventInHand
  BY DEF Init, EventInHand, Busy, AtCall
<1> QED
  BY <1>1, TypeInit, TypeNext, EventNext, PTL DEF Spec

\* Steps of a turn that is past its prompt, or does not post it.
LEMMA ClaimBookKept ==
  ASSUME ClaimBook, pc # "unread", UNCHANGED <<claimed, posts>>,
         pc' \notin {"unread", "subscribing"}
  PROVE  ClaimBook'
BY DEF ClaimBook

LEMMA ClaimBookNext == ClaimBook /\ [Next]_vars => ClaimBook'
<1> SUFFICES ASSUME ClaimBook, [Next]_vars
             PROVE  ClaimBook'
  OBVIOUS
<1> USE DEF At
<1>1. ASSUME NEW r \in Readers, Claim(r) \/ Refuse(r)
      PROVE  ClaimBook'
  BY <1>1 DEF Claim, Refuse, ClaimBook, ghosts
<1>2. CASE StreamFails \/ StreamCloses
  BY <1>2, ClaimBookKept DEF StreamFails, StreamCloses, readers, ghosts
<1>3. ASSUME NEW o \in PostOutcomes,
             NEW i \in Items \union Pendings \union {Blank}, PostPrompt(o, i)
      PROVE  ClaimBook'
  <2>1. posts = 0
    BY <1>3 DEF PostPrompt, ClaimBook
  <2>2a. posts' = posts + 1
    BY <1>3 DEF PostPrompt
  <2>2. posts' = 1
    BY <2>1, <2>2a
  <2>3. pc' \in {"reading", "done"} /\ pc # "unread"
    BY <1>3 DEF PostPrompt
  <2>4. pc' = "unread" <=> ~claimed'
    BY <1>3, <2>3 DEF PostPrompt, ClaimBook, readers
  <2> QED
    BY <2>2, <2>3, <2>4 DEF ClaimBook
<1>4. ASSUME NEW e \in Feed, Receive(e)
      PROVE  ClaimBook'
  BY <1>4, ClaimBookKept DEF Receive, readers
<1>5. CASE YieldEvent \/ ActOnNothing \/ ActOnObserved \/ ActOnItem
  BY <1>5, ClaimBookKept
  DEF YieldEvent, ActOnNothing, ActOnObserved, ActOnItem, readers, ghosts
<1>6. CASE ActOnResponse \/ EndResponse
  BY <1>6, ClaimBookKept DEF ActOnResponse, EndResponse, readers
<1>7. CASE RefuseDuplicate \/ RefuseOverBudget \/ Dispatch
  BY <1>7, ClaimBookKept DEF RefuseDuplicate, RefuseOverBudget, Dispatch, readers, ghosts
<1>8. CASE RunTool \/ ToolEnded \/ Check
  BY <1>8, ClaimBookKept DEF RunTool, ToolEnded, Check, readers, ghosts
<1>9. ASSUME NEW o \in PostOutcomes, PostOutput(o) \/ PostVerdict(o)
      PROVE  ClaimBook'
  BY <1>9, ClaimBookKept DEF PostOutput, PostVerdict, readers
<1>10. ASSUME NEW d \in {"accept", "decline", "panic"}, Decide(d)
       PROVE  ClaimBook'
  BY <1>10, ClaimBookKept DEF Decide, readers
<1>11. CASE UNCHANGED vars
  BY <1>11 DEF vars, readers, ghosts, ClaimBook
<1> QED
  BY <1>1, <1>2, <1>3, <1>4, <1>5, <1>6, <1>7, <1>8, <1>9, <1>10, <1>11
  DEF Next, Step, Post, PostOutcomes, Finished

LEMMA ClaimBookAlways == Spec => []ClaimBook
<1>1. Init => ClaimBook
  <2> SUFFICES ASSUME Init
               PROVE  ClaimBook
    OBVIOUS
  <2>1. pc = "unread" /\ posts = 0
    BY DEF Init
  <2>2. ~claimed
    BY Zenon DEF Init
  <2>3. pc = "unread" <=> ~claimed
    BY <2>1, <2>2, Zenon
  <2>4. posts \in {0, 1} /\ (posts = 1 => pc \notin {"unread", "subscribing"})
    BY <2>1
  <2> QED
    BY <2>3, <2>4, Zenon DEF ClaimBook
<1> QED
  BY <1>1, ClaimBookNext, PTL DEF Spec

\* However many goroutines range over one Turn, its prompt is posted at most once
\* (Turn.claim, and the OnSubscribed hook of Chat.drive).
THEOREM OnePromptHolds == Spec => []OnePrompt
<1>1. ClaimBook => OnePrompt
  BY DEF ClaimBook, OnePrompt
<1> QED
  BY <1>1, ClaimBookAlways, PTL

-----------------------------------------------------------------------------
(* What dispatched says of the tools that ran and the outputs posted. *)

Owing == {"running", "ran", "answering"}

\* Steps that run no tool and post no output.
LEMMA CallBookKept ==
  ASSUME CallBook, UNCHANGED <<dispatched, runs, answers>>,
         pc \notin Owing, pc' \notin Owing
  PROVE  CallBook'
BY DEF CallBook, InHand, Owing, toolBudget

LEMMA DispatchBook ==
  ASSUME TypeOK, EventInHand, CallBook, Dispatch
  PROVE  CallBook'
<1> USE ChatAssumption DEF At
<1>1. event.call \in Calls /\ event.call \notin dispatched
  BY CallInHand DEF Dispatch, AtCall
<1>2. dispatched' = dispatched \union {event.call} /\ pc = "calling" /\ pc' = "running"
  BY DEF Dispatch
<1>3. UNCHANGED <<event, runs, answers>>
  BY DEF Dispatch, ghosts
<1>4. IsFiniteSet(dispatched')
  BY <1>2, FS_AddElement DEF CallBook
<1>5. toolBudget > 0 => Cardinality(dispatched') <= toolBudget
  <2>1. Cardinality(dispatched') = Cardinality(dispatched) + 1
    BY <1>1, <1>2, FS_AddElement DEF CallBook
  <2>2. Cardinality(dispatched) \in Nat
    BY FS_CardinalityType DEF CallBook
  <2>3. toolBudget \in Int
    BY DEF toolBudget
  <2>4. toolBudget > 0 => Cardinality(dispatched) < toolBudget
    BY <2>2, <2>3 DEF Dispatch, Spent
  <2> QED
    BY <2>1, <2>2, <2>3, <2>4
<1>6. ASSUME NEW c \in Calls
      PROVE  /\ runs'[c] <= IF c \in dispatched' /\ ~InHand(c, {"running"})' THEN 1 ELSE 0
             /\ answers'[c] = IF c \in dispatched' /\ ~InHand(c, Owing)' THEN 1 ELSE 0
  BY <1>1, <1>2, <1>3 DEF CallBook, InHand, Owing, TypeOK
<1> QED
  BY <1>2, <1>3, <1>4, <1>5, <1>6 DEF CallBook, InHand, Owing, toolBudget

LEMMA RunToolBook ==
  ASSUME TypeOK, EventInHand, CallBook, RunTool
  PROVE  CallBook'
<1>1. event.call \in Calls
  BY CallInHand DEF RunTool, At, AtCall
<1>2. runs \in [Calls -> Nat]
  BY DEF TypeOK
<1>3. /\ runs' \in {runs, [runs EXCEPT ![event.call] = @ + 1]}
      /\ event.tool \in Names => runs' = [runs EXCEPT ![event.call] = @ + 1]
  BY <1>1, <1>2, RunCounts DEF RunTool
<1>4. UNCHANGED <<event, dispatched, answers>> /\ pc = "running" /\ pc' = "ran"
  BY DEF RunTool, At
<1>5. runs[event.call] = 0 /\ event.call \in dispatched
  BY <1>1, <1>2, <1>4 DEF CallBook, InHand
<1>6. ASSUME NEW c \in Calls
      PROVE  /\ runs'[c] <= IF c \in dispatched' /\ ~InHand(c, {"running"})' THEN 1 ELSE 0
             /\ InHand(c, {"ran"})' /\ event'.tool \in Names => runs'[c] = 1
             /\ answers'[c] = IF c \in dispatched' /\ ~InHand(c, Owing)' THEN 1 ELSE 0
  BY <1>1, <1>2, <1>3, <1>4, <1>5 DEF CallBook, InHand, Owing
<1> QED
  BY <1>4, <1>5, <1>6 DEF CallBook, InHand, Owing, toolBudget

LEMMA PostOutputBook ==
  ASSUME TypeOK, EventInHand, CallBook, NEW o \in PostOutcomes, PostOutput(o)
  PROVE  CallBook'
<1>1. event.call \in Calls
  BY CallInHand DEF PostOutput, At, AtCall
<1>2. answers' = [answers EXCEPT ![event.call] = @ + 1] /\ answers \in [Calls -> Nat]
  BY DEF PostOutput, TypeOK
<1>3. UNCHANGED <<event, dispatched, runs>> /\ pc = "answering" /\ pc' = "checking"
  BY DEF PostOutput, At, turn
<1> QED
  BY <1>1, <1>2, <1>3 DEF CallBook, InHand, toolBudget

LEMMA CallBookNext ==
  TypeOK /\ EventInHand /\ ClaimBook /\ CallBook /\ [Next]_vars => CallBook'
<1> SUFFICES ASSUME TypeOK, EventInHand, ClaimBook, CallBook, [Next]_vars
             PROVE  CallBook'
  OBVIOUS
<1> USE DEF At
<1>1. ASSUME NEW r \in Readers, Claim(r) \/ Refuse(r)
      PROVE  CallBook'
  <2>1. CASE Claim(r)
    <3>1. pc \notin Owing
      BY <2>1 DEF Claim, ClaimBook, Owing
    <3> QED
      BY <2>1, <3>1, CallBookKept DEF Claim, Owing, turn, ghosts
  <2>2. CASE Refuse(r)
    BY <2>2 DEF Refuse, turn, ghosts, CallBook, InHand, toolBudget
  <2> QED
    BY <1>1, <2>1, <2>2
<1>2. CASE StreamFails \/ StreamCloses
  BY <1>2, CallBookKept DEF StreamFails, StreamCloses, Owing, turn, ghosts
<1>3. ASSUME NEW o \in PostOutcomes,
             NEW i \in Items \union Pendings \union {Blank}, PostPrompt(o, i)
      PROVE  CallBook'
  <2>1. pc \notin Owing /\ pc' \notin Owing
    BY <1>3 DEF PostPrompt, Owing
  <2> QED
    BY <1>3, <2>1, CallBookKept DEF PostPrompt
<1>4. ASSUME NEW e \in Feed, Receive(e)
      PROVE  CallBook'
  BY <1>4, CallBookKept DEF Receive, Owing
<1>5. CASE YieldEvent
  BY <1>5, CallBookKept DEF YieldEvent, Owing, turn, ghosts
<1>6. CASE ActOnNothing \/ ActOnObserved
  BY <1>6, CallBookKept DEF ActOnNothing, ActOnObserved, Owing, turn, ghosts
<1>7. CASE ActOnResponse \/ EndResponse
  BY <1>7, CallBookKept DEF ActOnResponse, EndResponse, Owing, turn
<1>8. CASE ActOnItem
  BY <1>8, CallBookKept DEF ActOnItem, Owing, turn, ghosts
<1>9. CASE RefuseDuplicate \/ RefuseOverBudget
  BY <1>9, CallBookKept DEF RefuseDuplicate, RefuseOverBudget, Owing, turn, ghosts
<1>10. CASE Dispatch
  BY <1>10, DispatchBook
<1>11. CASE RunTool
  BY <1>11, RunToolBook
<1>12. CASE ToolEnded
  BY <1>12 DEF ToolEnded, turn, ghosts, CallBook, InHand, toolBudget
<1>13. ASSUME NEW o \in PostOutcomes, PostOutput(o)
       PROVE  CallBook'
  BY <1>13, PostOutputBook
<1>14. ASSUME NEW d \in {"accept", "decline", "panic"}, Decide(d)
       PROVE  CallBook'
  BY <1>14, CallBookKept DEF Decide, Owing
<1>15. ASSUME NEW o \in PostOutcomes, PostVerdict(o)
       PROVE  CallBook'
  BY <1>15, CallBookKept DEF PostVerdict, Owing, turn
<1>16. CASE Check
  BY <1>16, CallBookKept DEF Check, Owing, turn, ghosts
<1>17. CASE UNCHANGED vars
  BY <1>17 DEF vars, turn, ghosts, CallBook, InHand, toolBudget
<1> QED
  BY <1>1, <1>2, <1>3, <1>4, <1>5, <1>6, <1>7, <1>8, <1>9, <1>10, <1>11, <1>12,
     <1>13, <1>14, <1>15, <1>16, <1>17
  DEF Next, Step, Post, PostOutcomes, Finished

LEMMA CallBookAlways == Spec => []CallBook
<1>1. Init => CallBook
  BY FS_EmptySet, ChatAssumption DEF Init, CallBook, InHand, toolBudget
<1> QED
  BY <1>1, CallBookNext, TypeAndEvent, ClaimBookAlways, PTL DEF Spec

\* However often the wire delivers a call, its tool runs at most once in a turn
\* (turnRun.dispatched, observeItem).
THEOREM CallRunsOnceHolds == Spec => []CallRunsOnce
<1>1. TypeOK /\ CallBook => CallRunsOnce
  BY DEF TypeOK, CallBook, CallRunsOnce
<1> QED
  BY <1>1, CallBookAlways, TypeAndEvent, PTL

\* A call this client took on is answered exactly once before the drive goes on or
\* returns, whatever the tool, the hooks and the caller did, and an advertised tool ran
\* for it (runTool, ToolRegistry.run).
THEOREM RanIsAnsweredHolds == Spec => []RanIsAnswered
<1>1. Schemas \subseteq Names
  BY DEF Schemas
<1>2. TypeOK /\ EventInHand /\ CallBook => RanIsAnswered
  <2> SUFFICES ASSUME TypeOK, EventInHand, CallBook
               PROVE  RanIsAnswered
    OBVIOUS
  <2>1. ASSUME pc \notin Owing, NEW c \in Calls
        PROVE  answers[c] = (IF c \in dispatched THEN 1 ELSE 0) /\ runs[c] <= answers[c]
    BY <2>1 DEF TypeOK, CallBook, InHand, Owing
  <2>2. ASSUME pc = "ran", event.tool \in Schemas
        PROVE  runs[event.call] = 1
    BY <1>1, <2>2, CallInHand DEF CallBook, InHand, AtCall
  <2> QED
    BY <2>1, <2>2 DEF RanIsAnswered, Owing
<1> QED
  BY <1>2, CallBookAlways, TypeAndEvent, PTL

\* One prompt makes this client run at most toolBudget different calls, whatever
\* call ids the server chooses (Chat.toolBudget, observeItem).
THEOREM RunsWithinBudgetHolds == Spec => []RunsWithinBudget
<1>1. TypeOK /\ CallBook => RunsWithinBudget
  <2> SUFFICES ASSUME TypeOK, CallBook, toolBudget > 0
               PROVE  Cardinality({c \in Calls : runs[c] > 0}) <= toolBudget
    BY DEF RunsWithinBudget
  <2> DEFINE WithRun == {c \in Calls : runs[c] > 0}
  <2>1. WithRun \subseteq dispatched
    BY DEF TypeOK, CallBook
  <2>2. IsFiniteSet(WithRun) /\ Cardinality(WithRun) <= Cardinality(dispatched)
    BY <2>1, FS_Subset DEF CallBook
  <2>3. /\ Cardinality(WithRun) \in Nat
        /\ Cardinality(dispatched) \in Nat
        /\ toolBudget \in Int
    BY <2>2, ChatAssumption, FS_CardinalityType DEF CallBook, toolBudget
  <2> HIDE DEF WithRun
  <2>4. Cardinality(dispatched) <= toolBudget
    BY DEF CallBook
  <2>5. Cardinality(WithRun) <= toolBudget
    BY <2>2, <2>3, <2>4
  <2> QED
    BY <2>5 DEF WithRun
<1> QED
  BY <1>1, CallBookAlways, TypeAndEvent, PTL

-----------------------------------------------------------------------------
(* Yields. *)

\* A step yields once at most.
LEMMA CallerMoves ==
  ASSUME [Next]_vars
  PROVE  UNCHANGED caller \/ \E x : emit(x)
<1>1. ASSUME fire
      PROVE  UNCHANGED caller \/ \E x : emit(x)
  BY <1>1, Zenon DEF fire
<1>2. ASSUME NEW r \in Readers, Claim(r) \/ Refuse(r)
      PROVE  UNCHANGED caller
  BY <1>2, Zenon DEF Claim, Refuse
<1>3. CASE StreamFails \/ StreamCloses
  BY <1>3, Zenon DEF StreamFails, StreamCloses
<1>4. ASSUME NEW o, NEW i, PostPrompt(o, i)
      PROVE  UNCHANGED caller \/ \E x : emit(x)
  BY <1>4, Zenon DEF PostPrompt
<1>5. ASSUME NEW e, Receive(e)
      PROVE  UNCHANGED caller
  BY <1>5, Zenon DEF Receive
<1>6. CASE YieldEvent \/ ActOnNothing
  BY <1>6, Zenon DEF YieldEvent, ActOnNothing
<1>7. CASE ActOnObserved \/ EndResponse \/ ToolEnded
  BY <1>1, <1>7, Zenon DEF ActOnObserved, EndResponse, ToolEnded
<1>8. CASE ActOnResponse
  BY <1>1, <1>8, Zenon DEF ActOnResponse, announceResponse
<1>9. CASE ActOnItem
  BY <1>1, <1>9, Zenon DEF ActOnItem
<1>10. CASE RefuseDuplicate \/ RefuseOverBudget \/ Dispatch \/ RunTool
  BY <1>10, Zenon DEF RefuseDuplicate, RefuseOverBudget, Dispatch, RunTool
<1>11. ASSUME NEW o, PostOutput(o) \/ PostVerdict(o)
       PROVE  UNCHANGED caller \/ \E x : emit(x)
  BY <1>11, Zenon DEF PostOutput, PostVerdict
<1>12. ASSUME NEW d, Decide(d)
       PROVE  UNCHANGED caller \/ \E x : emit(x)
  BY <1>12, Zenon DEF Decide
<1>13. CASE Check
  BY <1>13, Zenon DEF Check
<1>14. CASE UNCHANGED vars
  BY <1>14, Zenon DEF vars
<1> QED
  BY <1>2, <1>3, <1>4, <1>5, <1>6, <1>7, <1>8, <1>9, <1>10, <1>11, <1>12, <1>13, <1>14
  DEF Next, Step, Post, Finished

LEMMA YieldBookNext == YieldBook /\ [Next]_vars => YieldBook'
<1> SUFFICES ASSUME YieldBook, [Next]_vars
             PROVE  YieldBook'
  OBVIOUS
<1>1. CASE UNCHANGED caller
  BY <1>1, Zenon DEF YieldBook, caller
<1>2. ASSUME NEW x, emit(x)
      PROVE  YieldBook'
  <2>1. CASE stopped
    BY <1>1, <1>2, <2>1, Zenon DEF emit
  <2>2. CASE ~stopped
    <3>1. ~broke /\ ~rangePanic
      BY <2>2, Zenon DEF YieldBook
    <3>2. rangePanic' = (rangePanic \/ broke) /\ stopped' = broke'
      BY <1>2, <2>2, Zenon DEF emit, RangeBody
    <3> QED
      BY <3>1, <3>2, Zenon DEF YieldBook
  <2> QED
    BY <2>1, <2>2
<1> QED
  BY <1>1, <1>2, CallerMoves

LEMMA YieldBookAlways == Spec => []YieldBook
<1>1. Init => YieldBook
  BY Zenon DEF Init, YieldBook
<1> QED
  BY <1>1, YieldBookNext, PTL DEF Spec

\* Nothing calls the range loop's body after it has returned false (turnRun.emit).
THEOREM NoYieldAfterBreakHolds == Spec => []NoYieldAfterBreak
<1>1. YieldBook => NoYieldAfterBreak
  BY DEF YieldBook, NoYieldAfterBreak
<1> QED
  BY <1>1, YieldBookAlways, PTL

-----------------------------------------------------------------------------
(* Approvals. *)

\* Steps that decide and post nothing, and leave the drive on the same event or past it.
LEMMA ConsentBookKept ==
  ASSUME TypeOK, ConsentBook, UNCHANGED <<consents, verdicts>>,
         pc # "resolving", pc' # "resolving",
         \/ reads' = reads /\ (pc \in Past => pc' \in Past)
         \/ reads' = reads + 1
  PROVE  ConsentBook'
<1>1. reads \in Nat /\ consents \subseteq Nat /\ \A v \in verdicts : v.delivery \in Nat
  BY ChatAssumption DEF TypeOK, Verdicts
<1>2. ASSUME NEW d \in consents
      PROVE  d <= reads' /\ (d = reads' => pc' \in Past \union {"resolving"})
  <2>1. d \in Nat /\ d <= reads /\ (d = reads => pc \in Past)
    BY <1>1 DEF ConsentBook
  <2> QED
    BY <1>1, <2>1
<1>3. ASSUME NEW v \in verdicts
      PROVE  v.delivery <= reads' /\ (v.delivery = reads' => pc' \in Past)
  <2>1. v.delivery \in Nat /\ v.delivery <= reads /\ (v.delivery = reads => pc \in Past)
    BY <1>1 DEF ConsentBook
  <2> QED
    BY <1>1, <2>1
<1>4. AcceptNeedsConsent'
  BY DEF ConsentBook, AcceptNeedsConsent
<1> QED
  BY <1>2, <1>3, <1>4 DEF ConsentBook, Past

LEMMA DecideBook ==
  ASSUME TypeOK, ConsentBook, NEW d \in {"accept", "decline", "panic"}, Decide(d)
  PROVE  ConsentBook'
<1>1. pc = "acting" /\ pc' = "resolving" /\ UNCHANGED <<reads, verdicts>>
  BY DEF Decide, At
<1>2. \/ verdict' = "accept" /\ consents' = consents \union {reads}
      \/ verdict' = "decline" /\ consents' = consents
  BY DEF Decide
<1>3. reads \notin consents /\ \A v \in verdicts : v.delivery # reads
  BY <1>1 DEF ConsentBook, Past
<1>4. reads \in Nat
  BY ChatAssumption DEF TypeOK
<1>5. ASSUME NEW c \in consents'
      PROVE  c <= reads
  <2>1. c \in consents \/ c = reads
    BY <1>2
  <2>2. \A b \in consents : b <= reads
    BY DEF ConsentBook
  <2>3. reads <= reads
    BY <1>4
  <2> QED
    BY <2>1, <2>2, <2>3, Zenon
<1>6. verdict' = "accept" <=> reads \in consents'
  BY <1>2, <1>3
<1>7. \A v \in verdicts : v.delivery \in consents' <=> v.delivery \in consents
  BY <1>2, <1>3
<1> QED
  BY <1>1, <1>3, <1>5, <1>6, <1>7 DEF ConsentBook, AcceptNeedsConsent, Past

LEMMA PostVerdictBook ==
  ASSUME TypeOK, ConsentBook, NEW o, PostVerdict(o)
  PROVE  ConsentBook'
<1> DEFINE w == [delivery |-> reads, prompt |-> event.prompt,
                 to |-> elicitationTarget(event), action |-> verdict]
<1>1. pc = "resolving" /\ pc' = "checking" /\ UNCHANGED <<reads, consents>>
  BY DEF PostVerdict, At
<1>2. verdicts' = verdicts \union {w}
  BY DEF PostVerdict
<1>3. w.delivery = reads /\ w.action = verdict
  OBVIOUS
<1> HIDE DEF w
<1>4. \A v \in verdicts : v.delivery # reads
  BY <1>1 DEF ConsentBook, Past
<1>5. reads \in Nat
  BY ChatAssumption DEF TypeOK
<1>6. w.action = "accept" <=> w.delivery \in consents
  BY <1>1, <1>3 DEF ConsentBook
<1>7. AcceptNeedsConsent'
  BY <1>1, <1>2, <1>3, <1>4, <1>6 DEF ConsentBook, AcceptNeedsConsent
<1> QED
  BY <1>1, <1>2, <1>3, <1>5, <1>7 DEF ConsentBook, Past

LEMMA ConsentBookNext == TypeOK /\ ClaimBook /\ ConsentBook /\ [Next]_vars => ConsentBook'
<1> SUFFICES ASSUME TypeOK, ClaimBook, ConsentBook, [Next]_vars
             PROVE  ConsentBook'
  OBVIOUS
<1> USE DEF At, Past
<1>1. ASSUME NEW r \in Readers, Claim(r)
      PROVE  ConsentBook'
  <2>1. pc = "unread"
    BY <1>1 DEF Claim, ClaimBook
  <2> QED
    BY <1>1, <2>1, ConsentBookKept DEF Claim, ghosts
<1>2. ASSUME NEW r \in Readers, Refuse(r)
      PROVE  ConsentBook'
  BY <1>2 DEF Refuse, turn, ghosts, ConsentBook, AcceptNeedsConsent
<1>3. CASE StreamFails \/ StreamCloses
  BY <1>3, ConsentBookKept DEF StreamFails, StreamCloses, ghosts
<1>4. ASSUME NEW o \in PostOutcomes, NEW i, PostPrompt(o, i)
      PROVE  ConsentBook'
  <2>1. pc = "subscribing" /\ pc' \in {"reading", "done"}
    BY <1>4 DEF PostPrompt
  <2>2. UNCHANGED <<reads, consents, verdicts>>
    BY <1>4 DEF PostPrompt
  <2> QED
    BY <2>1, <2>2, ConsentBookKept
<1>5. ASSUME NEW e \in Feed, Receive(e)
      PROVE  ConsentBook'
  <2>1. pc = "reading" /\ pc' = "yielding" /\ reads' = reads + 1
    BY <1>5 DEF Receive
  <2> QED
    BY <1>5, <2>1, ConsentBookKept DEF Receive
<1>6. CASE YieldEvent \/ ActOnNothing \/ ActOnObserved \/ ActOnItem
  BY <1>6, ConsentBookKept DEF YieldEvent, ActOnNothing, ActOnObserved, ActOnItem, ghosts
<1>7. CASE ActOnResponse \/ EndResponse
  BY <1>7, ConsentBookKept DEF ActOnResponse, EndResponse
<1>8. CASE RefuseDuplicate \/ RefuseOverBudget \/ Dispatch
  BY <1>8, ConsentBookKept DEF RefuseDuplicate, RefuseOverBudget, Dispatch, ghosts
<1>9. CASE RunTool \/ ToolEnded
  BY <1>9, ConsentBookKept DEF RunTool, ToolEnded, ghosts
<1>10. ASSUME NEW o \in PostOutcomes, PostOutput(o)
       PROVE  ConsentBook'
  BY <1>10, ConsentBookKept DEF PostOutput
<1>11. ASSUME NEW d \in {"accept", "decline", "panic"}, Decide(d)
       PROVE  ConsentBook'
  BY <1>11, DecideBook
<1>12. ASSUME NEW o \in PostOutcomes, PostVerdict(o)
       PROVE  ConsentBook'
  BY <1>12, PostVerdictBook
<1>13. CASE Check
  <2>1. pc = "checking" /\ pc' \in {"reading", "done"}
    BY <1>13 DEF Check
  <2> QED
    BY <1>13, <2>1, ConsentBookKept DEF Check, ghosts
<1>14. CASE UNCHANGED vars
  BY <1>14 DEF vars, turn, ghosts, ConsentBook, AcceptNeedsConsent
<1> QED
  BY <1>1, <1>2, <1>3, <1>4, <1>5, <1>6, <1>7, <1>8, <1>9, <1>10, <1>11, <1>12, <1>13, <1>14
  DEF Next, Step, Post, PostOutcomes, Finished

\* An approval is accepted only when the hook accepted that very delivery, and one
\* delivery never gets two verdicts (resolveElicitation, decideElicitation).
THEOREM AcceptNeedsConsentHolds == Spec => []AcceptNeedsConsent
<1>1. Init => ConsentBook
  BY DEF Init, ConsentBook, AcceptNeedsConsent
<1>2. ConsentBook => AcceptNeedsConsent
  BY DEF ConsentBook
<1> QED
  BY <1>1, <1>2, ConsentBookNext, TypeAndEvent, ClaimBookAlways, PTL DEF Spec

-----------------------------------------------------------------------------
(* Start and end hooks. *)

LEMMA StartBookKept ==
  ASSUME StartBook, UNCHANGED <<announced, starts, ends>>, pc' # "ending"
  PROVE  StartBook'
BY DEF StartBook

LEMMA AnnounceBook ==
  ASSUME TypeOK, EventInHand, StartBook, ActOnResponse
  PROVE  StartBook'
<1>1. event.response \in Responses \union {Blank}
  BY EventFields DEF EventInHand, Busy, ActOnResponse, ResponseEvents
<1>2. UNCHANGED <<event, ends>>
  BY DEF ActOnResponse
<1>3. CASE event.response \in announced \union {Blank}
  <2>1. UNCHANGED <<announced, starts>>
    BY <1>3 DEF ActOnResponse, announceResponse
  <2> QED
    BY <1>2, <1>3, <2>1 DEF StartBook
<1>4. CASE event.response \notin announced \union {Blank}
  <2>1. /\ announced' = announced \union {event.response}
        /\ starts' = [starts EXCEPT ![event.response] = @ + 1]
    BY <1>4 DEF ActOnResponse, announceResponse
  <2>2. starts \in [Responses -> Nat] /\ event.response \in Responses
    BY <1>1, <1>4 DEF TypeOK
  <2>3. starts[event.response] = 0
    BY <1>4, <2>2 DEF StartBook
  <2>4. \A r \in Responses : starts'[r] = IF r \in announced' THEN 1 ELSE 0
    BY <2>1, <2>2, <2>3 DEF StartBook
  <2> QED
    BY <1>2, <2>1, <2>4 DEF StartBook
<1> QED
  BY <1>3, <1>4

LEMMA EndResponseBook ==
  ASSUME TypeOK, EventInHand, StartBook, EndResponse
  PROVE  StartBook'
<1>1. event.response \in announced \union {Blank} /\ pc' = "checking"
  BY DEF EndResponse, At, StartBook
<1>2. UNCHANGED <<announced, starts>>
  BY DEF EndResponse, turn
<1>3. ends' = [ends EXCEPT ![event.response] = @ + 1]
  BY DEF EndResponse
<1>4. ends \in [Responses \union {Blank} -> Nat] /\ Blank \notin Responses
  BY TrackerAssumption DEF TypeOK
<1>5. ASSUME NEW r \in Responses, ends'[r] > 0
      PROVE  r \in announced
  BY <1>1, <1>3, <1>4, <1>5 DEF StartBook
<1> QED
  BY <1>1, <1>2, <1>5 DEF StartBook

LEMMA StartBookNext ==
  TypeOK /\ EventInHand /\ ClaimBook /\ StartBook /\ [Next]_vars => StartBook'
<1> SUFFICES ASSUME TypeOK, EventInHand, ClaimBook, StartBook, [Next]_vars
             PROVE  StartBook'
  OBVIOUS
<1> USE DEF At
<1>1. ASSUME NEW r \in Readers, Claim(r)
      PROVE  StartBook'
  BY <1>1, StartBookKept DEF Claim, turn, ghosts
<1>2. ASSUME NEW r \in Readers, Refuse(r)
      PROVE  StartBook'
  BY <1>2 DEF Refuse, turn, ghosts, StartBook
<1>3. CASE StreamFails \/ StreamCloses
  BY <1>3, StartBookKept DEF StreamFails, StreamCloses, turn, ghosts
<1>4. ASSUME NEW o \in PostOutcomes, NEW i, PostPrompt(o, i)
      PROVE  StartBook'
  <2>1. pc' \in {"reading", "done"}
    BY <1>4 DEF PostPrompt
  <2>2. UNCHANGED <<announced, starts, ends>>
    BY <1>4 DEF PostPrompt
  <2> QED
    BY <2>1, <2>2, StartBookKept
<1>5. ASSUME NEW e \in Feed, Receive(e)
      PROVE  StartBook'
  BY <1>5, StartBookKept DEF Receive
<1>6. CASE YieldEvent \/ ActOnNothing \/ ActOnObserved \/ ActOnItem
  BY <1>6, StartBookKept DEF YieldEvent, ActOnNothing, ActOnObserved, ActOnItem, turn, ghosts
<1>7. CASE ActOnResponse
  BY <1>7, AnnounceBook
<1>8. CASE EndResponse
  BY <1>8, EndResponseBook
<1>9. CASE RefuseDuplicate \/ RefuseOverBudget \/ Dispatch
  BY <1>9, StartBookKept DEF RefuseDuplicate, RefuseOverBudget, Dispatch, turn, ghosts
<1>10. CASE RunTool \/ ToolEnded \/ Check
  BY <1>10, StartBookKept DEF RunTool, ToolEnded, Check, turn, ghosts
<1>11. ASSUME NEW o \in PostOutcomes, PostOutput(o) \/ PostVerdict(o)
       PROVE  StartBook'
  BY <1>11, StartBookKept DEF PostOutput, PostVerdict, turn
<1>12. ASSUME NEW d \in {"accept", "decline", "panic"}, Decide(d)
       PROVE  StartBook'
  BY <1>12, StartBookKept DEF Decide
<1>13. CASE UNCHANGED vars
  BY <1>13 DEF vars, turn, ghosts, StartBook
<1> QED
  BY <1>1, <1>2, <1>3, <1>4, <1>5, <1>6, <1>7, <1>8, <1>9, <1>10, <1>11, <1>12, <1>13
  DEF Next, Step, Post, PostOutcomes, Finished

\* Each response is started once, and a named one is not ended without its start
\* (announceResponse, endResponse).
THEOREM StartsBalanceEndsHolds == Spec => []StartsBalanceEnds
<1>1. Init => StartBook
  BY DEF Init, StartBook
<1>2. TypeOK /\ StartBook => StartsBalanceEnds
  BY DEF TypeOK, StartBook, StartsBalanceEnds
<1> QED
  BY <1>1, <1>2, StartBookNext, TypeAndEvent, ClaimBookAlways, PTL DEF Spec

-----------------------------------------------------------------------------
(* The end of a turn. *)

LEMMA CauseNames ==
  /\ \A cause \in Failures : cause \in Causes /\ cause # "none"
  /\ {"stream error", "turn incomplete", "input denied", "post failed", "over budget"}
       \subseteq Causes
BY Zenon DEF Causes, Errors, Failures

LEMMA FailEnds ==
  ASSUME NEW t \in Trackers, t.failure = "none", NEW cause \in Failures
  PROVE  fail(t, cause).failure \in Failures /\ fail(t, cause).id = t.id
BY DEF fail, Trackers

\* From a tracker without an end, an event makes one end or none, and a call none.
LEMMA TrackEnds ==
  ASSUME NEW t \in Trackers, NEW e \in Events, ~Ended(t), t.failedTurnID = Blank
  PROVE  /\ Track(t, e).id # Blank => Track(t, e).failure = "none"
         /\ Track(t, e).failure = "none" => Track(t, e).failedTurnID = Blank
         /\ e.kind = "output_item.done" => ~Ended(Track(t, e))
<1> USE TrackerAssumption
<1>1. t.id = Blank /\ t.failure = "none"
  BY DEF Ended
<1> DEFINE One(u) == /\ u.id # Blank => u.failure = "none"
                     /\ u.failure = "none" => u.failedTurnID = Blank
<1>2. ASSUME NEW u \in Trackers, u.id = Blank, u.failure = "none", NEW cause \in Failures
      PROVE  One(fail(u, cause))
  BY <1>2, FailEnds, CauseNames
<1>3. One(t)
  BY <1>1
<1>4. CASE e.kind = "input.consumed"
  <2>1. One(crossBoundary(t, e))
    BY <1>1 DEF crossBoundary, Trackers
  <2> QED
    BY <1>4, <2>1 DEF Track, Terminals
<1>5. CASE e.kind = "session.status"
  <2>1. e.response \in Responses \union {Blank, Absent}
    BY <1>5, EventFields DEF StatusEvents
  <2>2. One(observeIdleStatus(t, e))
    BY <1>1 DEF observeIdleStatus, Trackers
  <2>3. ASSUME e.response # Absent
        PROVE  /\ [t EXCEPT !.failedTurnID = e.response] \in Trackers
               /\ [t EXCEPT !.failedTurnID = e.response].id = Blank
               /\ [t EXCEPT !.failedTurnID = e.response].failure = "none"
    BY <1>1, <2>1, <2>3 DEF Trackers
  <2>4. One(observeFailedStatus(t, e))
    BY <1>1, <1>2, <1>3, <2>3, Zenon DEF observeFailedStatus, Failures
  <2>5. One(observeStatus(t, e))
    BY <1>3, <2>2, <2>4 DEF observeStatus
  <2> QED
    BY <1>5, <2>5 DEF Track, Terminals
<1>6. CASE e.kind = "session.superseded"
  <2>1. One(observeSuperseded(t, e))
    BY <1>1, <1>2, <1>3, Zenon DEF observeSuperseded, Failures
  <2> QED
    BY <1>6, <2>1 DEF Track, Terminals
<1>7. CASE e.kind \in Terminals
  <2>1. e.response \in Responses \union {Blank}
    BY <1>7, EventFields DEF ResponseEvents
  <2>2. /\ [t EXCEPT !.failedTurnID = e.response] \in Trackers
        /\ [t EXCEPT !.failedTurnID = e.response].id = Blank
        /\ [t EXCEPT !.failedTurnID = e.response].failure = "none"
    BY <1>1, <2>1 DEF Trackers
  <2>3. One([t EXCEPT !.id = e.response])
    BY <1>1 DEF Trackers
  <2>4. One(observeResponseTerminal(t, e))
    BY <1>2, <1>3, <2>2, <2>3, Zenon DEF observeResponseTerminal, Failures
  <2> QED
    BY <1>7, <2>4 DEF Track, Terminals
<1>8. CASE e.kind \notin {"input.consumed", "session.status", "session.superseded"} \union Terminals
  <2>1. Track(t, e) = t
    BY <1>8 DEF Track
  <2> QED
    BY <1>3, <2>1
<1> QED
  BY <1>4, <1>5, <1>6, <1>7, <1>8 DEF Terminals

\* What is yielded last is what a caller that still reads was told last.
LEMMA EmitTells ==
  ASSUME YieldBook, NEW x, emit(x)
  PROVE  broke' \/ last' = x
<1>1. CASE stopped
  BY <1>1, Zenon DEF emit, YieldBook, caller
<1>2. CASE ~stopped
  BY <1>2, Zenon DEF emit, RangeBody
<1> QED
  BY <1>1, <1>2

LEMMA NotOver ==
  ASSUME EndBook, ~Ended(tracker)
  PROVE  tracker.id = Blank /\ tracker.failure = "none" /\ tracker.failedTurnID = Blank
BY DEF EndBook, Ended

\* Steps within the act of one event.
LEMMA EndBookKept ==
  ASSUME EndBook, UNCHANGED <<tracker, unfinishable, event>>,
         pc \in Busy \ {"checking"}, pc' \in Busy
  PROVE  EndBook'
<1>1. ~unfinishable
  BY Zenon DEF EndBook, Busy
<1>2. pc' \notin {"unread", "subscribing", "reading", "done"}
  BY DEF Busy
<1>3. Ended(tracker)' <=> Ended(tracker)
  BY DEF Ended
<1>4. pc' \in Busy /\ event'.kind = "output_item.done" => ~Ended(tracker)'
  BY <1>3 DEF EndBook, Busy
<1>5. ~unfinishable'
  BY <1>1
<1>6. /\ tracker'.id # Blank => tracker'.failure = "none"
      /\ tracker'.failure = "none" => tracker'.failedTurnID = Blank
  BY DEF EndBook
<1> QED
  BY <1>2, <1>4, <1>5, <1>6, Zenon DEF EndBook

\* A read that ends with a cause, on a turn that has no end.
LEMMA EndBookTold ==
  ASSUME EndBook, pc \in {"subscribing", "reading"}, pc' = "done",
         UNCHANGED <<tracker, unfinishable>>,
         broke' \/ last' \in Causes
  PROVE  EndBook'
<1>1. ~unfinishable' /\ ~Ended(tracker)
  BY Zenon DEF EndBook
<1>2. /\ tracker'.id = Blank /\ tracker'.failure = "none" /\ tracker'.failedTurnID = Blank
  BY <1>1, NotOver
<1>3. pc' \notin {"unread", "subscribing", "reading"} \union Busy
  BY DEF Busy
<1> QED
  BY <1>1, <1>2, <1>3, Zenon DEF EndBook

LEMMA PromptEnds ==
  ASSUME TypeOK, EndBook, YieldBook, NEW o \in PostOutcomes, NEW i, PostPrompt(o, i)
  PROVE  EndBook'
<1>1. pc = "subscribing" /\ UNCHANGED unfinishable
  BY DEF PostPrompt
<1>2. CASE pc' = "done"
  <2>1. UNCHANGED tracker
    BY <1>1, <1>2 DEF PostPrompt
  <2>2. broke' \/ last' \in Causes
    BY <1>2, EmitTells, CauseNames DEF PostPrompt
  <2> QED
    BY <1>1, <1>2, <2>1, <2>2, EndBookTold
<1>3. CASE pc' = "reading"
  <2>1. tracker' = anchorOn(tracker, i) /\ UNCHANGED caller
    BY <1>3 DEF PostPrompt
  <2>2. ~Ended(tracker) /\ ~unfinishable /\ ~stopped
    BY <1>1, Zenon DEF EndBook
  <2>3. /\ tracker'.id = Blank /\ tracker'.failure = "none" /\ tracker'.failedTurnID = Blank
    BY <2>1, <2>2, NotOver DEF TypeOK, anchorOn, Trackers
  <2>4. ~unfinishable' /\ ~stopped'
    BY <1>1, <2>1, <2>2, Zenon DEF caller
  <2>5. ~Ended(tracker)'
    BY <2>3 DEF Ended
  <2>6. pc' # "done" /\ pc' \notin Busy
    BY <1>3 DEF Busy
  <2> QED
    BY <2>3, <2>4, <2>5, <2>6, Zenon DEF EndBook
<1> QED
  BY <1>2, <1>3 DEF PostPrompt

LEMMA ReceiveEnds ==
  ASSUME TypeOK, EndBook, NEW e \in Feed, Receive(e)
  PROVE  EndBook'
<1>1. pc = "reading" /\ pc' = "yielding" /\ UNCHANGED unfinishable
  BY DEF Receive, At
<1>2. event' = e /\ tracker' = Track(tracker, e)
  BY DEF Receive
<1>3. ~Ended(tracker) /\ ~unfinishable
  BY <1>1, Zenon DEF EndBook
<1>4. e \in Events /\ tracker \in Trackers /\ tracker.failedTurnID = Blank
  BY <1>3, NotOver, ChatAssumption DEF TypeOK
<1> DEFINE u == Track(tracker, e)
<1>5. /\ u.id # Blank => u.failure = "none"
      /\ u.failure = "none" => u.failedTurnID = Blank
      /\ e.kind = "output_item.done" => ~Ended(u)
  BY <1>3, <1>4, TrackEnds
<1> HIDE DEF u
<1>6. tracker' = u
  BY <1>2 DEF u
<1>7. /\ tracker'.id # Blank => tracker'.failure = "none"
      /\ tracker'.failure = "none" => tracker'.failedTurnID = Blank
      /\ event'.kind = "output_item.done" => ~Ended(tracker)'
  BY <1>2, <1>5, <1>6 DEF Ended
<1>8. pc' \notin {"unread", "subscribing", "reading", "done"} /\ ~unfinishable'
  BY <1>1, <1>3
<1> QED
  BY <1>7, <1>8, Zenon DEF EndBook

LEMMA YieldEnds ==
  ASSUME EndBook, YieldBook, YieldBook', YieldEvent
  PROVE  EndBook'
<1>1. pc = "yielding" /\ UNCHANGED <<tracker, unfinishable, event>>
  BY DEF YieldEvent, turn
<1>2. CASE ~stopped'
  <2>1. pc' = "acting"
    BY <1>2 DEF YieldEvent
  <2> QED
    BY <1>1, <2>1, EndBookKept DEF Busy
<1>3. CASE stopped'
  <2>1. pc' = "done" /\ broke'
    BY <1>3, Zenon DEF YieldEvent, YieldBook
  <2>2. ~unfinishable'
    BY <1>1, Zenon DEF EndBook
  <2>3. /\ tracker'.id # Blank => tracker'.failure = "none"
        /\ tracker'.failure = "none" => tracker'.failedTurnID = Blank
    BY <1>1, Zenon DEF EndBook
  <2>4. pc' \notin {"unread", "subscribing", "reading"} \union Busy
    BY <2>1 DEF Busy
  <2> QED
    BY <2>1, <2>2, <2>3, <2>4, Zenon DEF EndBook
<1> QED
  BY <1>2, <1>3

LEMMA OverBudgetEnds ==
  ASSUME EndBook, EventInHand, YieldBook, RefuseOverBudget
  PROVE  EndBook'
<1>1. pc = "calling" /\ pc' = "checking" /\ UNCHANGED <<tracker, event>>
  BY Zenon DEF RefuseOverBudget, At
<1>2. event.kind = "output_item.done"
  BY <1>1 DEF EventInHand, AtCall
<1>3. ~Ended(tracker)
  BY <1>1, <1>2 DEF EndBook, Busy
<1>4. broke' \/ last' = "over budget"
  BY EmitTells, Zenon DEF RefuseOverBudget
<1>5. tracker'.id = Blank /\ tracker'.failure = "none" /\ tracker'.failedTurnID = Blank
  BY <1>1, <1>3, NotOver
<1>6. ~Ended(tracker)'
  BY <1>5 DEF Ended
<1>7. pc' \notin {"unread", "subscribing", "reading", "done"}
  BY <1>1
<1> QED
  BY <1>1, <1>4, <1>5, <1>6, <1>7, Zenon DEF EndBook

LEMMA CheckEnds ==
  ASSUME TypeOK, EndBook, YieldBook, Check
  PROVE  EndBook'
<1>1. pc = "checking" /\ UNCHANGED <<tracker, unfinishable, event>>
  BY DEF Check, turn
<1>2. /\ tracker'.id # Blank => tracker'.failure = "none"
      /\ tracker'.failure = "none" => tracker'.failedTurnID = Blank
      /\ Ended(tracker)' <=> Ended(tracker)
  BY <1>1 DEF EndBook, Ended
<1>3. tracker.failure \in Failures \union {"none"}
  BY DEF TypeOK, Trackers
<1>4. CASE stopped
  <2>1. pc' = "done" /\ UNCHANGED caller /\ broke
    BY <1>4, Zenon DEF Check, YieldBook
  <2>2. broke'
    BY <2>1, Zenon DEF caller
  <2>3. unfinishable' => ~Ended(tracker)'
    BY <1>1, <1>2, Zenon DEF EndBook
  <2>4. pc' \notin {"unread", "subscribing", "reading"} \union Busy
    BY <2>1 DEF Busy
  <2> QED
    BY <1>2, <2>1, <2>2, <2>3, <2>4, Zenon DEF EndBook
<1>5. CASE ~stopped /\ unfinishable
  <2>1. pc' = "done" /\ UNCHANGED caller /\ ~Ended(tracker)
    BY <1>5, Zenon DEF Check, EndBook
  <2>2. broke \/ last = "over budget"
    BY <1>5, Zenon DEF EndBook
  <2>3. broke' \/ last' = "over budget"
    BY <2>1, <2>2, Zenon DEF caller
  <2>4. tracker'.id = Blank /\ tracker'.failure = "none"
    BY <1>1, <2>1, NotOver
  <2>5. "over budget" \in Causes
    BY Zenon, CauseNames
  <2>6. pc' \notin {"unread", "subscribing", "reading"} \union Busy
    BY <2>1 DEF Busy
  <2> QED
    BY <1>2, <2>1, <2>3, <2>4, <2>5, <2>6, Zenon DEF EndBook
<1>6. CASE ~stopped /\ ~unfinishable /\ Ended(tracker)
  <2>1. pc' = "done" /\ ~unfinishable'
    BY <1>1, <1>6, Zenon DEF Check
  <2>2. pc' \notin {"unread", "subscribing", "reading"} \union Busy
    BY <2>1 DEF Busy
  <2>3. CASE tracker.failure = "none"
    <3>1. tracker'.id # Blank
      BY <1>1, <1>6, <2>3 DEF Ended
    <3> QED
      BY <1>2, <2>1, <2>2, <3>1, Zenon DEF EndBook
  <2>4. CASE tracker.failure # "none"
    <3>1. emit(tracker.failure)
      BY <1>6, <2>4, Zenon DEF Check
    <3>2. broke' \/ last' = tracker.failure
      BY <3>1, EmitTells
    <3>3. tracker.failure \in Causes
      BY <1>3, <2>4, CauseNames
    <3>4. ~broke' => last' \in Causes /\ last' = tracker'.failure
      BY <1>1, <3>2, <3>3
    <3> QED
      BY <1>2, <2>1, <2>2, <3>4, Zenon DEF EndBook
  <2> QED
    BY <2>3, <2>4
<1>7. CASE ~stopped /\ ~unfinishable /\ ~Ended(tracker)
  <2>1. pc' = "reading" /\ UNCHANGED caller
    BY <1>7, Zenon DEF Check
  <2>2. ~stopped' /\ ~unfinishable'
    BY <1>1, <1>7, <2>1, Zenon DEF caller
  <2>3. pc' # "done" /\ pc' \notin Busy
    BY <2>1 DEF Busy
  <2> QED
    BY <1>2, <1>7, <2>2, <2>3, Zenon DEF EndBook
<1> QED
  BY <1>4, <1>5, <1>6, <1>7

LEMMA StreamEnds ==
  ASSUME EndBook, YieldBook, StreamFails \/ StreamCloses
  PROVE  EndBook'
<1>1. /\ pc \in {"subscribing", "reading"} /\ pc' = "done"
      /\ UNCHANGED <<tracker, unfinishable>>
  BY DEF StreamFails, StreamCloses, At, turn
<1>2. ~Ended(tracker) /\ ~unfinishable /\ ~stopped
  BY <1>1, Zenon DEF EndBook
<1>3. emit("stream error") \/ emit("turn incomplete")
  BY <1>2, Zenon DEF StreamFails, StreamCloses
<1>4. broke' \/ last' \in Causes
  BY <1>3, EmitTells, CauseNames, Zenon
<1> QED
  BY <1>1, <1>4, EndBookTold

LEMMA ClaimEnds ==
  ASSUME ClaimBook, EndBook, NEW r \in Readers, Claim(r) \/ Refuse(r)
  PROVE  EndBook'
<1>1. UNCHANGED <<tracker, unfinishable, event, stopped, broke, last>>
  BY Zenon DEF Claim, Refuse, turn, caller
<1>2. Ended(tracker)' <=> Ended(tracker)
  BY <1>1 DEF Ended
<1>3. CASE pc' = pc
  BY <1>1, <1>2, <1>3 DEF EndBook
<1>4. CASE pc' # pc
  <2>1. pc = "unread" /\ pc' = "subscribing"
    BY <1>4, Zenon DEF Claim, Refuse, ClaimBook
  <2>2. ~Ended(tracker) /\ ~unfinishable /\ ~stopped
    BY <2>1, Zenon DEF EndBook
  <2>3. pc' # "done" /\ pc' \notin Busy
    BY <2>1 DEF Busy
  <2>4. /\ tracker'.id # Blank => tracker'.failure = "none"
        /\ tracker'.failure = "none" => tracker'.failedTurnID = Blank
    BY <1>1, Zenon DEF EndBook
  <2> QED
    BY <1>1, <1>2, <2>2, <2>3, <2>4, Zenon DEF EndBook
<1> QED
  BY <1>3, <1>4

LEMMA EndBookStays == EndBook /\ UNCHANGED vars => EndBook'
<1> SUFFICES ASSUME EndBook, UNCHANGED vars
             PROVE  EndBook'
  OBVIOUS
<1>1. UNCHANGED <<pc, tracker, unfinishable, event, stopped, broke, last>>
  BY DEF vars, turn, caller
<1> QED
  BY <1>1 DEF EndBook, Ended

LEMMA EndBookNext ==
  /\ TypeOK /\ EventInHand /\ ClaimBook /\ YieldBook /\ YieldBook' /\ EndBook
  /\ [Next]_vars
  => EndBook'
<1> SUFFICES ASSUME TypeOK, EventInHand, ClaimBook, YieldBook, YieldBook', EndBook,
                    [Next]_vars
             PROVE  EndBook'
  OBVIOUS
<1> USE DEF At
<1>1. ASSUME NEW r \in Readers, Claim(r) \/ Refuse(r)
      PROVE  EndBook'
  BY <1>1, ClaimEnds
<1>2. CASE StreamFails \/ StreamCloses
  BY <1>2, StreamEnds
<1>3. ASSUME NEW o \in PostOutcomes, NEW i, PostPrompt(o, i)
      PROVE  EndBook'
  BY <1>3, PromptEnds
<1>4. ASSUME NEW e \in Feed, Receive(e)
      PROVE  EndBook'
  BY <1>4, ReceiveEnds
<1>5. CASE YieldEvent
  BY <1>5, YieldEnds
<1>6. CASE ActOnNothing \/ ActOnObserved
  BY <1>6, EndBookKept DEF ActOnNothing, ActOnObserved, turn, Busy
<1>7. CASE ActOnResponse
  BY <1>7, EndBookKept DEF ActOnResponse, Busy
<1>8. CASE EndResponse \/ ToolEnded
  BY <1>8, EndBookKept DEF EndResponse, ToolEnded, turn, Busy
<1>9. CASE ActOnItem
  BY <1>9, EndBookKept DEF ActOnItem, turn, Busy
<1>10. CASE RefuseDuplicate \/ Dispatch \/ RunTool
  BY <1>10, EndBookKept DEF RefuseDuplicate, Dispatch, RunTool, turn, Busy
<1>11. CASE RefuseOverBudget
  BY <1>11, OverBudgetEnds
<1>12. ASSUME NEW o \in PostOutcomes, PostOutput(o) \/ PostVerdict(o)
       PROVE  EndBook'
  BY <1>12, EndBookKept DEF PostOutput, PostVerdict, turn, Busy
<1>13. ASSUME NEW d \in {"accept", "decline", "panic"}, Decide(d)
       PROVE  EndBook'
  BY <1>13, EndBookKept DEF Decide, Busy
<1>14. CASE Check
  BY <1>14, CheckEnds
<1>15. CASE UNCHANGED vars
  BY <1>15, EndBookStays
<1> QED
  BY <1>1, <1>2, <1>3, <1>4, <1>5, <1>6, <1>7, <1>8, <1>9, <1>10, <1>11, <1>12, <1>13,
     <1>14, <1>15
  DEF Next, Step, Post, PostOutcomes, Finished

\* A turn ends one way: an answered one carries no failure, and a caller who reads to the
\* end of one without an answer is told why, last (turnTracker.id, Chat.drive).
THEOREM EndsOneWayHolds == Spec => []EndsOneWay
<1>1. Init => EndBook
  <2> SUFFICES ASSUME Init
               PROVE  EndBook
    OBVIOUS
  <2>1. tracker.id = Blank /\ tracker.failure = "none" /\ tracker.failedTurnID = Blank
    <3>1. PICK end \in Ends : tracker = newTurnTracker(end)
      BY Zenon DEF Init
    <3> QED
      BY <3>1 DEF newTurnTracker
  <2>2. pc = "unread" /\ ~unfinishable /\ ~stopped
    BY Zenon DEF Init
  <2>3. ~Ended(tracker)
    BY <2>1 DEF Ended
  <2>4. pc # "done" /\ pc \notin Busy
    BY <2>2 DEF Busy
  <2> QED
    BY <2>1, <2>2, <2>3, <2>4, Zenon DEF EndBook
<1>2. TypeOK /\ EndBook => EndsOneWay
  BY Zenon DEF EndBook, EndsOneWay
<1> QED
  BY <1>1, <1>2, EndBookNext, TypeAndEvent, ClaimBookAlways, YieldBookAlways, PTL DEF Spec

-----------------------------------------------------------------------------
(* The tracker, event by event. *)

\* The tracker's own record of an end comes from the event in hand, when the end rule
\* listens to it and it does not name an old response.
Taken(t, e, n) ==
  /\ n \in Trackers /\ n.end = t.end
  /\ n.id # t.id => /\ Judged(t.end, e) /\ e.response \notin Prior
                    /\ n.id = e.response /\ Success(e)
  /\ n.failedTurnID # t.failedTurnID =>
       /\ Judged(t.end, e) /\ e.response \notin Prior
       /\ n.failedTurnID = e.response /\ ~Success(e)

LEMMA FailTaken ==
  ASSUME NEW t \in Trackers, NEW e, NEW u \in Trackers, Taken(t, e, u), NEW cause \in Failures
  PROVE  Taken(t, e, fail(u, cause))
<1>1. fail(u, cause) \in Trackers
  BY FailType
<1>2. /\ fail(u, cause).end = u.end /\ fail(u, cause).id = u.id
      /\ fail(u, cause).failedTurnID = u.failedTurnID
  BY DEF fail, Trackers
<1> QED
  BY <1>1, <1>2, Zenon DEF Taken

LEMMA TrackTakes ==
  ASSUME NEW t \in Trackers, NEW e \in Events
  PROVE  Taken(t, e, Track(t, e))
<1> USE TrackerAssumption
<1>1. Taken(t, e, t)
  BY DEF Taken
<1>2. CASE e.kind = "input.consumed"
  <2>1. e \in InputConsumedEvents
    BY <1>2, EventFields
  <2>2. crossBoundary(t, e) \in Trackers
    BY <2>1 DEF crossBoundary, Trackers, InputConsumedEvents
  <2>3. Taken(t, e, crossBoundary(t, e))
    BY <2>2 DEF Taken, crossBoundary, Trackers
  <2> QED
    BY <1>2, <2>3 DEF Track, Terminals
<1>3. CASE e.kind = "session.status"
  <2>1. e \in StatusEvents
    BY <1>3, EventFields
  <2>2. CASE e.status = "idle"
    <3>1. Taken(t, e, observeIdleStatus(t, e))
      <4>1. CASE observeIdleStatus(t, e) = t
        BY <1>1, <4>1
      <4>2. CASE observeIdleStatus(t, e) # t
        <5>1. /\ describesThisSession(e.session) /\ e.response \in Responses
              /\ e.response \notin Prior
              /\ observeIdleStatus(t, e) = [t EXCEPT !.id = e.response]
          BY <2>1, <4>2 DEF observeIdleStatus, Foreign, StatusEvents
        <5>2. Judged(t.end, e) /\ Success(e)
          BY <1>3, <2>2, <5>1 DEF Judged, Success, describesThisSession, couldBeThisSession
        <5> QED
          BY <5>1, <5>2 DEF Taken, Trackers
      <4> QED
        BY <4>1, <4>2
    <3> QED
      BY <1>3, <2>2, <3>1 DEF Track, observeStatus, Terminals
  <2>3. CASE e.status = "failed" /\ couldBeThisSession(e.session)
    <3>1. Judged(t.end, e) /\ ~Success(e)
      BY <1>3, <2>3 DEF Judged, Success
    <3>2. ASSUME t.crossed, e.response # Absent, ~Foreign(t, e.response)
          PROVE  /\ [t EXCEPT !.failedTurnID = e.response] \in Trackers
                 /\ Taken(t, e, [t EXCEPT !.failedTurnID = e.response])
      BY <2>1, <3>1, <3>2 DEF Taken, Trackers, Foreign, StatusEvents
    <3>3. Taken(t, e, observeFailedStatus(t, e))
      BY <1>1, <3>2, FailTaken, Zenon DEF observeFailedStatus, Failures
    <3> QED
      BY <1>3, <2>3, <3>3 DEF Track, observeStatus, Terminals
  <2>4. CASE ~(e.status = "idle") /\ ~(e.status = "failed" /\ couldBeThisSession(e.session))
    <3>1. Track(t, e) = t
      BY <1>3, <2>4 DEF Track, observeStatus, observeIdleStatus, Terminals
    <3> QED
      BY <1>1, <3>1
  <2> QED
    BY <2>2, <2>3, <2>4
<1>4. CASE e.kind = "session.superseded"
  <2>1. Taken(t, e, observeSuperseded(t, e))
    BY <1>1, FailTaken, Zenon DEF observeSuperseded, Failures
  <2> QED
    BY <1>4, <2>1 DEF Track, Terminals
<1>5. CASE e.kind \in Terminals
  <2>1. e.response \in Responses \union {Blank}
    BY <1>5, EventFields DEF ResponseEvents
  <2>2. e.kind # "session.status"
    BY <1>5 DEF Terminals
  <2>3. CASE t.end # "lifecycle" \/ e.response = Blank \/ Foreign(t, e.response)
    <3>1. Track(t, e) = t
      BY <1>5, <2>3 DEF Track, observeResponseTerminal, Terminals
    <3> QED
      BY <1>1, <3>1
  <2>4. CASE ~(t.end # "lifecycle" \/ e.response = Blank \/ Foreign(t, e.response))
    <3>1. Judged(t.end, e) /\ e.response \notin Prior
      BY <1>5, <2>4 DEF Judged, Foreign
    <3>2. CASE e.kind = "response.completed"
      <4>1. Taken(t, e, [t EXCEPT !.id = e.response])
        BY <2>1, <3>1, <3>2 DEF Taken, Trackers, Success
      <4> QED
        BY <2>4, <3>2, <4>1 DEF Track, observeResponseTerminal, Terminals
    <3>3. CASE e.kind # "response.completed"
      <4>1. /\ [t EXCEPT !.failedTurnID = e.response] \in Trackers
            /\ Taken(t, e, [t EXCEPT !.failedTurnID = e.response])
        BY <2>1, <2>2, <3>1, <3>3 DEF Taken, Trackers, Success
      <4>2. Taken(t, e, fail([t EXCEPT !.failedTurnID = e.response], "turn failed"))
        BY <4>1, FailTaken DEF Failures
      <4> QED
        BY <1>5, <2>4, <3>3, <4>2 DEF Track, observeResponseTerminal, Terminals
    <3> QED
      BY <3>2, <3>3
  <2> QED
    BY <2>3, <2>4
<1>6. CASE e.kind \notin {"input.consumed", "session.status", "session.superseded"} \union Terminals
  <2>1. Track(t, e) = t
    BY <1>6 DEF Track
  <2> QED
    BY <1>1, <2>1
<1> QED
  BY <1>2, <1>3, <1>4, <1>5, <1>6

\* Every event the server publishes has its type.
LEMMA PublishedIsTracked ==
  ASSUME NEW t \in Trackers, NEW e \in Published
  PROVE  Taken(t, e, Track(t, e))
<1>1. e \in Events
  BY FeedAssumption, ChatAssumption
<1> QED
  BY <1>1, TrackTakes

\* What the ends the server publishes say.
LEMMA EdgeSays ==
  ASSUME NEW s \in {"idle", "failed"}, NEW w \in {Session, Child}, NEW r \in {Mine, Old, Sub}
  PROVE  /\ Edge(s, w, r) \in Published
         /\ Edge(s, w, r).kind = "session.status" /\ Edge(s, w, r).status = s
         /\ Edge(s, w, r).session = w /\ Edge(s, w, r).response = r
<1>1. Edge(s, w, r) \in {Edge(s1, w1, r1) : s1 \in {"idle", "failed"}, w1 \in {Session, Child},
                                          r1 \in {Mine, Old, Sub}}
  OBVIOUS
<1> QED
  BY <1>1 DEF Published, Edge

LEMMA LifecycleSays ==
  ASSUME NEW k \in Announcing \union Terminals, NEW r \in {Mine, Old, Sub}
  PROVE  /\ Lifecycle(k, r) \in Published
         /\ Lifecycle(k, r).kind = k /\ Lifecycle(k, r).response = r
<1>1. Lifecycle(k, r) \in {Lifecycle(k1, r1) : k1 \in Announcing \union Terminals,
                                             r1 \in {Mine, Old, Sub}}
  OBVIOUS
<1> QED
  BY <1>1 DEF Published, Lifecycle

-----------------------------------------------------------------------------
(* The book of the session. *)

LEMMA OursInit == Told /\ SessionInit => OursBook
<1> SUFFICES ASSUME Told, SessionInit
             PROVE  OursBook
  OBVIOUS
<1> USE SessionAssumption, TrackerAssumption
<1>1. PICK end \in Ends : tracker = newTurnTracker(end)
  BY Zenon DEF SessionInit, Init
<1>2. tracker \in Trackers /\ tracker.end = end /\ tracker.id = Blank
      /\ tracker.failedTurnID = Blank
  BY <1>1 DEF newTurnTracker, Trackers
<1>3. tracker.end = "lifecycle" => "child" \notin noise
  BY DEF SessionInit, Told
<1>4. wire = <<>>
  BY DEF SessionInit
<1> QED
  BY <1>2, <1>3, <1>4 DEF OursBook, AnswerIsOurs, FailureIsOurs, Told

\* What the book says is kept by a step that leaves the tracker and the wire alone, and
\* the response where it was.
LEMMA OursKept ==
  ASSUME OursBook, UNCHANGED <<tracker, response, wire>>, noise' \subseteq noise
  PROVE  OursBook'
BY DEF OursBook, Honest, AnswerIsOurs, FailureIsOurs

\* An honest event is published.
LEMMA OursPublish ==
  ASSUME OursBook, NEW e \in Published, Publish(e), UNCHANGED <<tracker, response>>,
         Honest(e), noise' \subseteq noise
  PROVE  OursBook'
<1>1. /\ wire \in Seq(Published) /\ wire' = Append(wire, e)
      /\ \A i \in 1..Len(wire) : Honest(wire[i])
  BY DEF OursBook, Publish
<1>2. wire' \in Seq(Published) /\ Len(wire') = Len(wire) + 1
      /\ \A i \in 1..Len(wire) + 1 : wire'[i] = IF i <= Len(wire) THEN wire[i] ELSE e
  BY <1>1
<1>3. ASSUME NEW i \in 1..Len(wire')
      PROVE  Honest(wire'[i])
  BY <1>1, <1>2, <1>3
<1>4. \A i \in 1..Len(wire') : Honest(wire[i])'
  BY <1>3 DEF Honest
<1> QED
  BY <1>2, <1>4, Zenon DEF OursBook, AnswerIsOurs, FailureIsOurs

\* The response moves on: nothing on the wire could end the turn yet, but the event that
\* is published with it.
LEMMA OursMoves ==
  ASSUME OursBook, NEW e \in Published, Publish(e), UNCHANGED <<tracker, noise>>,
         response \in {"none", "running"},
         Judged(tracker.end, e) /\ e.response \notin Prior =>
           e.response = Mine /\ response' = IF Success(e) THEN "finished" ELSE "failed"
  PROVE  OursBook'
<1>1. /\ wire \in Seq(Published) /\ wire' = Append(wire, e)
      /\ \A i \in 1..Len(wire) : Honest(wire[i])
  BY DEF OursBook, Publish
<1>2. wire' \in Seq(Published) /\ Len(wire') = Len(wire) + 1
      /\ \A i \in 1..Len(wire) + 1 : wire'[i] = IF i <= Len(wire) THEN wire[i] ELSE e
  BY <1>1
<1>3. \A i \in 1..Len(wire) : ~(Judged(tracker.end, wire[i]) /\ wire[i].response \notin Prior)
  BY <1>1 DEF Honest
<1>4. \A i \in 1..Len(wire') : Honest(wire[i])'
  BY <1>2, <1>3 DEF Honest
<1>5. tracker.id = Blank /\ tracker.failedTurnID = Blank
  BY DEF OursBook, AnswerIsOurs, FailureIsOurs
<1> QED
  BY <1>2, <1>4, <1>5 DEF OursBook, AnswerIsOurs, FailureIsOurs

\* The client reads the oldest event: what it takes for its end is what the event says,
\* and an honest event says how this turn's response ended.
LEMMA OursReceive ==
  ASSUME OursBook, wire # <<>>, Receive(Head(wire)), wire' = Tail(wire),
         UNCHANGED <<response, noise>>
  PROVE  OursBook'
<1> DEFINE e == Head(wire)
<1>1. wire \in Seq(Published) /\ \A i \in 1..Len(wire) : Honest(wire[i])
  BY DEF OursBook
<1>2. /\ e \in Published /\ Honest(e)
      /\ wire' \in Seq(Published)
      /\ Len(wire') = Len(wire) - 1
      /\ \A i \in 1..Len(wire') : i + 1 \in 1..Len(wire) /\ wire'[i] = wire[i + 1]
  BY <1>1
<1>3. tracker' = Track(tracker, e)
  BY DEF Receive
<1>4. Taken(tracker, e, tracker')
  BY <1>2, <1>3, PublishedIsTracked DEF OursBook
<1>5. tracker' \in Trackers /\ tracker'.end = tracker.end
  BY <1>4 DEF Taken
<1>6. \A i \in 1..Len(wire') : Honest(wire[i])'
  BY <1>1, <1>2, <1>5 DEF Honest
<1>7. AnswerIsOurs'
  <2>1. CASE tracker'.id = tracker.id
    BY <2>1 DEF OursBook, AnswerIsOurs
  <2>2. CASE tracker'.id # tracker.id
    <3>1. tracker'.id = e.response /\ e.response = Mine /\ response = "finished"
      BY <1>2, <1>4, <2>2 DEF Taken, Honest
    <3> QED
      BY <3>1 DEF AnswerIsOurs
  <2> QED
    BY <2>1, <2>2
<1>8. FailureIsOurs'
  <2>1. CASE tracker'.failedTurnID = tracker.failedTurnID
    BY <2>1 DEF OursBook, FailureIsOurs
  <2>2. CASE tracker'.failedTurnID # tracker.failedTurnID
    <3>1. tracker'.failedTurnID = e.response /\ e.response = Mine /\ response = "failed"
      BY <1>2, <1>4, <2>2 DEF Taken, Honest
    <3> QED
      BY <3>1 DEF FailureIsOurs
  <2> QED
    BY <2>1, <2>2
<1> QED
  BY <1>2, <1>5, <1>6, <1>7, <1>8, Zenon DEF OursBook

\* The prompt moves the tracker's anchor, and nothing else of it.
LEMMA OursPrompt ==
  ASSUME OursBook, UNCHANGED <<response, noise, wire>>,
         NEW o \in PostOutcomes, NEW i \in Items \union Pendings \union {Blank}, PostPrompt(o, i)
  PROVE  OursBook'
<1>1. CASE UNCHANGED tracker
  BY <1>1, OursKept
<1>2. CASE tracker' = anchorOn(tracker, i)
  <2>1. /\ tracker' \in Trackers /\ tracker'.end = tracker.end /\ tracker'.id = tracker.id
        /\ tracker'.failedTurnID = tracker.failedTurnID
    BY <1>2 DEF OursBook, anchorOn, Trackers
  <2> QED
    BY <2>1 DEF OursBook, Honest, AnswerIsOurs, FailureIsOurs
<1> QED
  BY <1>1, <1>2 DEF PostPrompt

LEMMA OursFinish == OursBook /\ Finish => OursBook'
<1> SUFFICES ASSUME OursBook, Finish
             PROVE  OursBook'
  OBVIOUS
<1>1. PICK ok \in BOOLEAN : /\ response' = IF ok THEN "finished" ELSE "failed"
                            /\ Publish(Finale(Session, Mine, ok))
  BY Zenon DEF Finish
<1> DEFINE e == Finale(Session, Mine, ok)
<1>2. response = "running" /\ UNCHANGED <<tracker, noise>>
  BY DEF Finish, vars, turn
<1>3. CASE tracker.end = "idle"
  <2>1. e = Edge(IF ok THEN "idle" ELSE "failed", Session, Mine)
    BY <1>3 DEF Finale
  <2>2. e \in Published
    BY <2>1 DEF Published
  <2>3. e.response = Mine /\ (Success(e) <=> ok)
    BY <2>1 DEF Edge, Success
  <2> QED
    BY <1>1, <1>2, <2>2, <2>3, OursMoves
<1>4. CASE tracker.end # "idle"
  <2>1. e = Lifecycle(IF ok THEN "response.completed" ELSE "response.failed", Mine)
    BY <1>4 DEF Finale
  <2>2. e \in Published
    BY <2>1 DEF Published, Terminals
  <2>3. e.response = Mine /\ (Success(e) <=> ok)
    BY <2>1 DEF Lifecycle, Success
  <2> QED
    BY <1>1, <1>2, <2>2, <2>3, OursMoves
<1> QED
  BY <1>3, <1>4

\* An older response ends: every event that names it is one the tracker was told of.
LEMMA OursOld == OursBook /\ OldFinishes => OursBook'
<1> SUFFICES ASSUME OursBook, OldFinishes
             PROVE  OursBook'
  OBVIOUS
<1>1. PICK ok \in BOOLEAN : Disturb("old", Finale(Session, Old, ok))
  BY Zenon DEF OldFinishes
<1> DEFINE e == Finale(Session, Old, ok)
<1>2. /\ Publish(e) /\ UNCHANGED <<tracker, response>> /\ noise' \subseteq noise
  BY <1>1 DEF Disturb, vars, turn
<1>3. e \in Published /\ e.response = Old
  <2>1. CASE tracker.end = "idle"
    <3>1. e = Edge(IF ok THEN "idle" ELSE "failed", Session, Old)
      BY <2>1 DEF Finale
    <3> QED
      BY <3>1, EdgeSays
  <2>2. CASE tracker.end # "idle"
    <3>1. e = Lifecycle(IF ok THEN "response.completed" ELSE "response.failed", Old)
      BY <2>2 DEF Finale
    <3> QED
      BY <3>1, LifecycleSays DEF Terminals
  <2> QED
    BY <2>1, <2>2
<1>4. Honest(e)
  BY <1>3 DEF Honest, OursBook
<1> QED
  BY <1>2, <1>3, <1>4, OursPublish

\* A sub-agent's end names its session under the idle rule, and is not mirrored under
\* the other.
LEMMA OursChild == OursBook /\ ChildFinishes => OursBook'
<1> SUFFICES ASSUME OursBook, ChildFinishes
             PROVE  OursBook'
  OBVIOUS
<1> USE SessionAssumption, TrackerAssumption
<1> DEFINE e == Finale(Child, Sub, TRUE)
<1>1. /\ Publish(e) /\ UNCHANGED <<tracker, response>> /\ noise' \subseteq noise
      /\ "child" \in noise
  BY DEF ChildFinishes, Disturb, vars, turn
<1>2. tracker.end = "idle"
  BY <1>1 DEF OursBook, Trackers
<1>3. e = Edge("idle", Child, Sub)
  BY <1>2 DEF Finale
<1>4. e \in Published /\ e.kind = "session.status" /\ e.session = Child
  BY <1>3, EdgeSays
<1>5. Child \notin {Blank, Session}
  OBVIOUS
<1>6. Honest(e)
  BY <1>4, <1>5 DEF Honest, Judged, Terminals, couldBeThisSession
<1> QED
  BY <1>1, <1>4, <1>6, OursPublish

\* No end rule listens to what else is on the stream.
LEMMA OursElse ==
  ASSUME OursBook, NEW e \in Published, Publish(e), UNCHANGED <<tracker, response>>,
         noise' \subseteq noise, e.kind \notin {"session.status"} \union Terminals
  PROVE  OursBook'
BY OursPublish DEF Honest, Judged

LEMMA OursNext == OursBook /\ [SessionNext]_allvars => OursBook'
<1> SUFFICES ASSUME OursBook, [SessionNext]_allvars
             PROVE  OursBook'
  OBVIOUS
<1> USE SessionAssumption, TrackerAssumption
<1>1. ASSUME Step, UNCHANGED <<server, wire, lost>>
      PROVE  OursBook'
  <2>1. UNCHANGED tracker
    BY <1>1 DEF Step, YieldEvent, ActOnNothing, ActOnObserved, ActOnResponse, EndResponse,
       ActOnItem, RefuseDuplicate, RefuseOverBudget, Dispatch, RunTool, ToolEnded, Check, turn
  <2> QED
    BY <1>1, <2>1, OursKept DEF server
<1>2. ASSUME NEW d \in {"accept", "decline", "panic"}, Decide(d), UNCHANGED <<server, wire, lost>>
      PROVE  OursBook'
  BY <1>2, OursKept DEF Decide, server
<1>3. CASE SessionReceive
  BY <1>3, OursReceive DEF SessionReceive, server
<1>4. CASE TakePrompt
  <2>1. PICK o \in PostOutcomes, i \in Items \union Pendings \union {Blank} : PostPrompt(o, i)
    BY <1>4 DEF TakePrompt, PostOutcomes
  <2> QED
    BY <1>4, <2>1, OursPrompt DEF TakePrompt
<1>5. CASE TakeOutput
  BY <1>5, OursKept DEF TakeOutput, PostOutput, turn
<1>6. CASE TakeVerdict
  BY <1>6, OursKept DEF TakeVerdict, PostVerdict, turn
<1>7. CASE Consume
  <2>1. PICK c \in Pendings \union {Absent} : Publish(Echo(MyItem, c))
    BY <1>7 DEF Consume
  <2>2. Echo(MyItem, c) \in Published
    BY DEF Published
  <2>3. Echo(MyItem, c).kind \notin {"session.status"} \union Terminals
    BY DEF Echo, Terminals
  <2> QED
    BY <1>7, <2>1, <2>2, <2>3, OursElse DEF Consume, vars, turn
<1>8. CASE Start
  <2>1. Lifecycle("response.in_progress", Mine) \in Published
    BY DEF Published, Announcing
  <2>2. ~Judged(tracker.end, Lifecycle("response.in_progress", Mine))
    BY DEF Lifecycle, Judged, Terminals
  <2> QED
    BY <1>8, <2>1, <2>2, OursMoves DEF Start, vars, turn
<1>9. CASE Finish
  BY <1>9, OursFinish
<1>10. ASSUME NEW r \in Readers, Claim(r) \/ Refuse(r), UNCHANGED <<server, wire, lost>>
       PROVE  OursBook'
  BY <1>10, OursKept DEF Claim, Refuse, turn, server
<1>11. ASSUME StreamFails \/ StreamCloses, UNCHANGED <<server, wire, lost>>
       PROVE  OursBook'
  BY <1>11, OursKept DEF StreamFails, StreamCloses, turn, server
<1>12. CASE EarlyTerminal
  <2>1. Lifecycle("response.completed", Mine) \in Published
    BY DEF Published, Terminals
  <2>2. ~Judged(tracker.end, Lifecycle("response.completed", Mine))
    BY <1>12 DEF EarlyTerminal, Lifecycle, Judged
  <2> QED
    BY <1>12, <2>1, <2>2, OursPublish DEF EarlyTerminal, Honest, vars, turn
<1>13. ASSUME NEW c \in Calls, ParkCall(c) \/ Redeliver(c)
       PROVE  OursBook'
  <2>1. ItemDone(c) \in Published
    BY DEF Published
  <2>2. ItemDone(c).kind \notin {"session.status"} \union Terminals
    BY DEF ItemDone, Terminals
  <2>3. Publish(ItemDone(c)) /\ UNCHANGED <<tracker, response>> /\ noise' \subseteq noise
    BY <1>13 DEF ParkCall, Redeliver, Disturb, vars, turn
  <2> QED
    BY <2>1, <2>2, <2>3, OursElse
<1>14. ASSUME NEW s \in {Session, Child}, ParkApproval(s)
       PROVE  OursBook'
  <2>1. PICK p \in Prompts : Publish(Ask(p, IF s = Session THEN Absent ELSE s))
    BY <1>14, Zenon DEF ParkApproval
  <2>2. PICK t \in {Child, Absent} : Publish(Ask(p, t))
    BY <2>1
  <2>3. Ask(p, t) \in Published
    BY DEF Published
  <2>4. Ask(p, t).kind \notin {"session.status"} \union Terminals
    BY DEF Ask, Terminals
  <2> QED
    BY <1>14, <2>2, <2>3, <2>4, OursElse DEF ParkApproval, vars, turn
<1>15. CASE OldFinishes
  BY <1>15, OursOld
<1>16. CASE ChildFinishes
  BY <1>16, OursChild
<1>17. CASE OtherEcho
  <2>1. Echo(OtherItem, Absent) \in Published
    BY DEF Published
  <2>2. Echo(OtherItem, Absent).kind \notin {"session.status"} \union Terminals
    BY DEF Echo, Terminals
  <2> QED
    BY <1>17, <2>1, <2>2, OursElse DEF OtherEcho, Disturb, vars, turn
<1>18. CASE Supersede
  <2> DEFINE e == [kind |-> "session.superseded", session |-> Session]
  <2>1. e \in Published /\ e.kind \notin {"session.status"} \union Terminals
    BY DEF Published, Terminals
  <2> QED
    BY <1>18, <2>1, OursElse DEF Supersede, Disturb, vars, turn
<1>19. CASE UNCHANGED allvars
  BY <1>19, OursKept DEF allvars, vars, turn, server
<1>20. ASSUME Finished, UNCHANGED <<server, wire, lost>>
       PROVE  OursBook'
  BY <1>20, OursKept DEF Finished, vars, turn, server
<1> QED
  BY <1>1, <1>2, <1>3, <1>4, <1>5, <1>6, <1>7, <1>8, <1>9, <1>10, <1>11, <1>12, <1>13,
     <1>14, <1>15, <1>16, <1>17, <1>18, <1>19, <1>20, Zenon
  DEF SessionNext, ClientStep, ServerStep

LEMMA OursAlways == Told /\ SessionSpec => []OursBook
  BY OursInit, OursNext, PTL DEF SessionSpec

\* A turn that was told which responses are old, and on a stream that mirrors no
\* sub-agent when the end is a lifecycle terminal, answers with the response the server
\* ran for its own prompt, once that had finished (turnTracker, Options.PriorResponseIDs).
THEOREM AnswerIsOursHolds == Told /\ SessionSpec => []AnswerIsOurs
<1>1. OursBook => AnswerIsOurs
  BY DEF OursBook
<1> QED
  BY <1>1, OursAlways, PTL

\* On the same terms, the response a caller salvages a partial answer from is the one of
\* its own prompt, which failed (turnTracker.failedTurnID).
THEOREM FailureIsOursHolds == Told /\ SessionSpec => []FailureIsOurs
<1>1. OursBook => FailureIsOurs
  BY DEF OursBook
<1> QED
  BY <1>1, OursAlways, PTL

-----------------------------------------------------------------------------
(* The session's turn is a turn: the server and the client's steps with it.     *)

\* Every event the server builds is one it may publish.
LEMMA Publishes ==
  ASSUME WireBook, NEW e \in Published, Publish(e)
  PROVE  WireBook'
BY DEF WireBook, Publish

\* The steps of the server, and of whatever else happens on its side.
ServerMoves ==
  \/ Consume \/ Start \/ Finish \/ EarlyTerminal
  \/ \E c \in Calls : ParkCall(c) \/ Redeliver(c)
  \/ \E s \in {Session, Child} : ParkApproval(s)
  \/ OldFinishes \/ ChildFinishes \/ OtherEcho \/ Supersede

LEMMA FinaleIsPublished ==
  ASSUME NEW w \in {Session, Child}, NEW r \in {Mine, Old, Sub}, NEW ok \in BOOLEAN
  PROVE  Finale(w, r, ok) \in Published
<1>1. \A s \in {"idle", "failed"} : Edge(s, w, r) \in Published
  BY EdgeSays
<1>2. \A k \in Terminals : Lifecycle(k, r) \in Published
  BY LifecycleSays
<1> QED
  BY <1>1, <1>2 DEF Finale, Terminals

LEMMA ServerPublishes ==
  ASSUME WireBook, ServerMoves
  PROVE  WireBook' /\ UNCHANGED vars
<1>1. CASE Consume
  <2>1. PICK c \in Pendings \union {Absent} : Publish(Echo(MyItem, c))
    BY <1>1 DEF Consume
  <2>2. Echo(MyItem, c) \in Published
    BY DEF Published
  <2> QED
    BY <1>1, <2>1, <2>2, Publishes DEF Consume
<1>2. CASE Start \/ EarlyTerminal
  <2>1. \A k \in Announcing \union Terminals : Lifecycle(k, Mine) \in Published
    BY LifecycleSays
  <2>2. {"response.in_progress", "response.completed"} \subseteq Announcing \union Terminals
    BY DEF Announcing, Terminals
  <2> QED
    BY <1>2, <2>1, <2>2, Publishes DEF Start, EarlyTerminal
<1>3. CASE Finish
  <2>1. PICK ok \in BOOLEAN : Publish(Finale(Session, Mine, ok))
    BY <1>3 DEF Finish
  <2>2. Finale(Session, Mine, ok) \in Published
    BY FinaleIsPublished
  <2> QED
    BY <1>3, <2>1, <2>2, Publishes DEF Finish
<1>4. CASE OldFinishes \/ ChildFinishes
  <2>1. PICK e \in {Finale(Session, Old, TRUE), Finale(Session, Old, FALSE),
                    Finale(Child, Sub, TRUE)} : Publish(e) /\ UNCHANGED vars
    BY <1>4 DEF OldFinishes, ChildFinishes, Disturb
  <2>2. e \in Published
    BY FinaleIsPublished
  <2> QED
    BY <2>1, <2>2, Publishes
<1>5. ASSUME NEW c \in Calls, ParkCall(c) \/ Redeliver(c)
      PROVE  WireBook' /\ UNCHANGED vars
  <2>1. ItemDone(c) \in Published
    BY DEF Published
  <2> QED
    BY <1>5, <2>1, Publishes DEF ParkCall, Redeliver, Disturb
<1>6. ASSUME NEW s \in {Session, Child}, ParkApproval(s)
      PROVE  WireBook' /\ UNCHANGED vars
  <2>1. PICK p \in Prompts : Publish(Ask(p, IF s = Session THEN Absent ELSE s))
    BY <1>6, Zenon DEF ParkApproval
  <2>2. PICK t \in {Child, Absent} : Publish(Ask(p, t))
    BY <2>1
  <2>3. Ask(p, t) \in Published
    BY DEF Published
  <2> QED
    BY <1>6, <2>2, <2>3, Publishes DEF ParkApproval
<1>7. CASE OtherEcho
  <2>1. Echo(OtherItem, Absent) \in Published
    BY DEF Published
  <2> QED
    BY <1>7, <2>1, Publishes DEF OtherEcho, Disturb
<1>8. CASE Supersede
  <2>1. [kind |-> "session.superseded", session |-> Session] \in Published
    BY DEF Published
  <2> QED
    BY <1>8, <2>1, Publishes DEF Supersede, Disturb
<1> QED
  BY <1>1, <1>2, <1>3, <1>4, <1>5, <1>6, <1>7, <1>8 DEF ServerMoves

\* What the client reads off the wire its stream may carry, and what it posts it may post.
LEMMA SessionStep ==
  ASSUME WireBook, [SessionNext]_allvars
  PROVE  WireBook' /\ [Next]_vars
<1> USE SessionAssumption
<1>1. CASE SessionReceive
  <2>1. wire \in Seq(Published) /\ wire # <<>> /\ wire' = Tail(wire) /\ Receive(Head(wire))
    BY <1>1 DEF SessionReceive, WireBook
  <2>2. Head(wire) \in Published /\ wire' \in Seq(Published)
    BY <2>1
  <2> QED
    BY <2>1, <2>2, FeedAssumption DEF WireBook, Next
<1>2. CASE TakePrompt
  <2>1. \/ \E i \in Items \union Pendings \union {Blank} : PostPrompt("accepted", i)
        \/ \E o \in {"denied", "failed"} : PostPrompt(o, Blank)
    BY <1>2, Zenon DEF TakePrompt
  <2>2. Next
    BY <2>1 DEF Next, Post
  <2> QED
    BY <1>2, <2>2 DEF TakePrompt, WireBook
<1>3. CASE TakeOutput
  <2>1. \E o \in PostOutcomes : PostOutput(o)
    BY <1>3, Zenon DEF TakeOutput
  <2>2. Next
    BY <2>1 DEF Next, Post
  <2> QED
    BY <1>3, <2>2 DEF TakeOutput, WireBook
<1>4. CASE TakeVerdict
  <2>1. \E o \in {"accepted", "failed"} : PostVerdict(o)
    BY <1>4, Zenon DEF TakeVerdict
  <2>2. Next
    BY <2>1 DEF Next, Post
  <2> QED
    BY <1>4, <2>2 DEF TakeVerdict, WireBook
<1>5. ASSUME UNCHANGED wire,
             Step \/ (\E d \in {"accept", "decline", "panic"} : Decide(d))
             \/ (\E r \in Readers : Claim(r) \/ Refuse(r)) \/ StreamFails \/ StreamCloses
             \/ Finished
      PROVE  WireBook' /\ [Next]_vars
  BY <1>5 DEF WireBook, Next, Post
<1>6. CASE ServerMoves
  BY <1>6, ServerPublishes
<1>7. CASE UNCHANGED allvars
  BY <1>7 DEF allvars, WireBook
<1> QED
  BY <1>1, <1>2, <1>3, <1>4, <1>5, <1>6, <1>7
  DEF SessionNext, ClientStep, ServerStep, ServerMoves

\* Closed with its server, a turn does nothing ChatTurn does not allow: what is proved of
\* a turn, whatever its stream carries, holds of a turn in a session (Chat.drive).
THEOREM SessionIsATurn == SessionSpec => Spec
<1>1. SessionInit => Init /\ WireBook
  BY DEF SessionInit, WireBook
<1>2. WireBook /\ [SessionNext]_allvars => WireBook' /\ [Next]_vars
  BY SessionStep
<1> QED
  BY <1>1, <1>2, PTL DEF SessionSpec, Spec

\* The server's part of SessionTypeOK.
ServerTypeOK ==
  /\ prompt \in {"unsent", "taken", "parked", "consumed"}
  /\ response \in {"none", "running", "finished", "failed"}
  /\ early \in BOOLEAN
  /\ call \in [Calls -> {"unraised", "parked", "released"}]
  /\ approval \in {"unraised", "parked", "resolved"}
  /\ owner \in Sessions
  /\ noise \subseteq NoiseKinds
  /\ lost \in BOOLEAN

LEMMA ServerTypeInit == SessionInit => ServerTypeOK
<1> SUFFICES ASSUME SessionInit
             PROVE  ServerTypeOK
  OBVIOUS
<1>1. PICK end \in Ends : tracker = newTurnTracker(end)
  BY Zenon DEF SessionInit, Init
<1>2. noise \subseteq NoiseKinds
  <2>1. tracker.end \in Ends
    BY <1>1 DEF newTurnTracker
  <2> QED
    BY <2>1, SessionAssumption DEF SessionInit
<1> QED
  BY <1>2, TrackerAssumption DEF SessionInit, ServerTypeOK

LEMMA ServerTypeNext ==
  ASSUME ServerTypeOK, [SessionNext]_allvars
  PROVE  ServerTypeOK'
<1> USE SessionAssumption, TrackerAssumption
<1>1. ASSUME UNCHANGED <<server, lost>>
      PROVE  ServerTypeOK'
  BY <1>1 DEF ServerTypeOK, server
<1>2. CASE TakePrompt
  BY <1>2 DEF TakePrompt, ServerTypeOK
<1>3. CASE TakeOutput
  BY <1>3 DEF TakeOutput, ServerTypeOK
<1>4. CASE TakeVerdict
  BY <1>4 DEF TakeVerdict, ServerTypeOK
<1>5. CASE Consume \/ Start \/ Finish \/ EarlyTerminal
  BY <1>5 DEF Consume, Start, Finish, EarlyTerminal, ServerTypeOK
<1>6. ASSUME NEW c \in Calls, ParkCall(c)
      PROVE  ServerTypeOK'
  BY <1>6 DEF ParkCall, ServerTypeOK
<1>7. ASSUME NEW s \in {Session, Child}, ParkApproval(s)
      PROVE  ServerTypeOK'
  BY <1>7 DEF ParkApproval, ServerTypeOK
<1>8. ASSUME NEW kind, NEW e, Disturb(kind, e)
      PROVE  ServerTypeOK'
  BY <1>8 DEF Disturb, ServerTypeOK
<1>9. OldFinishes \/ ChildFinishes \/ OtherEcho \/ Supersede \/ (\E c \in Calls : Redeliver(c))
        => \E kind, e : Disturb(kind, e)
  BY Zenon DEF OldFinishes, ChildFinishes, OtherEcho, Supersede, Redeliver
<1> QED
  BY <1>1, <1>2, <1>3, <1>4, <1>5, <1>6, <1>7, <1>8, <1>9
  DEF SessionNext, ClientStep, ServerStep, SessionReceive, allvars

\* A session's state has its types, the turn's and the server's, and so has what is on
\* the wire (Turn, turnRun).
THEOREM SessionTypes == SessionSpec => []SessionTypeOK
<1>1. SessionInit => WireBook
  BY DEF SessionInit, WireBook
<1>2. WireBook /\ [SessionNext]_allvars => WireBook'
  BY SessionStep
<1>3. TypeOK /\ WireBook /\ ServerTypeOK => SessionTypeOK
  <2>1. Published \subseteq Events
    BY FeedAssumption, ChatAssumption
  <2>2. WireBook => wire \in Seq(Events)
    BY <2>1 DEF WireBook
  <2> QED
    BY <2>2 DEF ServerTypeOK, SessionTypeOK
<1>4. ServerTypeOK /\ [SessionNext]_allvars => ServerTypeOK'
  BY ServerTypeNext
<1> QED
  BY <1>1, <1>2, <1>3, <1>4, ServerTypeInit, SessionIsATurn, TypeCorrect, PTL DEF SessionSpec
=============================================================================
