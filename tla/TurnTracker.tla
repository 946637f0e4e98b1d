---------------------------- MODULE TurnTracker ----------------------------
(***************************************************************************)
(* The turn tracker (turn.go): the few facts, kept across the events of    *)
(* one subscription, that decide when one turn has ended and how.          *)
(*                                                                         *)
(* A tracker is a record and every method a pure operator from a tracker   *)
(* and an event to the next tracker; ChatTurn drives them.                 *)
(*                                                                         *)
(* Here and in the other modules a definition whose name starts with Bug   *)
(* is a faulty variant of the definition after it: no specification uses   *)
(* it, and PROJECT.json names the property that tells the two apart.       *)
(***************************************************************************)
EXTENDS Naturals, Tools

CONSTANTS
  Session,    (* The session this client reads and posts to.              *)
  Sessions,   (* Every session whose events can be on its stream.         *)
  Responses,  (* Response identifiers.                                    *)
  Items,      (* Conversation item identifiers.                           *)
  Pendings,   (* Identifiers of parked (pending) inputs.                  *)
  Calls,      (* Tool call identifiers.                                   *)
  Prompts,    (* Elicitation (approval request) identifiers.              *)
  Blank,      (* The empty string.                                        *)
  Absent,     (* A nil pointer: the field was not on the wire.            *)
  Ends,       (* TurnOptions.End of these turns: "idle", "lifecycle".     *)
  Prior       (* TurnOptions.PriorResponseIDs, the entries that are true. *)

ASSUME TrackerAssumption ==
  /\ Session \in Sessions
  /\ Prior \subseteq Responses
  /\ Ends \subseteq {"idle", "lifecycle"}
  /\ Blank \notin UNION {Sessions, Responses, Items, Pendings, Calls}
  /\ Absent \notin UNION {Sessions, Responses, Items, Pendings}
  /\ Blank # Absent

-----------------------------------------------------------------------------
(* The events a turn reacts to.  A required string may be empty; an optional *)
(* one may also be missing.                                                  *)

Announcing == {"response.created", "response.in_progress", "response.queued"}
Terminals  == {"response.completed", "response.cancelled",
               "response.incomplete", "response.failed"}
\* Events that only fire one observing hook, and events that do nothing at all.
Observed   == {"reasoning.started", "retry", "error", "output_file.done"}

InputConsumedEvents ==
  [kind : {"input.consumed"}, item : Items, cleared : Pendings \union {Absent}]
StatusEvents ==
  [kind : {"session.status"}, status : {"idle", "running", "failed"},
   session : Sessions \union {Blank}, response : Responses \union {Blank, Absent}]
SupersededEvents ==
  [kind : {"session.superseded"}, session : Sessions \union {Blank}]
ResponseEvents ==
  [kind : Announcing \union Terminals, response : Responses \union {Blank}]
\* call is Blank when the item is no function call, or has no call id or name.
ItemEvents ==
  [kind : {"output_item.done"}, call : Calls \union {Blank}, tool : ToolNames,
   awaiting : BOOLEAN]
ElicitationEvents ==
  [kind : {"elicitation.request"}, prompt : Prompts,
   target : Sessions \union {Blank, Absent}]
PlainEvents == [kind : Observed \union {"other"}]

Events ==
  UNION {InputConsumedEvents, StatusEvents, SupersededEvents, ResponseEvents,
         ItemEvents, ElicitationEvents, PlainEvents}

-----------------------------------------------------------------------------
(* turnTracker *)

Failures == {"turn failed", "superseded"}

Trackers ==
  [end          : Ends,
   anchor       : Items \union Pendings \union {Blank},
   anchorItem   : Items \union {Blank},
   crossed      : BOOLEAN,
   id           : Responses \union {Blank},
   failedTurnID : Responses \union {Blank},
   failure      : Failures \union {"none"}]

newTurnTracker(end) ==
  [end |-> end, anchor |-> Blank, anchorItem |-> Blank, crossed |-> FALSE,
   id |-> Blank, failedTurnID |-> Blank, failure |-> "none"]

describesThisSession(session) == session = Session
couldBeThisSession(session)   == session \in {Blank, Session}

anchorOn(t, identifier) == [t EXCEPT !.anchor = identifier]

Ended(t) == t.id # Blank \/ t.failure # "none"

\* Only the first fatal signal is kept.
fail(t, cause) ==
  IF t.failure = "none" THEN [t EXCEPT !.failure = cause] ELSE t

crossBoundary(t, e) ==
  IF t.anchor # Blank /\ t.anchor \in {e.item, e.cleared}
  THEN [t EXCEPT !.crossed = TRUE, !.anchorItem = e.item]
  ELSE t

\* A response no rule may end this turn on.
Foreign(t, response) == ~t.crossed \/ response \in Prior

\* Any named failure after the boundary is taken for this turn's.
BugTakeAnyFailure(t, e) ==
  IF e.response # Absent /\ ~t.crossed
  THEN t
  ELSE fail(IF t.crossed /\ e.response # Absent
            THEN [t EXCEPT !.failedTurnID = e.response] ELSE t,
            "turn failed")

observeFailedStatus(t, e) ==
  IF e.response # Absent /\ Foreign(t, e.response)
  THEN t
  ELSE fail(IF t.crossed /\ e.response # Absent
            THEN [t EXCEPT !.failedTurnID = e.response] ELSE t,
            "turn failed")

\* A mirrored session's edge is read as this session's.
BugIdleOfAnySession(t, e) ==
  IF /\ e.status = "idle"
     /\ e.response \notin {Absent, Blank}
     /\ ~Foreign(t, e.response)
  THEN [t EXCEPT !.id = e.response]
  ELSE t

observeIdleStatus(t, e) ==
  IF /\ describesThisSession(e.session)
     /\ e.status = "idle"
     /\ e.response \notin {Absent, Blank}
     /\ ~Foreign(t, e.response)
  THEN [t EXCEPT !.id = e.response]
  ELSE t

observeStatus(t, e) ==
  IF e.status # "failed" THEN observeIdleStatus(t, e)
  ELSE IF couldBeThisSession(e.session) THEN observeFailedStatus(t, e) ELSE t

observeResponseTerminal(t, e) ==
  IF t.end # "lifecycle" \/ e.response = Blank \/ Foreign(t, e.response)
  THEN t
  ELSE IF e.kind = "response.completed"
       THEN [t EXCEPT !.id = e.response]
       ELSE fail([t EXCEPT !.failedTurnID = e.response], "turn failed")

observeSuperseded(t, e) ==
  IF describesThisSession(e.session) THEN fail(t, "superseded") ELSE t

(* turnRun.track, the part that moves the tracker. *)
Track(t, e) ==
  CASE e.kind = "input.consumed"     -> crossBoundary(t, e)
    [] e.kind = "session.status"     -> observeStatus(t, e)
    [] e.kind = "session.superseded" -> observeSuperseded(t, e)
    [] e.kind \in Terminals          -> observeResponseTerminal(t, e)
    [] OTHER                         -> t
=============================================================================
