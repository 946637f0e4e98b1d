----------------------------- MODULE ChatSession -----------------------------
(***************************************************************************)
(* ChatTurn closed with the server it talks to.                            *)
(*                                                                         *)
(* The server is external: it does what the client's code and comments     *)
(* rely on.  It echoes a consumed prompt, runs one response for it, parks  *)
(* the response on every tool call and approval until it is answered, and  *)
(* publishes the end where the harness family puts it.  Around that it     *)
(* does what the client has to tell apart from its own turn: an older      *)
(* response finishes, a sub-agent's events are mirrored onto the stream,   *)
(* another client's message is consumed, a call is delivered twice, the    *)
(* session is superseded.                                                  *)
(***************************************************************************)
EXTENDS ChatTurn, Sequences

CONSTANTS
  Child,     (* The session of a sub-agent, mirrored onto this stream.      *)
  Mine,      (* The response the server runs for this turn's prompt.        *)
  Old,       (* A response that was live before the prompt.                 *)
  Sub,       (* The sub-agent's response.                                   *)
  MyItem,    (* The conversation item this turn's prompt becomes.           *)
  OtherItem, (* The item of somebody else's message.                        *)
  Noise      (* Under each end rule, the sets of things that may happen.    *)

NoiseKinds == {"old", "child", "echo", "redelivery", "superseded", "approval"}

ASSUME SessionAssumption ==
  /\ Child \in Sessions \ {Session}
  /\ {Mine, Old, Sub} \subseteq Responses
  /\ {MyItem, OtherItem} \subseteq Items
  /\ Noise \in [Ends -> SUBSET SUBSET NoiseKinds]

VARIABLES
  wire,      (* Events published to the subscription and not yet read.      *)
  prompt,    (* unsent, then taken as an item or parked, then consumed.     *)
  response,  (* Mine: none, running, finished or failed.                    *)
  early,     (* The idle-family harness has sent its early terminal.        *)
  call,      (* Per call: unraised, parked or released.                     *)
  approval,  (* unraised, parked or resolved.                               *)
  owner,     (* The session that raised the approval.                       *)
  noise,     (* The noise still to come.                                    *)
  lost       (* A post never reached the server, which goes on waiting.     *)

server  == <<prompt, response, early, call, approval, owner, noise>>
allvars == <<vars, server, wire, lost>>

SessionTypeOK ==
  /\ TypeOK
  /\ wire \in Seq(Events)
  /\ prompt \in {"unsent", "taken", "parked", "consumed"}
  /\ response \in {"none", "running", "finished", "failed"}
  /\ early \in BOOLEAN
  /\ call \in [Calls -> {"unraised", "parked", "released"}]
  /\ approval \in {"unraised", "parked", "resolved"}
  /\ owner \in Sessions
  /\ noise \subseteq NoiseKinds
  /\ lost \in BOOLEAN

SessionInit ==
  /\ Init
  /\ wire = <<>>
  /\ prompt = "unsent"
  /\ response = "none"
  /\ early = FALSE
  /\ call = [c \in Calls |-> "unraised"]
  /\ approval = "unraised"
  /\ owner = Session
  /\ noise \in Noise[tracker.end]
  /\ lost = FALSE

Subscribed == pc # "unread"
Publish(e) == Subscribed /\ wire' = Append(wire, e)

-----------------------------------------------------------------------------
(* The events the server builds. *)
Echo(item, cleared) == [kind |-> "input.consumed", item |-> item, cleared |-> cleared]
Edge(status, session, resp) ==
  [kind |-> "session.status", status |-> status, session |-> session, response |-> resp]
Lifecycle(kind, resp) == [kind |-> kind, response |-> resp]
ItemDone(c) == [kind |-> "output_item.done", call |-> c, tool |-> CHOOSE t \in Names : TRUE,
                awaiting |-> TRUE]
Ask(p, target) == [kind |-> "elicitation.request", prompt |-> p, target |-> target]

\* Where each harness family puts the end of a response.
Finale(session, resp, ok) ==
  IF tracker.end = "idle"
  THEN Edge(IF ok THEN "idle" ELSE "failed", session, resp)
  ELSE Lifecycle(IF ok THEN "response.completed" ELSE "response.failed", resp)

-----------------------------------------------------------------------------
(* The server's own steps. *)

Consume ==
  /\ prompt \in {"taken", "parked"}
  /\ prompt' = "consumed"
  /\ \E cleared \in IF prompt = "parked" THEN Pendings ELSE {Absent} :
       Publish(Echo(MyItem, cleared))
  /\ UNCHANGED <<vars, response, early, call, approval, owner, noise, lost>>

Start ==
  /\ prompt = "consumed" /\ response = "none"
  /\ response' = "running"
  /\ Publish(Lifecycle("response.in_progress", Mine))
  /\ UNCHANGED <<vars, prompt, early, call, approval, owner, noise, lost>>

\* The idle family: a terminal that only says the prompt reached the harness.
EarlyTerminal ==
  /\ tracker.end = "idle" /\ response = "running" /\ ~early
  /\ early' = TRUE
  /\ Publish(Lifecycle("response.completed", Mine))
  /\ UNCHANGED <<vars, prompt, response, call, approval, owner, noise, lost>>

ParkCall(c) ==
  /\ response = "running" /\ call[c] = "unraised"
  /\ call' = [call EXCEPT ![c] = "parked"]
  /\ Publish(ItemDone(c))
  /\ UNCHANGED <<vars, prompt, response, early, approval, owner, noise, lost>>

ParkApproval(s) ==
  /\ "approval" \in noise
  /\ response = "running" /\ approval = "unraised"
  /\ approval' = "parked"
  /\ owner' = s
  /\ \E p \in Prompts : Publish(Ask(p, IF s = Session THEN Absent ELSE s))
  /\ UNCHANGED <<vars, prompt, response, early, call, noise, lost>>

Unparked == approval # "parked" /\ \A c \in Calls : call[c] # "parked"

Finish ==
  /\ response = "running" /\ Unparked
  /\ \E ok \in BOOLEAN :
       /\ response' = IF ok THEN "finished" ELSE "failed"
       /\ Publish(Finale(Session, Mine, ok))
  /\ UNCHANGED <<vars, prompt, early, call, approval, owner, noise, lost>>

Disturb(kind, e) ==
  /\ kind \in noise
  /\ noise' = noise \ {kind}
  /\ Publish(e)
  /\ UNCHANGED <<vars, prompt, response, early, call, approval, owner, lost>>

OldFinishes == \E ok \in BOOLEAN : Disturb("old", Finale(Session, Old, ok))
ChildFinishes == Disturb("child", Finale(Child, Sub, TRUE))
OtherEcho == Disturb("echo", Echo(OtherItem, Absent))
Redeliver(c) == call[c] # "unraised" /\ Disturb("redelivery", ItemDone(c))
Supersede == Disturb("superseded", [kind |-> "session.superseded", session |-> Session])

-----------------------------------------------------------------------------
(* The client's steps, with what reaches the server. *)

SessionReceive ==
  /\ wire # <<>>
  /\ Receive(Head(wire))
  /\ wire' = Tail(wire)
  /\ UNCHANGED <<server, lost>>

\* An acknowledgement can be lost after the server took the prompt.
TakePrompt ==
  /\ \/ /\ PostPrompt("accepted", MyItem) /\ prompt' = "taken"
     \/ \E p \in Pendings : PostPrompt("accepted", p) /\ prompt' = "parked"
     \/ PostPrompt("denied", Blank) /\ UNCHANGED prompt
     \/ PostPrompt("failed", Blank) /\ prompt' \in {"unsent", "taken"}
  /\ UNCHANGED <<response, early, call, approval, owner, noise, wire, lost>>

TakeOutput ==
  /\ \E o \in PostOutcomes :
       /\ PostOutput(o)
       /\ \/ /\ call' = [call EXCEPT ![event.call] = "released"]
             /\ UNCHANGED lost
          \/ /\ o # "accepted"
             /\ lost' = TRUE
             /\ UNCHANGED call
  /\ UNCHANGED <<prompt, response, early, approval, owner, noise, wire>>

TakeVerdict ==
  /\ \E o \in {"accepted", "failed"} :
       /\ PostVerdict(o)
       /\ \/ /\ approval' = IF elicitationTarget(event) = owner THEN "resolved" ELSE approval
             /\ UNCHANGED lost
          \/ /\ o = "failed"
             /\ lost' = TRUE
             /\ UNCHANGED approval
  /\ UNCHANGED <<prompt, response, early, call, owner, noise, wire>>

ClientStep ==
  \/ Step /\ UNCHANGED <<server, wire, lost>>
  \/ (\E d \in {"accept", "decline", "panic"} : Decide(d)) /\ UNCHANGED <<server, wire, lost>>
  \/ SessionReceive \/ TakePrompt \/ TakeOutput \/ TakeVerdict

ServerStep == Consume \/ Start \/ Finish

SessionNext ==
  \/ ClientStep
  \/ ServerStep
  \/ (\E r \in Readers : Claim(r) \/ Refuse(r)) /\ UNCHANGED <<server, wire, lost>>
  \/ (StreamFails \/ StreamCloses) /\ UNCHANGED <<server, wire, lost>>
  \/ EarlyTerminal
  \/ \E c \in Calls : ParkCall(c) \/ Redeliver(c)
  \/ \E s \in {Session, Child} : ParkApproval(s)
  \/ OldFinishes \/ ChildFinishes \/ OtherEcho \/ Supersede
  \/ Finished /\ UNCHANGED <<server, wire, lost>>

\* The client's goroutine runs and what it calls returns; a server that took a
\* prompt consumes it, starts and, once nothing is parked, finishes the response.
\* Nobody has to range over the turn, call a tool or break the stream.
Fairness == WF_allvars(ClientStep) /\ WF_allvars(ServerStep)

SessionSpec == SessionInit /\ [][SessionNext]_allvars /\ Fairness

-----------------------------------------------------------------------------
(***************************************************************************)
(* Properties.                                                             *)
(***************************************************************************)

\* The response a turn ends on is the one the server ran for this turn's prompt,
\* and it had finished: not an older response that ends inside the window, not a
\* mirrored sub-agent's, not the early terminal of an idle-family harness.
AnswerIsOurs ==
  tracker.id # Blank => tracker.id = Mine /\ response = "finished"

\* The response a caller salvages a partial answer from is this turn's.
FailureIsOurs ==
  tracker.failedTurnID # Blank => tracker.failedTurnID = Mine /\ response = "failed"

\* The tool of a parked call and the policy hook of a parked approval are all the
\* server waits for: unless a post failed to reach it, a turn somebody reads comes
\* to its end (runTool answers whatever happened, resolveElicitation answers the
\* session that asked).
TurnEnds == claimed ~> (pc = "done" \/ lost)

-----------------------------------------------------------------------------
(* The strengthening of AnswerIsOurs and FailureIsOurs.  It needs the caller to *)
(* have named the old response, and no mirrored sub-agent under the lifecycle    *)
(* rule, whose terminals do not say which session they are of.                   *)

Told == Old \in Prior /\ \A kinds \in Noise["lifecycle"] : "child" \notin kinds

Published ==
  UNION {{Echo(i, c) : i \in {MyItem, OtherItem}, c \in Pendings \union {Absent}},
         {Edge(s, w, r) : s \in {"idle", "failed"}, w \in {Session, Child}, r \in {Mine, Old, Sub}},
         {Lifecycle(k, r) : k \in Announcing \union Terminals, r \in {Mine, Old, Sub}},
         {ItemDone(c) : c \in Calls},
         {Ask(p, s) : p \in Prompts, s \in {Child, Absent}},
         {[kind |-> "session.superseded", session |-> Session]}}

\* What is published is what the turn's stream may carry.
ASSUME FeedAssumption == Published \subseteq Feed

\* What is on the wire keeps its type, which a turn needs of what it reads.
WireBook == wire \in Seq(Published)

\* The events an end rule listens to.
Judged(end, e) ==
  \/ e.kind = "session.status" /\ couldBeThisSession(e.session)
  \/ e.kind \in Terminals /\ end = "lifecycle"

Success(e) ==
  \/ e.kind = "session.status" /\ e.status = "idle"
  \/ e.kind = "response.completed"

\* Of the events on the wire that could end the turn, those that do not name an old
\* response tell how this turn's ended.
Honest(e) ==
  Judged(tracker.end, e) /\ e.response \notin Prior =>
    e.response = Mine /\ response = IF Success(e) THEN "finished" ELSE "failed"

OursBook ==
  /\ Old \in Prior
  /\ tracker \in Trackers
  /\ tracker.end = "lifecycle" => "child" \notin noise
  /\ wire \in Seq(Published)
  /\ \A i \in 1..Len(wire) : Honest(wire[i])
  /\ AnswerIsOurs
  /\ FailureIsOurs
=============================================================================
