----------------------------- MODULE MCChatTurn -----------------------------
(***************************************************************************)
(* The instance of ChatTurn for TLC.                                       *)
(***************************************************************************)
EXTENDS ChatTurn

\* Everything a tracker reads, about this turn, an older one and a sub-agent, and
\* everything that makes the client act.
WholeFeed ==
  UNION {InputConsumedEvents, StatusEvents, SupersededEvents, ResponseEvents,
         ItemEvents, ElicitationEvents, PlainEvents}

\* One tool overridden, and two registrations that Register refuses: "deploy" is not
\* registered, and the server may ask for it.
Registered ==
  <<[name |-> "search", run |-> "func", schema |-> "empty"],
    [name |-> "deploy", run |-> "nil", schema |-> "given"],
    [name |-> NoName, run |-> "func", schema |-> "given"],
    [name |-> "search", run |-> "func", schema |-> "given"]>>
=============================================================================
