---------------------------- MODULE MCChatSession ----------------------------
(***************************************************************************)
(* Instances of ChatSession for TLC.                                       *)
(***************************************************************************)
EXTENDS ChatSession

\* The closed server publishes a fixed set of events; the bound on reads is
\* never reached, and Feed only types the wire.
AllEvents == Events

\* Under the idle rule everybody else's events are on the stream; under the lifecycle
\* rule the turn is parked on an approval, and a call is delivered twice.
Disturbances ==
  [idle      |-> {{"old", "child", "echo"}, {"superseded", "echo"}},
   lifecycle |-> {{"old", "approval"}, {"redelivery"}}]

Mirrored == [lifecycle |-> {{"child"}}]

\* One tool overridden, and two registrations that Register refuses: "deploy" is not
\* registered, and the server may ask for it.
Registered ==
  <<[name |-> "search", run |-> "func", schema |-> "empty"],
    [name |-> "deploy", run |-> "nil", schema |-> "given"],
    [name |-> NoName, run |-> "func", schema |-> "given"],
    [name |-> "search", run |-> "func", schema |-> "given"]>>
=============================================================================
