-------------------------------- MODULE Event --------------------------------
(***************************************************************************)
(* The events of a stream (event.go): the union a frame decodes into, and  *)
(* how one is decoded.  A variant is named by its wire type; what a        *)
(* variant's fields hold is not modelled, only whether they decode.        *)
(***************************************************************************)

RequestEvents    == {"browser.action_request", "response.client_task.cancel"}
CompactionEvents == {"response.compaction.completed", "response.compaction.failed",
                     "response.compaction.in_progress"}
ElicitationEvents == {"response.elicitation_request", "response.elicitation_resolved"}
ProgressEvents   == {"response.error", "response.in_progress", "response.incomplete"}
OutputEvents     == {"response.output_file.done", "response.output_item.done",
                     "response.output_text.delta"}
PolicyEvents     == {"response.policy_denied", "response.queued"}
ReasoningEvents  == {"response.reasoning.started", "response.reasoning_summary_text.delta",
                     "response.reasoning_text.delta"}
ResponseEvents   == {"response.cancelled", "response.completed", "response.created",
                     "response.failed", "response.heartbeat", "response.retry"}
SessionEvents    ==
  {"session.agent_changed", "session.changed_files.invalidated",
   "session.child_session.updated", "session.collaboration_mode", "session.created",
   "session.heartbeat", "session.input.consumed", "session.interrupted",
   "session.mcp_startup", "session.model", "session.model_options"}
ResourceEvents   ==
  {"session.presence", "session.reasoning_effort", "session.resource.created",
   "session.resource.deleted", "session.sandbox_status", "session.skills",
   "session.status", "session.superseded", "session.terminal.activity",
   "session.terminal_pending", "session.todos", "session.usage"}
ToolEvents       == {"response.function_call_output.delta"}
TurnEvents       == {"turn.cancelled", "turn.completed", "turn.failed", "turn.started"}

eventRegistry ==
  RequestEvents \union CompactionEvents \union ElicitationEvents \union ProgressEvents
  \union OutputEvents \union PolicyEvents \union ReasoningEvents \union ResponseEvents
  \union SessionEvents \union ResourceEvents \union ToolEvents \union TurnEvents

Untyped == ""

\* What decoding gives when it gives no event: an error, no payload, the sentinel.
NoEvents == {"none", "undecodable", "empty", "done"}

\* A type this build does not know is an event of that type, whatever its body holds; a
\* body that is not what a known type says is an error.
decodeByType(wire, fits) == IF wire \in eventRegistry => fits THEN wire ELSE "undecodable"

DecodeEvent(object) ==
  IF object.text # "object" \/ object.type = Untyped THEN "undecodable"
  ELSE decodeByType(object.type, object.fits)
=============================================================================
