--------------------------- MODULE MCEventStream ---------------------------
(***************************************************************************)
(* Instances of EventStream for TLC.                                       *)
(***************************************************************************)
EXTENDS EventStream

Frame(line, chunks) == [name |-> line, chunks |-> chunks]
Says(text, type) == [text |-> text, type |-> type, fits |-> TRUE]
Misfit(type)     == [text |-> "object", type |-> type, fits |-> FALSE]

\* One frame of each kind: a keepalive, events whole, split, typed by their event: line
\* only, newer than the build, and mistyped by their line; frames that cannot be decoded,
\* the sentinel, one too large.
FrameKinds ==
  {Frame(Untyped, <<>>),
   Frame("turn.failed", <<Says("object", "response.completed")>>),
   Frame("session.status", <<Says("half", "session.status"), Says("half", Untyped)>>),
   Frame("session.usage", <<Says("object", Untyped)>>),
   Frame(Untyped, <<Says("object", Untyped)>>),
   Frame(Untyped, <<Misfit("session.new")>>),
   Frame("session.model", <<Misfit("session.model")>>),
   Frame(Untyped, <<Says("garbage", Untyped)>>),
   Frame(Untyped, <<Says("space", Untyped), Says("DONE", Untyped)>>),
   Frame("session.todos", <<Says("half", "session.todos"), Says("object", "turn.started"),
                            Says("half", Untyped)>>)}
=============================================================================
