------------------------------- MODULE Tools -------------------------------
(***************************************************************************)
(* The tools a client runs on the agent's behalf (tool.go): what a caller  *)
(* registered, what it advertises, and how one call of one comes out.      *)
(***************************************************************************)
EXTENDS SequencesExt

CONSTANTS
  ToolNames,      (* The names of tools, registered or made up.              *)
  Registrations   (* The caller's calls of Register, in order.               *)

NoName == ""

Registration ==
  [name : ToolNames \union {NoName}, run : {"nil", "func"}, schema : {"empty", "given"}]

ASSUME ToolAssumption == Registrations \in Seq(Registration)

NewToolRegistry == [n \in {} |-> NoName]

\* A registration without a name or a function is refused; a later one of the same name
\* replaces it.
Register(registry, r) ==
  IF r.name = NoName \/ r.run = "nil" THEN registry
  ELSE [n \in DOMAIN registry \union {r.name} |-> IF n = r.name THEN r ELSE registry[n]]

registry == FoldLeft(Register, NewToolRegistry, Registrations)

Names == DOMAIN registry

\* The tools whose schemas are handed to session creation.
Schemas == {n \in Names : registry[n].schema = "given"}

\* How a call of a tool comes out.  Each way has an output to post; the tool ran unless
\* there is none of that name.
run(name) ==
  IF name \in Names THEN {"returned", "failed", "panicked"} ELSE {"unregistered"}
=============================================================================
