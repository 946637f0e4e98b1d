------------------------------ MODULE Queries ------------------------------
(***************************************************************************)
(* The query of a read (list.go, files.go, contracts.go): what a caller's  *)
(* options, and the cursor of a walk, ask of the server.                   *)
(*                                                                         *)
(* Options are a function from the names they are sent under.  NotGiven    *)
(* stands for the zero value of each: no limit, an empty string, a flag    *)
(* left down, a nil pointer.  A pointer may also hold "false".             *)
(***************************************************************************)

NotGiven == ""
NoOptions == [n \in {} |-> NotGiven]

\* The options of these names that have a value.
given(options, names) ==
  [n \in {m \in names \intersect DOMAIN options : options[m] # NotGiven} |-> options[n]]

setPageQuery(options) == given(options, {"limit", "after", "before", "order"})

ListAgentsOptions(options)   == setPageQuery(options)
SessionItemsOptions(options) == setPageQuery(options)
ListFilesOptions(options)    == given(options, {"limit", "order"})

Filters == {"agent_id", "agent_name", "sort_by", "search_query", "kind", "project"}
Flags   == {"include_archived", "pinned"}

Override(query, more) ==
  [n \in DOMAIN query \union DOMAIN more |-> IF n \in DOMAIN more THEN more[n] ELSE query[n]]

ListSessionsOptions(options) ==
  Override(setPageQuery(options), given(options, Filters \union Flags))

\* A pointer to false is given, and sent.
GetSessionOptions(options) ==
  given(options, {"include_items", "include_liveness", "refresh_state"})

DeleteSessionOptions(options) == given(options, {"delete_branch"})

\* One page of a walk: its cursor takes the place of the caller's own.
Page(query, cursor) == IF cursor = NotGiven THEN query ELSE Override(query, [after |-> cursor])
=============================================================================
