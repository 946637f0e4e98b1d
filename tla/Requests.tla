------------------------------ MODULE Requests ------------------------------
(***************************************************************************)
(* The operations of a client (session.go, files.go) as the requests they  *)
(* make, and how a request gets its path (resolve, client.go).             *)
(*                                                                         *)
(* An operation is a record: the arguments it insists on, the method, the  *)
(* path segments, what it sends, what it reads of the answer ("value",     *)
(* "verdict" when a denial is its error, "nothing", "stream"), the options *)
(* and the walk's cursor it was given, and the query it makes of them.     *)
(* An argument is "" when left out, "." or ".." when it is a dot segment,  *)
(* "a/b" when it holds a slash, and otherwise an ordinary name.            *)
(***************************************************************************)
EXTENDS NewClient, Queries

Operation(required, method, path, body, reads) ==
  [required |-> required, method |-> method, path |-> path, body |-> body,
   reads |-> reads, size |-> 0,
   options |-> NoOptions, cursor |-> NotGiven, query |-> NoOptions]

Asking(op, options, cursor, query) ==
  [op EXCEPT !.options = options, !.cursor = cursor, !.query = Page(query, cursor)]

sessions == <<"v1", "sessions">>

\* What encoding a caller's value gives.
Bodies == {"json", "unencodable"}

Create(agent, b)       == Operation({agent}, "POST", sessions, b, "value")
Get(session, o)        ==
  Asking(Operation({session}, "GET", sessions \o <<session>>, "none", "value"),
         o, NotGiven, GetSessionOptions(o))
Delete(session, o)     ==
  Asking(Operation({session}, "DELETE", sessions \o <<session>>, "none", "value"),
         o, NotGiven, DeleteSessionOptions(o))
Fork(session, b)       == Operation({session}, "POST", sessions \o <<session, "fork">>, b, "value")

\* One page of a listing, asked for by the walk in Lookup and PageWalk.
List(o, cursor)        ==
  Asking(Operation({}, "GET", sessions, "none", "value"), o, cursor, ListSessionsOptions(o))
ListItems(session, o, cursor) ==
  Asking(Operation({session}, "GET", sessions \o <<session, "items">>, "none", "value"),
         o, cursor, SessionItemsOptions(o))
Children(session, cursor) ==
  Asking(Operation({session}, "GET", sessions \o <<session, "child_sessions">>, "none", "value"),
         NoOptions, cursor, NoOptions)
ListAgents(o, cursor)  ==
  Asking(Operation({}, "GET", <<"v1", "agents">>, "none", "value"),
         o, cursor, ListAgentsOptions(o))

Update(session, b)     == Operation({session}, "PATCH", sessions \o <<session>>, b, "value")

\* An operation that checks one argument more before it calls another.
Also(arg, op) == [op EXCEPT !.required = @ \union {arg}]

BindRunner(session, runner)         == Also(runner, Update(session, "json"))
SetModelOverride(session, model)    == Also(model, Update(session, "json"))
ClearModelOverride(session)         == Update(session, "json")
SetReasoningEffort(session, effort) == Also(effort, Update(session, "json"))
ClearReasoningEffort(session)       == Update(session, "json")
SetArchived(session)                == Update(session, "json")
SetExternalID(session)              == Update(session, "json")

PostEvent(session, type, b) ==
  Operation({session, type}, "POST", sessions \o <<session, "events">>, b, "value")

SendMessage(session)   == PostEvent(session, "message", "json")

postControl(session, type) == [PostEvent(session, type, "json") EXCEPT !.reads = "verdict"]
Interrupt(session)     == postControl(session, "interrupt")
Compact(session)       == postControl(session, "compact")

ResolveElicitation(session, elicitation, action, b) ==
  Operation({session, elicitation, action}, "POST",
            sessions \o <<session, "elicitations", elicitation, "resolve">>, b, "nothing")

-----------------------------------------------------------------------------
(* The files of a session. *)

files(session) == sessions \o <<session, "resources", "files">>

ListFiles(session, o, cursor) ==
  Asking(Operation({session}, "GET", files(session), "none", "value"),
         o, cursor, ListFilesOptions(o))
GetFile(session, file)    == Operation({session, file}, "GET", files(session) \o <<file>>, "none", "value")
DeleteFile(session, file) == Operation({session, file}, "DELETE", files(session) \o <<file>>, "none", "nothing")

\* A file name with a line break or a NUL in it is refused like a missing one.
headerUnsafeRune(name) == IF name = "forged" THEN "" ELSE name

\* content is "" for a nil reader.
Upload(session, name, content) ==
  Operation({session, name, headerUnsafeRune(name), content}, "POST", files(session),
            "pipe", "value")

\* size is maxBytes.
Download(session, file, size) ==
  [Operation({session, file, IF size <= 0 THEN "" ELSE file}, "GET",
             files(session) \o <<file, "content">>, "none", "stream")
     EXCEPT !.size = size]

-----------------------------------------------------------------------------
(* The path of a request. *)

Dots == {".", ".."}

escape(segment) == IF segment = "a/b" THEN "a%2Fb" ELSE segment

\* The elements a URL parser finds in a segment, and what they unescape to: external.
Elements(segment) == IF segment = "a/b" THEN <<"a", "b">> ELSE <<segment>>
unescape(element) == IF element = "a%2Fb" THEN "a/b" ELSE element

\* (*url.URL).ResolveReference on a relative reference: the reference takes the place of
\* what follows the last slash of the base, dot segments walk: external.
Walk(path, element) ==
  CASE element = "."  -> path
    [] element = ".." -> IF path = <<>> THEN path ELSE Front(path)
    [] OTHER          -> Append(path, element)

ResolveReference(path, reference) == FoldLeft(Walk, <<>>, Front(path) \o reference)

unresolvable(segments) == \E i \in DOMAIN segments : segments[i] \in Dots

\* The path the server takes the request for.
resolve(client, segments) ==
  LET parsed == FlattenSeq([i \in DOMAIN segments |-> Elements(escape(segments[i]))])
      path   == ResolveReference(client.path, parsed)
  IN  [i \in DOMAIN path |-> unescape(path[i])]

\* Why an operation sends nothing: an argument it insists on, a dot segment, a body
\* that does not encode.
Unsent(op) ==
  IF "" \in op.required \/ unresolvable(op.path) THEN "invalid"
  ELSE IF op.body = "unencodable" THEN "unencodable" ELSE "none"

-----------------------------------------------------------------------------
(* The operations, each with the arguments and options it takes. *)

OptionsAmong(op, names) == DOMAIN op.options \subseteq names

OfSession(op, session) ==
  \/ op = Get(session, op.options)
       /\ OptionsAmong(op, {"include_items", "include_liveness", "refresh_state"})
  \/ op = Delete(session, op.options) /\ OptionsAmong(op, {"delete_branch"})
  \/ op = ListItems(session, op.options, op.cursor) /\ OptionsAmong(op, {"limit", "after", "before", "order"})
  \/ op = ListFiles(session, op.options, op.cursor) /\ OptionsAmong(op, {"limit", "order"})
  \/ op \in {Children(session, op.cursor), Fork(session, op.body), Update(session, op.body),
            ClearModelOverride(session), ClearReasoningEffort(session), SetArchived(session),
            SetExternalID(session), SendMessage(session), Interrupt(session), Compact(session)}

IsOperation(op) ==
  \/ op = List(op.options, op.cursor)
       /\ OptionsAmong(op, {"limit", "after", "before", "order"} \union Filters \union Flags)
  \/ op = ListAgents(op.options, op.cursor) /\ OptionsAmong(op, {"limit", "after", "before", "order"})
  \/ \E arg \in op.required : OfSession(op, arg) \/ op = Create(arg, op.body)
  \/ \E session, arg \in op.required :
       op \in {BindRunner(session, arg), SetModelOverride(session, arg),
             SetReasoningEffort(session, arg), PostEvent(session, arg, op.body),
             GetFile(session, arg), DeleteFile(session, arg), Download(session, arg, op.size)}
  \/ \E session, arg, third \in op.required :
       op \in {ResolveElicitation(session, arg, third, op.body), Upload(session, arg, third)}
=============================================================================
