----------------------------- MODULE ClientCall -----------------------------
(***************************************************************************)
(* One client and one call of it: New, the request, the redirects it is    *)
(* led through and what becomes of the answer (client.go).  Transfer adds  *)
(* the bodies that are streamed and composes the steps of both.            *)
(*                                                                         *)
(* net/http and the server are external.  net/http rewrites a redirected   *)
(* write, replays what can be replayed, asks the policy and returns what   *)
(* it does not follow; the server answers what it likes, or never.         *)
(***************************************************************************)
EXTENDS Requests, Responses

CONSTANTS
  MadeFrom,    (* The base URLs and options clients are made from.           *)
  Callers,     (* The pairs of them whose clients go on to make a call.      *)
  Operations,  (* The calls made.                                            *)
  Replies,     (* The locations and error bodies a server answers with.      *)
  Statuses,    (* The statuses of its refusals.                              *)
  MaxHops      (* Bound on the requests of one call: a policy of the         *)
               (* caller's own may have none.                                *)

\* A base URL is written without escapes, dot segments or empty elements, but for what
\* follows a last slash.
PlainPath(path) ==
  /\ path \in Seq(Range(path))
  /\ \A i \in 1..Len(path) : path[i] \notin {"a/b", "a%2Fb"} \union Dots
  /\ \A i \in 1..(Len(path) - 1) : path[i] # ""

\* An option is one of the package's, and WithAuthHeader names no header that another
\* option sets.
IsOption(opt) ==
  /\ opt.with \in {"HTTPClient", "AuthHeader", "BearerToken", "SessionCookie", "Insecure",
                  "Origin", "UserAgent", "TransferTimeout", "UnaryTimeout", "StreamIdleTimeout"}
  /\ opt.with = "AuthHeader" => opt.text \notin {"Cookie", "Origin"}
  /\ opt.with \in {"UnaryTimeout", "TransferTimeout", "StreamIdleTimeout"} => opt.d \in Int

\* The strings of an error body are runes; a detail says what it is.
IsBody(b) ==
  /\ {b.code, b.title, b.message} \subseteq Seq(Runes)
  /\ b.detail # <<>> /\ (Head(b.detail) = "text" => Tail(b.detail) \in Seq(Runes))

\* Every call is an operation, and no argument is the escape of another.
ASSUME CallAssumption ==
  /\ \A m \in MadeFrom : m.base.url \in URLs /\ PlainPath(m.base.path)
  /\ \A m \in MadeFrom : m.opts \in Seq(Range(m.opts)) /\ \A opt \in Range(m.opts) : IsOption(opt)
  /\ \A o \in Operations : o.method \in Methods /\ o.body \in {"none", "pipe"} \union Bodies
  /\ \A o \in Operations : o.size \in Nat /\ IsOperation(o) /\ "a%2Fb" \notin o.required
  /\ Callers \subseteq MadeFrom
  /\ Replies.locations \subseteq Locations /\ \A b \in Replies.bodies : IsBody(b)
  /\ MaxHops > maxRedirects

VARIABLES
  pc,       (* new, refused, ready, waiting, reading or done.                *)
  made,     (* What New was given.                                           *)
  client,   (* What it returned.                                             *)
  op,       (* The call in hand.                                             *)
  target,   (* The path and the query it was sent with.                      *)
  via,      (* The requests sent for it: method, URL and body.               *)
  outcome   (* What the caller got.                                          *)

made0    == [base |-> [form |-> "empty"], opts |-> <<>>]
call     == <<op, target, via, outcome>>
callvars == <<pc, made, client, call>>

NoTarget     == [path |-> <<>>, query |-> NoOptions]
NoOutcome    == [kind |-> "none", is |-> {}]
Failed(status, body) ==
  [kind |-> "api", is |-> Is(status), said |-> body, rendered |-> render(newAPIError(status, body))]
Ends(kind)   == pc' = "done" /\ outcome' = [kind |-> kind, is |-> SentinelOf(kind)]

CallInit ==
  /\ pc = "new"
  /\ made = made0
  /\ client = Refusal
  /\ op = ListAgents(NoOptions, NotGiven)
  /\ target = NoTarget
  /\ via = <<>>
  /\ outcome = NoOutcome

MakeClient(m) ==
  /\ pc = "new"
  /\ made' = m
  /\ client' = New(m.base, m.opts)
  /\ pc' = IF client'.ok THEN "ready" ELSE "refused"
  /\ UNCHANGED call

\* The deadline of the http.Client a call goes through; 0 is none.
Budget == IF op.body = "pipe" \/ op.reads = "stream" THEN client.transfer ELSE client.unary

\* newRequest and Do.
Send(o) ==
  /\ op' = o
  /\ IF Unsent(o) # "none"
     THEN Ends(Unsent(o)) /\ UNCHANGED <<target, via>>
     ELSE /\ via' = <<[method |-> o.method, url |-> client.url, body |-> o.body]>>
          /\ target' = [path |-> resolve(client, o.path), query |-> o.query]
          /\ pc' = "waiting"
          /\ UNCHANGED outcome
  /\ UNCHANGED <<made, client>>

Call(o) == pc = "ready" /\ made \in Callers /\ Send(o)

-----------------------------------------------------------------------------
(* Redirects.  301 stands for 301, 302 and 303, and 307 for 307 and 308. *)

\* What net/http would send next.
Redirected(status, url) ==
  [url    |-> url,
   method |-> IF status = 301 THEN "GET" ELSE Last(via).method,
   body   |-> IF status = 301 THEN "none" ELSE Last(via).body]

Replayable == Last(via).body # "pipe"

\* The response comes back to the call: it is no success, so it is an error.
Handed(status) ==
  /\ pc' = "done"
  /\ outcome' = Failed(status, Foreign)

Follow(next) == via' = Append(via, next) /\ UNCHANGED <<pc, outcome>>
RefuseRedirect == Ends("unsafe") /\ UNCHANGED via

\* The policy of a caller's client decides as it likes.
AskPolicy(next) ==
  \/ Follow(next) /\ (client.policy = "checkRedirect" => checkRedirect(next.method, next.url, via))
  \/ RefuseRedirect /\ ~(client.policy = "checkRedirect" /\ checkRedirect(next.method, next.url, via))

\* A body that cannot be replayed is not sent on: the answer comes back to the call.
Redirect(status, location) ==
  /\ pc = "waiting" /\ Len(via) <= MaxHops
  /\ \/ /\ status = 307 /\ ~Replayable
        /\ Ends(classifyUnfollowedRedirect(client.url, location)) /\ UNCHANGED via
     \/ /\ status = 307 => Replayable
        /\ \/ location.kind = "missing" /\ Handed(status) /\ UNCHANGED via
           \/ location.kind = "unparseable" /\ Ends("transport") /\ UNCHANGED via
           \/ location.kind = "url" /\ AskPolicy(Redirected(status, location.url))
  /\ UNCHANGED <<made, client, op, target>>

-----------------------------------------------------------------------------
(* Answers. *)

Refused(status, body) ==
  /\ pc = "waiting"
  /\ pc' = "done"
  /\ outcome' = Failed(status, body)
  /\ UNCHANGED <<made, client, op, target, via>>

\* A success whose body nobody reads is a success; the others are read.
Succeeds ==
  /\ pc = "waiting" /\ op.reads # "stream"
  /\ IF op.reads = "nothing" THEN Ends("ok") ELSE pc' = "reading" /\ UNCHANGED outcome
  /\ UNCHANGED <<made, client, op, target, via>>

\* decodeBounded, and the verdict of a control input.
Decoded(body) ==
  CASE body = "huge"                             -> "tooLarge"
    [] body \in {"malformed", "cut"}             -> "undecodable"
    [] body = "denied" /\ op.reads = "verdict"   -> "denied"
    [] OTHER                                     -> "ok"

ReadAnswer(body) ==
  /\ pc = "reading"
  /\ pc' = "done"
  /\ outcome' = [kind |-> Decoded(body), is |-> SentinelOf(Decoded(body)), answer |-> body]
  /\ UNCHANGED <<made, client, op, target, via>>

ConnectionFails ==
  /\ pc = "waiting"
  /\ Ends("transport")
  /\ UNCHANGED <<made, client, op, target, via>>

\* The deadline of the exchange, or the transport's on the answer's headers.
TimerFires ==
  /\ \/ pc \in {"waiting", "reading", "copying"} /\ Budget > 0
     \/ pc = "waiting" /\ client.headerTimeout > 0 /\ op.body # "pipe"
  /\ Ends("timeout")
  /\ UNCHANGED <<made, client, op, target, via>>

AnswerBodies == {"whole", "denied", "malformed", "cut", "huge"}

Server ==
  \/ /\ pc = "waiting"
     /\ \/ \E s \in {301, 307}, l \in Replies.locations : Redirect(s, l)
        \/ \E s \in Statuses, b \in Replies.bodies : Refused(s, b)
  \/ Succeeds
  \/ \E b \in AnswerBodies : ReadAnswer(b)

\* New refused, a client stays unused, or the call came back.
Over == pc \in {"refused", "ready", "done"}

-----------------------------------------------------------------------------
(***************************************************************************)
(* Properties.                                                             *)
(***************************************************************************)

Sent == [url : URLs, method : Methods, body : {"none", "pipe"} \union Bodies]

Given(with) == {opt \in Range(made.opts) : opt.with = with}
Authenticated ==
  UNION {Given(w) : w \in {"AuthHeader", "BearerToken", "SessionCookie"}} # {}
AllowsClear == Given("Insecure") # {}

Malformed(opt) ==
  \/ opt.with \in {"AuthHeader", "BearerToken", "SessionCookie", "Origin"} /\ opt.text = ""
  \/ opt.with \in {"UnaryTimeout", "TransferTimeout", "StreamIdleTimeout"} /\ opt.d < 0
  \/ opt.with = "HTTPClient" /\ opt.http = NilHTTP

CookiesGiven == {c \in {o.text : o \in Given("SessionCookie")} : CookieText(c) # <<>>}

\* The options are a set to New: whether it refuses, the deadlines, the cookies and the
\* Origin do not depend on the order they are written in, and an explicit
\* WithUnaryTimeout outranks the timeout of a client handed in (the options write config,
\* New judges after all of them).  Two ways to set one header do depend on it:
\* WithAuthHeader of "Cookie" or "Origin", which IsOption leaves out, and of "Authorization"
\* next to a bearer token.
NewIsOrderless ==
  pc \in {"ready", "refused"} =>
    /\ client.ok <=>
         /\ ~BaseRefused(made.base)
         /\ ~\E opt \in Range(made.opts) : Malformed(opt)
         /\ Authenticated /\ sendsCredentialInClear(Parsed(made.base)) => AllowsClear
    /\ client.ok =>
         /\ client.credentialed = Authenticated /\ client.plaintext = AllowsClear
         /\ Range(client.header["Cookie"]) = CookiesGiven
         /\ client.header["Origin"] # <<>> <=> Given("Origin") # {}
         /\ client.stream = 0
         /\ Given("UnaryTimeout") # {} =>
              client.unary \in {IF o.d = 0 THEN defaultUnaryTimeout ELSE o.d : o \in Given("UnaryTimeout")}
         /\ Given("HTTPClient") = {} => client.unary > 0 /\ client.headerTimeout >= client.unary

\* Wherever a server points it, a call talks to the server the base URL names and to
\* nobody else, never in clear with a credential unless its caller accepted that, never
\* with a credential out of a Location, and no further than the cap (New's gates and
\* checkRedirect).
CredentialsStayHome ==
  client.ok /\ client.policy = "checkRedirect" =>
    /\ Len(via) <= maxRedirects + 1
    /\ \A i \in DOMAIN via :
         LET u == via[i].url IN
         /\ Fold[u.host] = Fold[client.url.host]
         /\ reachableScheme(u.scheme)
         /\ ~u.user
         /\ client.url.scheme = "https" => u.scheme = "https"
         /\ effectivePort(u) \in {effectivePort(client.url), "443"}
         /\ effectivePort(u) # effectivePort(client.url) => effectivePort(client.url) = "80"
         /\ client.credentialed /\ sendsCredentialInClear(u) => client.plaintext

Named(segment) == segment \notin {""} \union Dots

\* What the caller and the walk asked for, the walk's cursor before the caller's After.
Meant(name) == IF name = "after" /\ op.cursor # NotGiven THEN op.cursor
               ELSE IF name \in DOMAIN op.options THEN op.options[name] ELSE NotGiven

\* A request goes to what its caller named: every argument is there, as one element
\* of the path and below the base URL's, and the query asks for what was meant, with no
\* zero value that the server would refuse or take for a choice.  A call that reports
\* success ended on that method and body, not on a read that a redirect made of it, and
\* on no denial.  One that reports an invalid argument sent nothing, and one that blames
\* the answer to the call had that answer (the argument checks, resolve, the query
\* methods, the method gate, postControl).
SuccessIsTheCall ==
  /\ via # <<>> =>
       /\ target.path = Front(client.path) \o op.path
       /\ DOMAIN target.query =
            {n \in DOMAIN op.options \union {"after"} : Meant(n) # NotGiven}
       /\ \A n \in DOMAIN target.query : target.query[n] = Meant(n)
       /\ \A i \in DOMAIN op.path : Named(op.path[i])
  /\ outcome.kind = "ok" /\ client.policy = "checkRedirect" =>
       Last(via).method = op.method /\ Last(via).body = op.body
  /\ outcome.kind = "ok" /\ (\E s \in op.required : op \in {Interrupt(s), Compact(s)}) =>
       outcome.answer # "denied"
  /\ "ErrInvalidArgument" \in outcome.is => via = <<>>
  /\ outcome.is \intersect {"ErrTruncated", "ErrResponseTooLarge", "ErrInputDenied"} # {}
       /\ client.policy = "checkRedirect" => Last(via).method = op.method

\* The words of a text, a word a run of letters, read rune by rune.
Unread == [words |-> <<>>, apart |-> TRUE]
Spell(acc, r) ==
  IF r \notin Letters THEN [acc EXCEPT !.apart = TRUE]
  ELSE IF acc.apart THEN [words |-> Append(acc.words, <<r>>), apart |-> FALSE]
  ELSE [acc EXCEPT !.words = Append(Front(@), Append(Last(@), r))]

Words(text) == FoldLeft(Spell, Unread, text).words

\* What a failed call renders of the server's text is bounded, has no control in it, and
\* is the server's words in their order, none joined to the next by a control taken from
\* between them and none missing but at the cut (sanitizeForError in APIError.Error).
RenderedIsSafe ==
  outcome.kind = "api" =>
    /\ \A part \in {outcome.rendered.headline, outcome.rendered.message} :
         /\ Len(part) <= maxErrorFieldRunes + 1
         /\ Range(part) \subseteq Letters \union {"space", "..."}
         /\ part # <<>> => Head(part) # "space" /\ Last(part) # "space"
    /\ LET words == Words(outcome.rendered.message)
            said  == Words(outcome.said.message)
        IN  outcome.said.message # NoField =>
              IF "..." \notin Range(outcome.rendered.message) THEN words = said
              ELSE words # <<>> => /\ IsPrefix(Front(words), said)
                                   /\ IsPrefix(Last(words), said[Len(words)])

Called == pc \in {"waiting", "reading"}
\* The caller took the deadline away: a client of its own without one.
Unbounded == Given("HTTPClient") # {} /\ Given("UnaryTimeout") = {}
\* A call comes back, whatever the server does or leaves undone, unless its caller took
\* the deadline away (the defaults of WithUnaryTimeout and New).
CallReturns == Called /\ Budget = client.unary /\ ~Unbounded ~> pc = "done"
=============================================================================
