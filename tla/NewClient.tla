------------------------------ MODULE NewClient ------------------------------
(***************************************************************************)
(* New and its options (client.go): how a base URL and a list of options   *)
(* become a client, or a refusal.                                          *)
(*                                                                         *)
(* An option is a record of its name and its argument, a duration a small  *)
(* number whose unit is left open, a header a sequence of values.          *)
(***************************************************************************)
EXTENDS Endpoint, SequencesExt

CONSTANTS
  DefaultBase,               (* DefaultBaseURL, parsed.                      *)
  defaultUnaryTimeout,
  minResponseHeaderTimeout,
  defaultStreamIdleTimeout

ASSUME ClientAssumption ==
  /\ DefaultBase \in URLs /\ DefaultBase.scheme = "http" /\ ~DefaultBase.user
  /\ Fold[DefaultBase.host] \in Loopbacks
  /\ {defaultUnaryTimeout, minResponseHeaderTimeout, defaultStreamIdleTimeout}
       \subseteq Nat \ {0}

\* A base URL as it was written; the last element of a path is what follows its last
\* slash, so a path that ends in one ends in an empty element.
Bases == [form : {"empty", "unparseable", "hostless", "url"}, url : URLs, path : Seq(STRING)]

HeaderNames == {"X-Email", "Authorization", "Cookie", "User-Agent", "Origin"}

\* An *http.Client of the caller's, or nil.
CallerHTTP(timeout, policy) == [timeout |-> timeout, policy |-> policy]
NilHTTP == CallerHTTP(0, "nil")

config0 ==
  [header      |-> [n \in HeaderNames |-> <<>>],
   origin      |-> FALSE,
   own         |-> TRUE,
   http        |-> CallerHTTP(0, "none"),
   idle        |-> defaultStreamIdleTimeout,
   unary       |-> 0,
   transfer    |-> 0,
   credentialed |-> FALSE,
   plaintext   |-> FALSE,
   invalid     |-> FALSE]

Refuse(cfg) == [cfg EXCEPT !.invalid = TRUE]

\* An auth option in force: the header it sets, and the scheme becomes a question.
Credential(cfg, name, values) ==
  [cfg EXCEPT !.header[name] = values, !.credentialed = TRUE]

-----------------------------------------------------------------------------
(* The options. *)

\* The policy the caller set, "none" for a nil CheckRedirect.
WithHTTPClient(cfg, http) ==
  IF http = NilHTTP THEN Refuse(cfg)
  ELSE [cfg EXCEPT !.http = http, !.own = FALSE]

WithAuthHeader(cfg, name) ==
  IF name = "" THEN Refuse(cfg) ELSE Credential(cfg, name, <<name>>)

WithBearerToken(cfg, token) ==
  IF token = "" THEN Refuse(cfg) ELSE Credential(cfg, "Authorization", <<token>>)

\* (*http.Cookie).String: nothing for a name that is not a token.
CookieText(name) == IF name = "not a token" THEN <<>> ELSE <<name>>

\* A second cookie replaces the first.
BugWithSessionCookie(cfg, name) ==
  IF name = "" THEN Refuse(cfg) ELSE Credential(cfg, "Cookie", CookieText(name))

WithSessionCookie(cfg, name) ==
  IF name = "" THEN Refuse(cfg)
  ELSE Credential(cfg, "Cookie", cfg.header["Cookie"] \o CookieText(name))

WithInsecureCredentialTransport(cfg) == [cfg EXCEPT !.plaintext = TRUE]

WithInternalClientOrigin(cfg, origin) ==
  IF origin = "" THEN Refuse(cfg) ELSE [cfg EXCEPT !.origin = TRUE]

WithUserAgent(cfg, agent) == [cfg EXCEPT !.header["User-Agent"] = <<agent>>]

WithTransferTimeout(cfg, d) ==
  IF d < 0 THEN Refuse(cfg) ELSE [cfg EXCEPT !.transfer = d]

WithUnaryTimeout(cfg, d) ==
  IF d < 0 THEN Refuse(cfg)
  ELSE [cfg EXCEPT !.unary = IF d = 0 THEN defaultUnaryTimeout ELSE d]

WithStreamIdleTimeout(cfg, d) ==
  IF d < 0 THEN Refuse(cfg)
  ELSE [cfg EXCEPT !.idle = IF d = 0 THEN defaultStreamIdleTimeout ELSE d]

\* The first option that refuses ends New; the ones after it are not applied.
apply(cfg, opt) ==
  IF cfg.invalid THEN cfg
  ELSE CASE opt.with = "HTTPClient"       -> WithHTTPClient(cfg, opt.http)
         [] opt.with = "AuthHeader"       -> WithAuthHeader(cfg, opt.text)
         [] opt.with = "BearerToken"      -> WithBearerToken(cfg, opt.text)
         [] opt.with = "SessionCookie"    -> WithSessionCookie(cfg, opt.text)
         [] opt.with = "Insecure"         -> WithInsecureCredentialTransport(cfg)
         [] opt.with = "Origin"           -> WithInternalClientOrigin(cfg, opt.text)
         [] opt.with = "UserAgent"        -> WithUserAgent(cfg, opt.text)
         [] opt.with = "TransferTimeout"  -> WithTransferTimeout(cfg, opt.d)
         [] opt.with = "UnaryTimeout"     -> WithUnaryTimeout(cfg, opt.d)
         [] opt.with = "StreamIdleTimeout" -> WithStreamIdleTimeout(cfg, opt.d)

-----------------------------------------------------------------------------
(* New *)

Larger(a, b) == IF a > b THEN a ELSE b

\* Under a client of the caller's the header timeout is the caller's too: 0 here.
defaultTransport(unary) == Larger(unary, minResponseHeaderTimeout)

Parsed(base) == IF base.form = "empty" THEN DefaultBase ELSE base.url

\* The base URL by itself.
BaseRefused(base) ==
  \/ base.form \in {"unparseable", "hostless"}
  \/ ~reachableScheme(Parsed(base).scheme)
  \/ Parsed(base).user

\* A path that does not end in a slash is given one.
BasePath(base) ==
  IF base.form = "empty" \/ base.path = <<>> THEN <<"">>
  ELSE IF Last(base.path) = "" THEN base.path ELSE Append(base.path, "")

Refusal == [ok |-> FALSE]

UnaryTimeout(cfg) ==
  IF cfg.unary > 0 THEN cfg.unary
  ELSE IF cfg.own THEN defaultUnaryTimeout ELSE cfg.http.timeout

\* The client.  credentialed and plaintext are config's: no field holds them, and the
\* properties speak of them.
New(base, opts) ==
  LET cfg == FoldLeft(apply, config0, opts) IN
  IF \/ BaseRefused(base) \/ cfg.invalid
     \/ cfg.credentialed /\ ~cfg.plaintext /\ sendsCredentialInClear(Parsed(base))
  THEN Refusal
  ELSE [ok            |-> TRUE,
        url           |-> Parsed(base),
        path          |-> BasePath(base),
        header        |-> [cfg.header EXCEPT
                             !["Origin"] = IF cfg.origin THEN <<"Origin">> ELSE @],
        credentialed  |-> cfg.credentialed,
        plaintext     |-> cfg.plaintext,
        idle          |-> cfg.idle,
        ownsTransport |-> cfg.own,
        headerTimeout |-> IF cfg.own THEN defaultTransport(UnaryTimeout(cfg)) ELSE 0,
        unary         |-> UnaryTimeout(cfg),
        stream        |-> 0,
        transfer      |-> cfg.transfer,
        policy        |-> IF cfg.http.policy = "none" THEN "checkRedirect" ELSE cfg.http.policy]
=============================================================================
