------------------------------ MODULE Endpoint ------------------------------
(***************************************************************************)
(* Where a request may go (client.go): what makes a location the server    *)
(* the base URL names, and what the redirect policy makes of one it is     *)
(* pointed at.  Pure operators; ClientCall drives them.                    *)
(*                                                                         *)
(* A URL is a record.  Its host is a name as somebody spelled it, Fold     *)
(* gives the name DNS takes it for, and its path is left to ClientCall.    *)
(***************************************************************************)
EXTENDS Integers, Sequences

CONSTANTS
  Hosts,         (* Host names as spelled, in the base URL or a Location.   *)
  Fold,          (* What case folding makes of each of them.                *)
  Loopbacks,     (* The folded names of this machine.                       *)
  maxRedirects   (* How many redirects one request follows, in the code.    *)

ASSUME EndpointAssumption ==
  /\ Fold \in [Hosts -> Hosts]
  /\ \A h \in Hosts : Fold[Fold[h]] = Fold[h]
  /\ Loopbacks \subseteq {Fold[h] : h \in Hosts}
  /\ maxRedirects \in Nat

\* "ftp" stands for every scheme but the two, "none" for a port left out.
Schemes == {"http", "https", "ftp"}
Ports   == {"none", "80", "443", "8443"}
URLs    == [scheme : Schemes, host : Hosts, port : Ports, user : BOOLEAN]

Methods == {"GET", "POST", "PATCH", "DELETE"}

reachableScheme(scheme) == scheme \in {"http", "https"}

\* The port, or the default of the scheme; a scheme not spoken has none.
effectivePort(u) ==
  IF u.port # "none" THEN u.port
  ELSE CASE u.scheme = "https" -> "443"
         [] u.scheme = "http"  -> "80"
         [] OTHER              -> "none"

\* Any change of port is an upgrade.
BugsameEndpoint(origin, next) ==
  /\ Fold[origin.host] = Fold[next.host]
  /\ \/ effectivePort(origin) = effectivePort(next)
     \/ origin.scheme = "http" /\ next.scheme = "https"

\* The same host and port, or the move from one scheme's default port to the other's.
sameEndpoint(origin, next) ==
  /\ Fold[origin.host] = Fold[next.host]
  /\ \/ effectivePort(origin) = effectivePort(next)
     \/ /\ origin.scheme = "http" /\ effectivePort(origin) = "80"
        /\ next.scheme = "https" /\ effectivePort(next) = "443"

isLoopback(u) == Fold[u.host] \in Loopbacks

sendsCredentialInClear(u) == u.scheme # "https" /\ ~isLoopback(u)

-----------------------------------------------------------------------------
(* The redirect policy.  via holds the requests sent, the first the caller's. *)

\* A method that net/http rewrote is let through.
BugcheckRedirect(method, next, via) ==
  LET origin == via[1] IN
  /\ Len(via) <= maxRedirects
  /\ reachableScheme(next.scheme)
  /\ sameEndpoint(origin.url, next)
  /\ ~(origin.url.scheme = "https" /\ next.scheme # "https")
  /\ ~next.user

checkRedirect(method, next, via) ==
  LET origin == via[1] IN
  /\ Len(via) <= maxRedirects
  /\ reachableScheme(next.scheme)
  /\ sameEndpoint(origin.url, next)
  /\ ~(origin.url.scheme = "https" /\ next.scheme # "https")
  /\ ~next.user
  /\ method = origin.method

\* What a Location header holds: nothing, something that is no URL, or a URL.
Locations == [kind : {"missing", "unparseable", "url"}, url : URLs]

\* A 307 or 308 net/http handed back, because the body of an upload cannot be replayed.
\* A missing Location resolves to the URL asked.
classifyUnfollowedRedirect(origin, location) ==
  LET next == IF location.kind = "missing" THEN origin ELSE location.url IN
  IF \/ location.kind = "unparseable"
     \/ ~reachableScheme(next.scheme) \/ ~sameEndpoint(origin, next) \/ next.user
  THEN "unsafe" ELSE "notFollowed"
=============================================================================
