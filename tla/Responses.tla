------------------------------ MODULE Responses ------------------------------
(***************************************************************************)
(* What the client makes of an answer that is no success (errors.go).      *)
(*                                                                         *)
(* A string the server chose is a sequence of rune classes: "control",     *)
(* "space" and Letters, which stand for every other rune, the one put in   *)
(* place of bytes that are no rune among them.                             *)
(***************************************************************************)
EXTENDS Integers, SequencesExt

CONSTANTS
  Letters,
  maxErrorFieldRunes   (* The most runes of one field of a rendered error.   *)

ASSUME ResponseAssumption ==
  /\ {"control", "space", "..."} \intersect Letters = {}
  /\ maxErrorFieldRunes \in Nat \ {0}

Runes == Letters \union {"control", "space"}

-----------------------------------------------------------------------------
(* sanitizeForError *)

TrimSpace(s) ==
  LET Solid(r) == r # "space"
      first    == SelectInSeq(s, Solid)
  IN  IF first = 0 THEN <<>> ELSE SubSeq(s, first, SelectLastInSeq(s, Solid))

\* A control is dropped, not replaced.
BugsanitizeRune(acc, r) ==
  IF acc.full \/ r = "control" THEN acc
  ELSE IF Len(acc.text) >= maxErrorFieldRunes THEN [acc EXCEPT !.full = TRUE]
  ELSE [acc EXCEPT !.text = Append(@, r)]

\* A run of controls becomes one space, unless nothing is written yet; past the bound
\* nothing more is written.
sanitizeRune(acc, r) ==
  IF acc.full THEN acc
  ELSE IF r = "control"
  THEN IF acc.space \/ acc.text = <<>> THEN acc
       ELSE [acc EXCEPT !.text = Append(@, "space"), !.space = TRUE]
  ELSE IF Len(acc.text) >= maxErrorFieldRunes THEN [acc EXCEPT !.full = TRUE]
  ELSE [acc EXCEPT !.text = Append(@, r), !.space = FALSE]

sanitizeForError(s) ==
  LET done == FoldLeft(sanitizeRune, [text |-> <<>>, space |-> FALSE, full |-> FALSE], s)
  IN  TrimSpace(done.text) \o (IF done.full THEN <<"...">> ELSE <<>>)

-----------------------------------------------------------------------------
(* An *APIError, and how it renders. *)

\* The body of an answer: its error object, its detail ("none", "list" or a text), or
\* bytes that are no envelope.
NoField  == <<>>
Envelope(code, title, message, detail) ==
  [json |-> TRUE, code |-> code, title |-> title, message |-> message, detail |-> detail]
Foreign  == [Envelope(NoField, NoField, NoField, <<"none">>) EXCEPT !.json = FALSE]

\* A detail that is a text stands in for a message that is missing.
newAPIError(status, body) ==
  [status  |-> status,
   code    |-> body.code,
   title   |-> body.title,
   message |-> IF body.json /\ body.message = NoField /\ Head(body.detail) = "text"
               THEN Tail(body.detail) ELSE body.message,
   detail  |-> body.detail]

\* The parts of a rendered error after its status.  The body is never one of them.
render(e) ==
  [headline |-> sanitizeForError(IF e.title # NoField THEN e.title ELSE e.code),
   message  |-> sanitizeForError(e.message)]

-----------------------------------------------------------------------------
(* The sentinels an error matches. *)

ServerSentinels ==
  [ErrInvalidInput |-> 400, ErrUnauthorized |-> 401, ErrForbidden |-> 403,
   ErrNotFound |-> 404, ErrConflict |-> 409, ErrHarnessNotConfigured |-> 412,
   ErrValidation |-> 422, ErrUnavailable |-> 503]

\* A 503 matches its own and the one of every 5xx.
Is(status) ==
  {s \in DOMAIN ServerSentinels : ServerSentinels[s] = status}
  \union {s \in {"ErrServer"} : status >= 500}

\* What the client itself calls the end of a call; the rest is net/http's or the
\* caller's writer's error, passed on.
ClientSentinels ==
  [invalid |-> "ErrInvalidArgument", unsafe |-> "ErrUnsafeRedirect",
   notFollowed |-> "ErrRedirectNotFollowed", tooLarge |-> "ErrResponseTooLarge",
   truncated |-> "ErrTruncated", denied |-> "ErrInputDenied"]

SentinelOf(kind) == {ClientSentinels[k] : k \in {kind} \intersect DOMAIN ClientSentinels}
=============================================================================
