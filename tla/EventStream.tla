----------------------------- MODULE EventStream -----------------------------
(***************************************************************************)
(* Client.Stream (stream.go): lines of a server-sent event stream are      *)
(* assembled into frames, frames decoded, and events yielded, with the     *)
(* caller's hooks run in between.                                          *)
(*                                                                         *)
(* The server sends whole frames, each as its lines; the body can end      *)
(* after any line, and IdleMonitor says when the monitor is what ends it.  *)
(* A line of data is one chunk of unit length.                             *)
(***************************************************************************)
EXTENDS Naturals, Sequences, Subsequence, Event

CONSTANTS
  Frames,         (* The frames the server may send.                         *)
  maxFrameBytes,  (* Bound on one frame's payload, newlines included.        *)
  MaxFrames       (* Bound: the frames one behaviour sends.                  *)

\* What a chunk of data holds: one JSON event, one half of an event, anything else that
\* is not blank, the sentinel, white space.  An event says its type or leaves it to the
\* event: line; an older build may not know the type, and its fields may not be that
\* type's.
Texts == {"object", "half", "garbage", "DONE", "space"}
Types == eventRegistry \union {Untyped, "session.new"}

Chunk == [text : Texts, type : Types, fits : BOOLEAN]

\* An event says what it is once, whole or in its first half, and nothing else does.
ASSUME StreamAssumption ==
  /\ Frames \subseteq [name : Types, chunks : Seq(Chunk)]
  /\ \A f \in Frames : \A i \in 1..Len(f.chunks) :
       \/ f.chunks[i].text = "object"
       \/ f.chunks[i].text = "half" /\ \A j \in 1..(i - 1) : f.chunks[j].text # "half"
       \/ f.chunks[i].type = Untyped /\ f.chunks[i].fits
  /\ maxFrameBytes \in Nat
  /\ MaxFrames \in Nat

VARIABLES
  pc,          (* Where the reading goroutine is.                            *)
  name,        (* The event: line of the frame under construction.           *)
  payload,     (* Its data lines.                                            *)
  frame,       (* What the frame in hand decoded to: a wire type, or none.   *)
  subscribed, delivered, skipped,
  outcome,     (* none, closed, left, or the kind of error yielded last.     *)
  wire,        (* Lines on their way.                                        *)
  sent,        (* The frames the server sent, in order.                      *)
  completed,   (* How many of them have been read to their end.              *)
  hooked,      (* How many times OnSubscribed was called.                    *)
  handed,      (* The numbers of the frames yielded as events, in order,     *)
  events       (* and what they were yielded as.                             *)

assembly == <<name, payload, frame>>
counts   == <<subscribed, delivered, skipped>>
server   == <<wire, sent>>
seen     == <<completed, hooked, handed, events>>
vars     == <<pc, assembly, counts, outcome, server, seen>>

-----------------------------------------------------------------------------
Data(text)   == [text |-> text, type |-> Untyped, fits |-> TRUE]
Named(type)  == [text |-> "event", type |-> type, fits |-> TRUE]

Line == {Data("blank"), Data("comment")} \union {Named(t) : t \in Types} \union Chunk

\* A frame as it is written; a frame of nothing is a keepalive comment.
Lines(f) ==
  (IF f.name # Untyped THEN <<Named(f.name)>> ELSE <<>>)
    \o (IF f.chunks = <<>> THEN <<Data("comment")>> ELSE f.chunks) \o <<Data("blank")>>

NotSpace == {c \in Chunk : c.text # "space"}

Parses(text) ==
  \/ Len(text) = 1 /\ text[1].text = "object"
  \/ Len(text) = 2 /\ text[1].text = "half" /\ text[2].text = "half"

Type(named, object) == IF object.type = Untyped THEN named ELSE object.type

\* The event's own type first, and the event: line's for want of one.
decodeFrame(named, chunks) ==
  LET text == Only(chunks, NotSpace)
      type == Type(named, text[1])
  IN  CASE text = <<>>                            -> "empty"
        [] text = <<Data("DONE")>>                -> "done"
        [] Parses(text) /\ type # Untyped         -> decodeByType(type, text[1].fits)
        [] OTHER                                  -> "undecodable"

IsEvent(decoded) == decoded \notin NoEvents

Len_(chunks) == IF chunks = <<>> THEN 0 ELSE 2 * Len(chunks) - 1

TypeOK ==
  /\ pc \in {"opening", "reading", "subscribing", "dispatching", "over"}
  /\ name \in Types
  /\ payload \in Seq(Chunk)
  /\ frame \in NoEvents \union Types
  /\ subscribed \in BOOLEAN
  /\ delivered \in BOOLEAN
  /\ skipped \in Nat
  /\ outcome \in {"none", "closed", "left", "protocol", "interrupted", "oversized",
                  "hook", "refused"}
  /\ wire \in Seq(Line)
  /\ sent \in Seq(Frames)
  /\ completed \in Nat
  /\ hooked \in Nat
  /\ handed \in Seq(Nat)
  /\ events \in Seq(Types)

Init ==
  /\ pc = "opening"
  /\ name = Untyped
  /\ payload = <<>>
  /\ frame = "none"
  /\ subscribed = FALSE
  /\ delivered = FALSE
  /\ skipped = 0
  /\ outcome = "none"
  /\ wire = <<>>
  /\ sent = <<>>
  /\ completed = 0
  /\ hooked = 0
  /\ handed = <<>>
  /\ events = <<>>

-----------------------------------------------------------------------------
(* The server and the transport: external. *)

Send(f) ==
  /\ wire = <<>> /\ Len(sent) < MaxFrames
  /\ wire' = Lines(f)
  /\ sent' = Append(sent, f)
  /\ UNCHANGED <<pc, assembly, counts, outcome, seen>>

-----------------------------------------------------------------------------
(* Stream. *)

End(how) == pc' = "over" /\ outcome' = how

\* A call that comes back, or that ends the read.
GoOn(there, how) == (pc' = there /\ UNCHANGED outcome) \/ End(how)

Open ==
  /\ pc = "opening"
  /\ GoOn("reading", "refused")
  /\ UNCHANGED <<assembly, counts, server, seen>>

\* lines.Scan returns false: silence, cancellation, a line too long, a broken or
\* an ended body.  What was assembled of a frame is dropped.
BodyEnds ==
  /\ pc = "reading"
  /\ End("interrupted") \/ End("oversized")
  /\ UNCHANGED <<assembly, counts, server, seen>>

NextLine(kinds) ==
  /\ pc = "reading"
  /\ wire # <<>> /\ Head(wire) \in kinds
  /\ wire' = Tail(wire)
  /\ UNCHANGED sent

ReadComment ==
  /\ NextLine({Data("comment")})
  /\ UNCHANGED <<pc, assembly, counts, outcome, seen>>

ReadName ==
  /\ NextLine({Named(t) : t \in Types})
  /\ name' = Head(wire).type
  /\ UNCHANGED <<pc, payload, frame, counts, outcome, seen>>

\* The newline between two chunks is not counted.
BugOversized == Len_(payload) + 1 > maxFrameBytes

Oversized == Len_(payload) + 1 + 1 > maxFrameBytes

ReadData ==
  /\ NextLine(Chunk)
  /\ IF Oversized
     THEN End("oversized") /\ UNCHANGED payload
     ELSE payload' = Append(payload, Head(wire)) /\ UNCHANGED <<pc, outcome>>
  /\ UNCHANGED <<name, frame, counts, seen>>

\* The name of one frame is kept for the next.
BugTakeFrame ==
  /\ frame' = decodeFrame(name, payload)
  /\ payload' = <<>>
  /\ UNCHANGED name

TakeFrame ==
  /\ frame' = decodeFrame(name, payload)
  /\ name' = Untyped
  /\ payload' = <<>>

\* Only an event is taken to show that the subscription is live.
BugReadBlank ==
  /\ NextLine({Data("blank")})
  /\ TakeFrame
  /\ completed' = completed + 1
  /\ subscribed' = (subscribed \/ IsEvent(frame'))
  /\ pc' = IF subscribed' # subscribed THEN "subscribing" ELSE "dispatching"
  /\ UNCHANGED <<delivered, skipped, outcome, hooked, handed, events>>

\* The blank line that ends a frame, whatever the frame holds.
ReadBlank ==
  /\ NextLine({Data("blank")})
  /\ TakeFrame
  /\ completed' = completed + 1
  /\ subscribed' = TRUE
  /\ pc' = IF subscribed THEN "dispatching" ELSE "subscribing"
  /\ UNCHANGED <<delivered, skipped, outcome, hooked, handed, events>>

OnSubscribed ==
  /\ pc = "subscribing"
  /\ hooked' = hooked + 1
  /\ GoOn("dispatching", "hook")
  /\ UNCHANGED <<assembly, counts, server, completed, handed, events>>

SkipFrame ==
  /\ pc = "dispatching" /\ frame = "undecodable"
  /\ skipped' = skipped + 1
  /\ GoOn("reading", "hook")
  /\ UNCHANGED <<assembly, subscribed, delivered, server, seen>>

IgnoreEmpty ==
  /\ pc = "dispatching" /\ frame = "empty"
  /\ pc' = "reading"
  /\ UNCHANGED <<assembly, counts, outcome, server, seen>>

YieldEvent ==
  /\ pc = "dispatching" /\ IsEvent(frame)
  /\ handed' = Append(handed, completed)
  /\ events' = Append(events, frame)
  /\ delivered' = TRUE
  /\ GoOn("reading", "left")
  /\ UNCHANGED <<assembly, subscribed, skipped, server, completed, hooked>>

\* The sentinel closes the stream, whatever was lost before it.
BugSawDone ==
  /\ pc = "dispatching" /\ frame = "done"
  /\ End("closed")
  /\ UNCHANGED <<assembly, counts, server, seen>>

SawDone ==
  /\ pc = "dispatching" /\ frame = "done"
  /\ End(IF skipped > 0 /\ ~delivered THEN "protocol" ELSE "closed")
  /\ UNCHANGED <<assembly, counts, server, seen>>

Finished == pc = "over" /\ UNCHANGED vars

Read ==
  \/ Open \/ ReadComment \/ ReadName \/ ReadData \/ ReadBlank
  \/ OnSubscribed \/ SkipFrame \/ IgnoreEmpty \/ YieldEvent \/ SawDone

Next ==
  \/ \E f \in Frames : Send(f)
  \/ Read
  \/ BodyEnds
  \/ Finished

Spec == Init /\ [][Next]_vars

-----------------------------------------------------------------------------
(***************************************************************************)
(* Properties.                                                             *)
(***************************************************************************)

\* One frame never grows the payload past its bound, in however many lines it
\* comes (the builder in Stream, ErrStreamFrameTooLarge).
FrameBounded == Len_(payload) <= maxFrameBytes

Decoded(n) == decodeFrame(sent[n].name, sent[n].chunks)
Decodable(n) == IsEvent(Decoded(n))
Numbers(n) == [i \in 1..n |-> i]
Newer(f) ==
  /\ Len(f.chunks) = 1 /\ f.chunks[1].text = "object"
  /\ f.chunks[1].type \notin eventRegistry \union {Untyped}
\* A type this build knows, of a body that is not its, in whatever way it was written.
Broken(f) == \E i \in DOMAIN f.chunks : f.chunks[i].type \in eventRegistry /\ ~f.chunks[i].fits

\* The caller is handed exactly the decodable frames that arrived whole, once each
\* and in the order sent, as what their own type says; no frame is decoded with what is
\* left of another one, half a frame at the end of the body is no event, and a type newer
\* than this build is handed on while a body its type contradicts never is (name,
\* payload, decodeFrame, decodeByType).
HandedAsSent ==
  /\ pc = "reading" =>
       /\ handed = Only(Numbers(completed), {n \in 1..completed : Decodable(n)})
       /\ \A n \in 1..completed : Newer(sent[n]) => \E i \in 1..Len(handed) : handed[i] = n
  /\ \A i \in 1..Len(handed) :
       LET f == sent[handed[i]] IN
       /\ handed[i] <= Len(sent) /\ Decodable(handed[i]) /\ ~Broken(f)
       /\ i > 1 => handed[i - 1] < handed[i]
       /\ \A c \in 1..Len(f.chunks) : f.chunks[c].type \in {Untyped, events[i]}
       /\ Len(f.chunks) = 1 /\ f.chunks[1].type # Untyped => events[i] = DecodeEvent(f.chunks[1])

\* A caller that posts its turn from the hook posts it when the first frame of any
\* kind has arrived, keepalives and frames this build cannot decode included, and
\* never again (OnSubscribed).
HookOnFirstFrame ==
  pc \in {"reading", "over"} => hooked = IF completed = 0 THEN 0 ELSE 1

\* How far a stream has come, by what its variables say: the strengthening of
\* HookOnFirstFrame and of the contract.
Progress ==
  /\ skipped \in Nat /\ completed \in Nat /\ hooked \in Nat /\ handed \in Seq(Nat)
  /\ pc = "opening" => completed = 0
  /\ pc \in {"opening", "reading", "dispatching", "over"} =>
       hooked = IF completed = 0 THEN 0 ELSE 1
  /\ pc = "subscribing" => completed = 1 /\ hooked = 0
  /\ pc = "dispatching" => completed > 0
  /\ pc \in {"opening", "reading", "subscribing", "dispatching"} =>
       /\ outcome = "none"
       /\ subscribed <=> completed > 0
  /\ delivered => Len(handed) > 0
  /\ skipped > 0 \/ Len(handed) > 0 => hooked = 1

-----------------------------------------------------------------------------
(* The stream as the code that ranges over it sees it. *)

Contract == INSTANCE StreamContract WITH
  phase   <- IF pc = "over" THEN "over" ELSE IF hooked > 0 THEN "live" ELSE "opening",
  yielded <- Len(handed),
  lost    <- skipped > 0,
  outcome <- IF outcome \in {"none", "closed", "left"} THEN outcome ELSE "error"

\* Every step of Stream is a step of its contract or none: one hook before any
\* event, one end after which nothing is yielded, no quiet end of a stream that was
\* lost as a whole.
KeepsContract == Contract!Spec
=============================================================================
