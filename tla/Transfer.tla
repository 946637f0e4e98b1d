------------------------------ MODULE Transfer ------------------------------
(***************************************************************************)
(* Uploads and downloads (files.go, client.go): a call whose body goes     *)
(* through a pipe, and one whose answer goes to a writer.                  *)
(*                                                                         *)
(* An upload is two goroutines.  One writes the form into the pipe: its    *)
(* head, what the caller's reader gives, its tail; then it closes the pipe *)
(* with the error it met, if any.  The other, the call, has the transport  *)
(* read the pipe and send; it may be answered, refused, redirected, cut    *)
(* off or timed out at any point of that, and closes its end on return.    *)
(* A chunk written waits in the pipe until it is read or the reader's end  *)
(* is closed.                                                              *)
(***************************************************************************)
EXTENDS ClientCall

CONSTANTS
  Contents,   (* What a caller's reader gives: chunks, and "fails" at last.  *)
  Lengths     (* How many bytes a file has.                                  *)

\* What is in the pipe: a chunk of content, the form's own head and tail, or "none".
Chunks == UNION {Range(c) : c \in Contents}
Form   == {"head", "tail", "none"}

ASSUME TransferAssumption ==
  /\ Contents \subseteq Seq(Chunks) /\ Chunks \intersect Form = {}
  /\ Lengths \subseteq Nat

VARIABLES
  writer,    (* idle, head, copy, tail, closing or gone.                     *)
  content,   (* What the caller's reader has still to give.                  *)
  offered,   (* The chunk in the pipe, or "none".                            *)
  failed,    (* The writer met an error.                                     *)
  closed,    (* The pipe's writing end: open, eof or error.                  *)
  shut,      (* The pipe's reading end is closed.                            *)
  sent,      (* The chunks the server has got.                               *)
  body,      (* What the server has of the body: none, part or whole.        *)
  source,    (* The content the upload was given.                            *)
  file,      (* The file of a download: its length, and whether it is cut.   *)
  written    (* How many bytes the caller's writer took.                     *)

pipe      == <<writer, content, offered, failed, closed, shut, sent, body, source>>
download  == <<file, written>>
allvars   == <<callvars, pipe, download>>

NoFile == [length |-> 0, cut |-> FALSE]

TransferInit ==
  /\ CallInit
  /\ writer = "idle" /\ content = <<>> /\ offered = "none" /\ failed = FALSE
  /\ closed = "open" /\ shut = FALSE /\ sent = <<>> /\ body = "none" /\ source = <<>>
  /\ file = NoFile /\ written = 0

-----------------------------------------------------------------------------
(* Upload: the call. *)

\* The transport closes the body of a request it was given, and nobody any other.
BugReturning == shut' = (shut \/ (pc' = "done" /\ via' # <<>>))

\* The deferred close of the reading end.
Returning == shut' = (shut \/ pc' = "done")

\* The arguments first, then the writer's goroutine, then the request.
StartUpload(o, c) ==
  /\ o.body = "pipe" /\ Call(o)
  /\ IF "" \in o.required
     THEN UNCHANGED pipe
     ELSE /\ writer' = "head"
          /\ content' = c /\ source' = c
          /\ body' = IF via' = <<>> THEN "none" ELSE "part"
          /\ Returning
          /\ UNCHANGED <<offered, failed, closed, sent>>
  /\ UNCHANGED download

\* Any other step of a call; one that ends an upload closes the pipe.
OtherCall(o) == o.body # "pipe" /\ Call(o)

CallStep ==
  /\ \/ pc = "new" /\ \E m \in MadeFrom : MakeClient(m)
     \/ pc = "ready" /\ \E o \in Operations : OtherCall(o)
     \/ Server \/ ConnectionFails
  /\ IF writer = "idle" THEN UNCHANGED shut ELSE Returning
  /\ UNCHANGED <<writer, content, offered, failed, closed, sent, body, source, download>>

\* The transport waits for the headers of an answer once it has sent the body.
HeaderTimerFires ==
  /\ pc = "waiting" /\ body = "whole" /\ client.headerTimeout > 0
  /\ Ends("timeout")
  /\ UNCHANGED <<made, client, op, target, via>>

Timeout ==
  /\ TimerFires \/ HeaderTimerFires
  /\ IF writer = "idle" THEN UNCHANGED shut ELSE Returning
  /\ UNCHANGED <<writer, content, offered, failed, closed, sent, body, source, download>>

-----------------------------------------------------------------------------
(* Upload: the transport's end of the pipe, external. *)

Reading == body = "part" /\ ~shut

\* A chunk taken lets the writer go on.
TakeChunk ==
  /\ Reading /\ offered # "none"
  /\ sent' = Append(sent, offered)
  /\ offered' = "none"
  /\ writer' = CASE writer = "head" -> "copy"
                 [] writer = "copy" -> "copy"
                 [] writer = "tail" -> "closing"
  /\ UNCHANGED <<callvars, content, failed, closed, shut, body, source, download>>

BodyEnds ==
  /\ Reading /\ closed = "eof"
  /\ body' = "whole"
  /\ UNCHANGED <<callvars, writer, content, offered, failed, closed, shut, sent, source, download>>

\* An error read from the pipe fails the request that waits.
BodyFails ==
  /\ Reading /\ closed = "error" /\ pc = "waiting"
  /\ Ends("transport")
  /\ Returning
  /\ UNCHANGED <<made, client, op, target, via, writer, content, offered, failed, closed, sent, body,
                 source, download>>

-----------------------------------------------------------------------------
(* Upload: the writer's goroutine. *)

Offer(chunk) == offered' = chunk /\ UNCHANGED <<writer, failed>>

WriteChunk ==
  /\ offered = "none"
  /\ \/ writer = "head" /\ Offer("head") /\ UNCHANGED content
     \/ /\ writer = "copy" /\ content # <<>> /\ Head(content) # "fails"
        /\ Offer(Head(content))
        /\ content' = Tail(content)
     \/ writer = "tail" /\ Offer("tail") /\ UNCHANGED content
  /\ UNCHANGED <<callvars, closed, shut, sent, body, source, download>>

ContentEnds ==
  /\ writer = "copy" /\ offered = "none" /\ content = <<>>
  /\ writer' = "tail"
  /\ UNCHANGED <<callvars, content, offered, failed, closed, shut, sent, body, source, download>>

Err == writer' = "closing" /\ failed' = TRUE

ContentFails ==
  /\ writer = "copy" /\ offered = "none" /\ content # <<>> /\ Head(content) = "fails"
  /\ Err
  /\ UNCHANGED <<callvars, content, offered, closed, shut, sent, body, source, download>>

\* A write meets the closed reading end.
PipeClosed ==
  /\ shut /\ offered # "none"
  /\ Err
  /\ offered' = "none"
  /\ UNCHANGED <<callvars, content, closed, shut, sent, body, source, download>>

\* The error is dropped.
BugCloseWriter ==
  /\ writer = "closing"
  /\ closed' = "eof"
  /\ writer' = "gone"
  /\ UNCHANGED <<callvars, content, offered, failed, shut, sent, body, source, download>>

CloseWriter ==
  /\ writer = "closing"
  /\ closed' = IF failed THEN "error" ELSE "eof"
  /\ writer' = "gone"
  /\ UNCHANGED <<callvars, content, offered, failed, shut, sent, body, source, download>>

WriterStep == WriteChunk \/ ContentEnds \/ ContentFails \/ PipeClosed \/ CloseWriter

-----------------------------------------------------------------------------
(* Download. *)

CopyStep == UNCHANGED <<made, client, op, target, via, pipe>>

FileArrives(f) ==
  /\ pc = "waiting" /\ op.reads = "stream"
  /\ pc' = "copying"
  /\ file' = f
  /\ UNCHANGED <<outcome, written>> /\ CopyStep

\* io.CopyN, a byte at a time: the caller's writer takes it, or fails.
CopyByte ==
  /\ pc = "copying" /\ written < op.size /\ written < file.length
  /\ \/ written' = written + 1 /\ UNCHANGED <<pc, outcome>>
     \/ Ends("writeFailed") /\ UNCHANGED written
  /\ UNCHANGED file /\ CopyStep

\* io.CopyN meets the end of the body, or the cut, within the bound.
FileEnds ==
  /\ pc = "copying" /\ written < op.size /\ written = file.length
  /\ Ends(IF file.cut THEN "readFailed" ELSE "ok")
  /\ UNCHANGED download /\ CopyStep

\* What filled the bound is taken for the whole file.
BugProbe ==
  /\ pc = "copying" /\ written = op.size
  /\ Ends("ok")
  /\ UNCHANGED download /\ CopyStep

\* One byte more than the bound; an error of that read is not looked at.
Probe ==
  /\ pc = "copying" /\ written = op.size
  /\ Ends(IF file.length > written THEN "truncated" ELSE "ok")
  /\ UNCHANGED download /\ CopyStep

-----------------------------------------------------------------------------
TransferNext ==
  \/ CallStep \/ Timeout
  \/ pc = "ready" /\ \E o \in Operations, c \in Contents : StartUpload(o, c)
  \/ TakeChunk \/ BodyEnds \/ BodyFails
  \/ WriterStep
  \/ pc = "waiting" /\ \E n \in Lengths, cut \in BOOLEAN : FileArrives([length |-> n, cut |-> cut])
  \/ CopyByte \/ FileEnds \/ Probe
  \/ Over /\ UNCHANGED allvars

\* A timer that is set fires, and a goroutine that can go on does: the caller's reader
\* returns.  The server owes nothing.
TransferSpec ==
  TransferInit /\ [][TransferNext]_allvars /\ WF_allvars(Timeout) /\ WF_allvars(WriterStep)

-----------------------------------------------------------------------------
(***************************************************************************)
(* Properties.                                                             *)
(***************************************************************************)

\* A body the server takes for whole is the form of all the caller's reader gave, in its
\* order, and a reader that failed never makes one: an error is sent as an error, at
\* whatever point the two goroutines are (CloseWithError).
BodyIsContent ==
  body = "whole" => sent = <<"head">> \o source \o <<"tail">>

\* No call is left hanging: the caller's goroutine comes back by its deadline, and the
\* writer's ends after it, whether or not a request was ever made of the pipe.
NothingHangs == CallReturns /\ (Over ~> writer \in {"idle", "gone"})

\* The caller's writer never gets more than the bound it declared.  A success means the
\* file fit and all of it is there, ErrTruncated that it did not fit and that a bound's
\* worth of it is.  (A body cut off exactly at the bound is CutIsTold's.)
DownloadTold ==
  /\ written <= op.size
  /\ op.reads = "stream" /\ outcome.kind = "ok" =>
       written = file.length /\ (file.cut => written = op.size)
  /\ outcome.kind = "truncated" => written = op.size /\ file.length > written

\* A download cut short is never reported as complete.
CutIsTold == outcome.kind = "ok" => ~file.cut

-----------------------------------------------------------------------------
(* The strengthening of BodyIsContent: what is sent, in the pipe and still to  *)
(* come is the content, as long as the writer has met no error; and the pipe   *)
(* is closed without an error only when it met none.                           *)

BodyBook ==
  /\ writer \in {"idle", "head", "copy", "tail", "closing", "gone"}
  /\ source \in Seq(Chunks) /\ content \in Seq(Chunks)
  /\ sent \in Seq(Chunks \union Form) /\ offered \in Chunks \union Form
  /\ pc \in {"new", "ready"} => writer = "idle"
  /\ writer \in {"idle", "head"} => sent = <<>> /\ content = source
  /\ writer = "idle" => body = "none"
  /\ writer \in {"idle", "head", "copy", "tail"} => ~failed
  /\ writer \in {"idle", "closing", "gone"} => offered = "none"
  /\ writer = "head" => offered \in {"none", "head"}
  /\ writer = "copy" =>
       (IF offered = "none" THEN sent ELSE Append(sent, offered)) \o content
         = <<"head">> \o source
  /\ writer = "tail" => offered \in {"none", "tail"} /\ sent = <<"head">> \o source
  /\ writer \in {"closing", "gone"} /\ ~failed => sent = <<"head">> \o source \o <<"tail">>
  /\ closed = "eof" => writer = "gone" /\ ~failed
  /\ body = "whole" => closed = "eof"

(* The strengthening of DownloadTold: nothing is written before the answer of  *)
(* a download is copied, and never more than the file; an answer that is read  *)
(* in one piece is no download's.                                              *)

DownloadBook ==
  /\ op.size \in Nat /\ written \in Nat /\ file.length \in Nat
  /\ pc = "reading" => op.reads # "stream"
  /\ pc = "copying" => op.reads = "stream" /\ written <= file.length
  /\ pc \notin {"copying", "done"} => written = 0
  /\ pc # "done" => outcome.kind = "none"
  /\ DownloadTold
=============================================================================
