--------------------------- MODULE Transfer_proofs ---------------------------
(***************************************************************************)
(* Proofs about Transfer, for every base URL, list of options, server and  *)
(* redirect.                                                               *)
(***************************************************************************)
EXTENDS Transfer, SequenceFacts

-----------------------------------------------------------------------------
(* The redirect policy, and what it adds up to. *)

\* What a request may be sent to, judged against the client's own URL.
AtHome(c, u) ==
  /\ Fold[u.host] = Fold[c.url.host]
  /\ reachableScheme(u.scheme)
  /\ ~u.user
  /\ c.url.scheme = "https" => u.scheme = "https"
  /\ effectivePort(u) \in {effectivePort(c.url), "443"}
  /\ effectivePort(u) # effectivePort(c.url) => effectivePort(c.url) = "80"

\* A location the policy lets a request be led to is at home.
LEMMA PolicyKeepsHome ==
  ASSUME NEW c, NEW u, NEW method, NEW v,
         v[1].url = c.url, checkRedirect(method, u, v)
  PROVE  AtHome(c, u)
BY DEF checkRedirect, AtHome, sameEndpoint

\* A location at home is never less protected than the client's own.
LEMMA HomeIsNoClearer ==
  ASSUME NEW c, NEW u, reachableScheme(c.url.scheme), AtHome(c, u), sendsCredentialInClear(u)
  PROVE  sendsCredentialInClear(c.url)
BY DEF AtHome, sendsCredentialInClear, isLoopback, reachableScheme

\* What New promises of the client it returns.
ClientOK(c) ==
  c.ok =>
    /\ reachableScheme(c.url.scheme)
    /\ ~c.url.user
    /\ c.credentialed /\ sendsCredentialInClear(c.url) => c.plaintext

LEMMA NewClientOK ==
  ASSUME NEW base, NEW opts
  PROVE  ClientOK(New(base, opts))
BY DEF New, ClientOK, BaseRefused, Refusal

-----------------------------------------------------------------------------
(* The inductive invariant: a client New let through, the first request at  *)
(* its own URL, and every other at home.                                    *)

SentInv ==
  /\ ClientOK(client)
  /\ client.ok => client.url \in URLs
  /\ via \in Seq(Sent)
  /\ pc \in {"new", "ready"} => via = <<>>
  /\ pc = "ready" => client.ok
  /\ pc = "waiting" => via # <<>>
  /\ via # <<>> => client.ok /\ via[1].url = client.url
  /\ client.ok /\ client.policy = "checkRedirect" =>
       Len(via) <= maxRedirects + 1 /\ \A i \in 1..Len(via) : AtHome(client, via[i].url)

LEMMA SentInit == TransferInit => SentInv
<1> SUFFICES ASSUME TransferInit
             PROVE  SentInv
  OBVIOUS
<1>1. client = Refusal /\ via = <<>> /\ pc = "new"
  BY DEF TransferInit, CallInit
<1> QED
  BY <1>1 DEF SentInv, ClientOK, Refusal

\* Steps that leave the requests and the client alone.
LEMMA QuietKeepsSent ==
  ASSUME SentInv, UNCHANGED <<client, via>>,
         pc' \in {"new", "ready"} => pc = pc',
         pc' = "waiting" => pc = "waiting"
  PROVE  SentInv'
BY DEF SentInv, ClientOK, AtHome

LEMMA MakeKeepsSent ==
  ASSUME SentInv, NEW m \in MadeFrom, MakeClient(m)
  PROVE  SentInv'
<1> USE CallAssumption, ClientAssumption
<1>1. ClientOK(client')
  BY NewClientOK DEF MakeClient
<1>2. client'.ok => client'.url \in URLs
  BY DEF MakeClient, New, Parsed, Refusal
<1>3. via = <<>> /\ via' = <<>> /\ pc' \in {"ready", "refused"} /\ (pc' = "ready" => client'.ok)
  BY DEF MakeClient, SentInv, call
<1> QED
  BY <1>1, <1>2, <1>3, EndpointAssumption DEF SentInv

LEMMA CallKeepsSent ==
  ASSUME SentInv, NEW o \in Operations, Call(o)
  PROVE  SentInv'
<1> DEFINE r == [method |-> o.method, url |-> client.url, body |-> o.body]
<1>1. client.ok /\ client.url \in URLs /\ via = <<>> /\ client' = client /\ ClientOK(client)
  BY DEF SentInv, Call, Send
<1>2. CASE via' = via /\ pc' = "done"
  BY <1>1, <1>2, QuietKeepsSent
<1>3. CASE via' = <<r>> /\ pc' = "waiting"
  <2>1. r \in Sent
    BY <1>1, CallAssumption DEF Sent
  <2>2. AtHome(client, client.url)
    BY <1>1 DEF AtHome, ClientOK
  <2>3. via' \in Seq(Sent) /\ Len(via') = 1 /\ via'[1] = r /\ via' # <<>>
    BY <1>3, <2>1
  <2>4. \A i \in 1..Len(via') : via'[i].url = client.url
    BY <2>3
  <2> HIDE DEF r
  <2> QED
    BY <1>1, <1>3, <2>2, <2>3, <2>4, EndpointAssumption DEF SentInv
<1> QED
  BY <1>2, <1>3 DEF Call, Send, Ends

\* A redirect that is followed.
LEMMA FollowKeepsSent ==
  ASSUME SentInv, pc = "waiting", NEW next \in Sent, UNCHANGED client,
         Follow(next),
         client.policy = "checkRedirect" => checkRedirect(next.method, next.url, via)
  PROVE  SentInv'
<1>1. /\ via \in Seq(Sent) /\ via # <<>> /\ client.ok
      /\ via[1].url = client.url /\ Len(via) \in Nat \ {0}
  BY DEF SentInv
<1>2. /\ via' = Append(via, next) /\ via' \in Seq(Sent) /\ Len(via') = Len(via) + 1
      /\ via' # <<>> /\ via'[1] = via[1]
      /\ \A i \in 1..Len(via') : (i \in 1..Len(via) /\ via'[i] = via[i]) \/ via'[i] = next
  BY <1>1 DEF Follow
<1>3. client.policy = "checkRedirect" =>
        /\ Len(via') <= maxRedirects + 1
        /\ \A i \in 1..Len(via') : AtHome(client, via'[i].url)
  <2> SUFFICES ASSUME client.policy = "checkRedirect"
               PROVE  /\ Len(via') <= maxRedirects + 1
                      /\ \A i \in 1..Len(via') : AtHome(client, via'[i].url)
    OBVIOUS
  <2>1. checkRedirect(next.method, next.url, via)
    OBVIOUS
  <2>2. AtHome(client, next.url)
    BY <1>1, <2>1, PolicyKeepsHome
  <2>3. Len(via) <= maxRedirects
    BY <2>1 DEF checkRedirect
  <2>4. \A i \in 1..Len(via) : AtHome(client, via[i].url)
    BY <1>1 DEF SentInv
  <2>5. Len(via') <= maxRedirects + 1
    BY <1>1, <1>2, <2>3, EndpointAssumption
  <2>6. ASSUME NEW i \in 1..Len(via')
        PROVE  AtHome(client, via'[i].url)
    BY <1>2, <2>2, <2>4
  <2> QED
    BY <2>5, <2>6
<1>4. pc' = "waiting" /\ client' = client /\ ClientOK(client) /\ client.url \in URLs
  BY <1>1 DEF Follow, SentInv
<1> QED
  BY <1>1, <1>2, <1>3, <1>4 DEF SentInv

LEMMA RedirectKeepsSent ==
  ASSUME SentInv, NEW s \in {301, 307}, NEW l \in Replies.locations, Redirect(s, l)
  PROVE  SentInv'
<1>1. pc = "waiting" /\ client' = client
  BY DEF Redirect
<1>2. CASE via' = via /\ pc' = "done"
  BY <1>1, <1>2, QuietKeepsSent
<1>3. CASE l.kind = "url" /\ AskPolicy(Redirected(s, l.url))
  <2> DEFINE next == Redirected(s, l.url)
  <2>1. via \in Seq(Sent) /\ via # <<>>
    BY <1>1 DEF SentInv
  <2>2. Last(via) \in Sent
    BY <2>1 DEF Last
  <2>3. next \in Sent
    BY <2>2, CallAssumption DEF Redirected, Sent, Locations, Methods
  <2> HIDE DEF next
  <2>4. CASE RefuseRedirect
    BY <1>1, <2>4, <1>2 DEF RefuseRedirect, Ends
  <2>5. CASE Follow(next) /\ (client.policy = "checkRedirect" =>
                                checkRedirect(next.method, next.url, via))
    BY <1>1, <2>3, <2>5, FollowKeepsSent
  <2> QED
    BY <1>3, <2>4, <2>5 DEF AskPolicy, next
<1> QED
  BY <1>2, <1>3, CallAssumption DEF Redirect, Ends, Handed, Locations

LEMMA SentStep == SentInv /\ [TransferNext]_allvars => SentInv'
<1> SUFFICES ASSUME SentInv, [TransferNext]_allvars
             PROVE  SentInv'
  OBVIOUS
<1>1. CASE CallStep
  <2>1. ASSUME NEW m \in MadeFrom, MakeClient(m)
        PROVE  SentInv'
    BY <2>1, MakeKeepsSent
  <2>2. ASSUME NEW o \in Operations, OtherCall(o)
        PROVE  SentInv'
    BY <2>2, CallKeepsSent DEF OtherCall
  <2>3. ASSUME NEW s \in {301, 307}, NEW l \in Replies.locations, Redirect(s, l)
        PROVE  SentInv'
    BY <2>3, RedirectKeepsSent
  <2>4. ASSUME NEW s \in Statuses, NEW b \in Replies.bodies, Refused(s, b)
        PROVE  SentInv'
    BY <2>4, QuietKeepsSent DEF Refused
  <2>5. CASE Succeeds
    BY <2>5, QuietKeepsSent DEF Succeeds, Ends
  <2>6. ASSUME NEW b \in AnswerBodies, ReadAnswer(b)
        PROVE  SentInv'
    BY <2>6, QuietKeepsSent DEF ReadAnswer
  <2>7. CASE ConnectionFails
    BY <2>7, QuietKeepsSent DEF ConnectionFails, Ends
  <2> QED
    BY <1>1, <2>1, <2>2, <2>3, <2>4, <2>5, <2>6, <2>7 DEF CallStep, Server
<1>2. CASE Timeout
  BY <1>2, QuietKeepsSent DEF Timeout, TimerFires, HeaderTimerFires, Ends
<1>3. ASSUME NEW o \in Operations, NEW c \in Contents, StartUpload(o, c)
      PROVE  SentInv'
  BY <1>3, CallKeepsSent DEF StartUpload
<1>4. CASE BodyFails
  BY <1>4, QuietKeepsSent DEF BodyFails, Ends
<1>5. CASE UNCHANGED callvars
  BY <1>5, QuietKeepsSent DEF callvars, call
<1>6. ASSUME NEW f, FileArrives(f)
      PROVE  SentInv'
  BY <1>6, QuietKeepsSent DEF FileArrives, CopyStep
<1>7. CASE CopyByte \/ FileEnds \/ Probe
  BY <1>7, QuietKeepsSent DEF CopyByte, FileEnds, Probe, CopyStep, Ends
<1>8. TakeChunk \/ BodyEnds \/ WriterStep \/ UNCHANGED allvars => UNCHANGED callvars
  BY DEF TakeChunk, BodyEnds, WriterStep, WriteChunk, ContentEnds, ContentFails, PipeClosed,
         CloseWriter, allvars
<1> QED
  BY <1>1, <1>2, <1>3, <1>4, <1>5, <1>6, <1>7, <1>8 DEF TransferNext

\* Wherever redirects point it, a call talks to the server of its base URL alone, never
\* in clear with a credential its caller did not release, and no further than the cap.
THEOREM CredentialsStayHomeHolds == TransferSpec => []CredentialsStayHome
<1>1. SentInv => CredentialsStayHome
  <2> SUFFICES ASSUME SentInv, client.ok, client.policy = "checkRedirect"
               PROVE  CredentialsStayHome
    BY DEF CredentialsStayHome
  <2>1. via \in Seq(Sent) /\ DOMAIN via = 1..Len(via) /\ ClientOK(client)
    BY DEF SentInv
  <2>2. ASSUME NEW i \in DOMAIN via
        PROVE  /\ AtHome(client, via[i].url)
               /\ client.credentialed /\ sendsCredentialInClear(via[i].url) => client.plaintext
    <3>1. AtHome(client, via[i].url)
      BY <2>1 DEF SentInv
    <3> QED
      BY <2>1, <3>1, HomeIsNoClearer DEF ClientOK
  <2>3. Len(via) <= maxRedirects + 1
    BY DEF SentInv
  <2> QED
    BY <2>2, <2>3 DEF CredentialsStayHome, AtHome
<1> QED
  BY <1>1, SentInit, SentStep, PTL DEF TransferSpec

-----------------------------------------------------------------------------
(* An upload's body. *)

LEMMA BodyBookInit == TransferInit => BodyBook
<1> SUFFICES ASSUME TransferInit
             PROVE  BodyBook
  OBVIOUS
<1>1. writer = "idle" /\ content = <<>> /\ offered = "none" /\ ~failed
  BY DEF TransferInit
<1>2. closed = "open" /\ sent = <<>> /\ body = "none" /\ source = <<>>
  BY DEF TransferInit
<1>3. source \in Seq(Chunks) /\ content \in Seq(Chunks) /\ sent \in Seq(Chunks \union Form)
  BY <1>1, <1>2
<1>4. offered \in Chunks \union Form
  BY <1>1 DEF Form
<1> QED
  BY <1>1, <1>2, <1>3, <1>4, Zenon DEF BodyBook

\* Steps of the call alone.
LEMMA CallKeepsBody ==
  ASSUME BodyBook, pc' \in {"new", "ready"} => pc \in {"new", "ready"},
         UNCHANGED <<writer, content, offered, failed, closed, sent, body, source>>
  PROVE  BodyBook'
BY DEF BodyBook

LEMMA UploadBegins ==
  ASSUME BodyBook, NEW o \in Operations, NEW c \in Contents, StartUpload(o, c)
  PROVE  BodyBook'
<1>1. pc = "ready" /\ writer = "idle" /\ pc' \in {"waiting", "done"}
  BY DEF StartUpload, Call, Send, Ends, BodyBook
<1>2. CASE UNCHANGED pipe
  BY <1>1, <1>2, CallKeepsBody DEF pipe
<1>3. CASE /\ writer' = "head" /\ content' = c /\ source' = c /\ body' \in {"none", "part"}
           /\ UNCHANGED <<offered, failed, closed, sent>>
  <2>1. c \in Seq(Chunks)
    BY TransferAssumption
  <2> QED
    BY <1>1, <1>3, <2>1 DEF BodyBook
<1> QED
  BY <1>2, <1>3 DEF StartUpload

LEMMA TakeKeepsBody ==
  ASSUME BodyBook, TakeChunk
  PROVE  BodyBook'
<1>1. /\ offered # "none" /\ offered \in Chunks \union Form /\ sent \in Seq(Chunks \union Form)
      /\ offered' = "none" /\ sent' = Append(sent, offered)
      /\ UNCHANGED <<pc, content, failed, closed, body, source>>
  BY DEF TakeChunk, BodyBook, callvars
<1>2. sent' \in Seq(Chunks \union Form) /\ body # "whole"
  BY <1>1 DEF TakeChunk, Reading
<1>3. CASE writer = "head"
  <2>1. offered = "head" /\ sent = <<>> /\ content = source /\ writer' = "copy" /\ ~failed
        /\ closed # "eof" /\ pc \notin {"new", "ready"}
    BY <1>1, <1>3 DEF TakeChunk, BodyBook
  <2>2. sent' = <<"head">>
    BY <1>1, <2>1
  <2> QED
    BY <1>1, <1>2, <2>1, <2>2 DEF BodyBook, Form
<1>4. CASE writer = "copy"
  <2>1. writer' = "copy" /\ ~failed /\ closed # "eof" /\ pc \notin {"new", "ready"}
    BY <1>1, <1>4 DEF TakeChunk, BodyBook
  <2>2. sent' \o content = <<"head">> \o source
    BY <1>1, <1>4 DEF BodyBook
  <2> QED
    BY <1>1, <1>2, <2>1, <2>2 DEF BodyBook, Form
<1>5. CASE writer = "tail"
  <2>1. offered = "tail" /\ sent = <<"head">> \o source /\ writer' = "closing" /\ ~failed
        /\ closed # "eof" /\ pc \notin {"new", "ready"}
    BY <1>1, <1>5 DEF TakeChunk, BodyBook
  <2>2. sent' = <<"head">> \o source \o <<"tail">>
    BY <1>1, <2>1, AppendIsConcat
  <2> QED
    BY <1>1, <1>2, <2>1, <2>2 DEF BodyBook, Form
<1> QED
  BY <1>1, <1>3, <1>4, <1>5 DEF BodyBook

LEMMA WriterKeepsBody ==
  ASSUME BodyBook, WriterStep
  PROVE  BodyBook'
<1>1. CASE WriteChunk
  <2>1. offered = "none" /\ UNCHANGED <<pc, writer, failed, closed, sent, body, source>>
    BY <1>1 DEF WriteChunk, Offer, callvars
  <2>2. CASE writer \in {"head", "tail"} /\ UNCHANGED content /\ offered' = writer
    BY <2>1, <2>2 DEF BodyBook, Form
  <2>3. CASE /\ writer = "copy" /\ content # <<>>
             /\ offered' = Head(content) /\ content' = Tail(content)
    <3>1. content \in Seq(Chunks) /\ sent \in Seq(Chunks \union Form)
      BY DEF BodyBook
    <3>2. /\ content' \in Seq(Chunks) /\ offered' \in Chunks
          /\ content = <<offered'>> \o content'
      BY <2>3, <3>1
    <3>3. sent \o content = <<"head">> \o source
      BY <2>1, <2>3 DEF BodyBook
    <3>4. sent \o (<<offered'>> \o content') = (sent \o <<offered'>>) \o content'
      BY <3>1, <3>2, ConcatAssociative
    <3>5. sent \o <<offered'>> = Append(sent, offered')
      BY <3>1, <3>2, AppendIsConcat
    <3>6. Append(sent, offered') \o content' = <<"head">> \o source
      BY <3>2, <3>3, <3>4, <3>5
    <3>7. offered' \in Chunks \union Form /\ offered' # "none"
      BY <3>2, TransferAssumption DEF Form
    <3> QED
      BY <2>1, <2>3, <3>2, <3>6, <3>7 DEF BodyBook
  <2> QED
    BY <1>1, <2>2, <2>3 DEF WriteChunk, Offer
<1>2. CASE ContentEnds
  <2>1. /\ writer = "copy" /\ writer' = "tail" /\ offered = "none" /\ content = <<>>
        /\ UNCHANGED <<pc, content, offered, failed, closed, sent, body, source>>
    BY <1>2 DEF ContentEnds, callvars
  <2>2. sent = <<"head">> \o source
    BY <2>1 DEF BodyBook
  <2> QED
    BY <2>1, <2>2 DEF BodyBook
<1>3. CASE ContentFails \/ PipeClosed
  <2>1. /\ writer \in {"head", "copy", "tail"} /\ writer' = "closing" /\ failed'
        /\ offered' = "none"
        /\ UNCHANGED <<pc, content, closed, sent, body, source>>
    BY <1>3 DEF ContentFails, PipeClosed, Err, callvars, BodyBook
  <2> QED
    BY <2>1 DEF BodyBook, Form
<1>4. CASE CloseWriter
  BY <1>4 DEF CloseWriter, BodyBook, callvars
<1> QED
  BY <1>1, <1>2, <1>3, <1>4 DEF WriterStep

LEMMA BodyBookNext == BodyBook /\ [TransferNext]_allvars => BodyBook'
<1> SUFFICES ASSUME BodyBook, [TransferNext]_allvars
             PROVE  BodyBook'
  OBVIOUS
<1>1. CASE CallStep
  <2>1. pc' \in {"new", "ready"} => pc \in {"new", "ready"}
    <3>1. ASSUME NEW o, OtherCall(o)
          PROVE  pc \in {"new", "ready"}
      BY <3>1 DEF OtherCall, Call
    <3>2. ASSUME NEW s, NEW l, Redirect(s, l), pc' \in {"new", "ready"}
          PROVE  FALSE
      BY <3>2 DEF Redirect, Ends, Handed, AskPolicy, Follow, RefuseRedirect
    <3>3. ASSUME Succeeds \/ ConnectionFails \/ (\E s, b : Refused(s, b))
                 \/ (\E b : ReadAnswer(b)), pc' \in {"new", "ready"}
          PROVE  FALSE
      BY <3>3 DEF Succeeds, ConnectionFails, Refused, ReadAnswer, Ends
    <3> QED
      BY <1>1, <3>1, <3>2, <3>3 DEF CallStep, Server
  <2> QED
    BY <1>1, <2>1, CallKeepsBody DEF CallStep
<1>2. CASE Timeout \/ BodyFails
  BY <1>2, CallKeepsBody DEF Timeout, TimerFires, HeaderTimerFires, BodyFails, Ends
<1>3. ASSUME NEW o \in Operations, NEW c \in Contents, StartUpload(o, c)
      PROVE  BodyBook'
  BY <1>3, UploadBegins
<1>4. CASE TakeChunk
  BY <1>4, TakeKeepsBody
<1>5. CASE BodyEnds
  BY <1>5 DEF BodyEnds, callvars, BodyBook
<1>6. CASE WriterStep
  BY <1>6, WriterKeepsBody
<1>7. ASSUME NEW f, FileArrives(f)
      PROVE  BodyBook'
  BY <1>7, CallKeepsBody DEF FileArrives, CopyStep, pipe
<1>8. CASE CopyByte \/ FileEnds \/ Probe
  BY <1>8, CallKeepsBody DEF CopyByte, FileEnds, Probe, CopyStep, Ends, pipe
<1>9. CASE UNCHANGED allvars
  BY <1>9, CallKeepsBody DEF allvars, callvars, pipe
<1> QED
  BY <1>1, <1>2, <1>3, <1>4, <1>5, <1>6, <1>7, <1>8, <1>9 DEF TransferNext

\* A body the server takes for whole is the form of all the caller's reader gave, for
\* every content and wherever the two goroutines are when a read, a write or the call
\* fails (CloseWithError).
THEOREM BodyIsContentHolds == TransferSpec => []BodyIsContent
<1>1. BodyBook => BodyIsContent
  BY DEF BodyBook, BodyIsContent
<1> QED
  BY <1>1, BodyBookInit, BodyBookNext, PTL DEF TransferSpec

-----------------------------------------------------------------------------
(* A download's end. *)

\* A call ends, with nothing copied by the step.
LEMMA EndKeepsTold ==
  ASSUME DownloadBook, UNCHANGED <<op, file, written>>, pc # "done", pc' = "done",
         outcome'.kind # "truncated", op.reads = "stream" => outcome'.kind # "ok"
  PROVE  DownloadBook'
BY DEF DownloadBook, DownloadTold

\* A step of a call that is not copied yet, or of an upload.
LEMMA StepKeepsTold ==
  ASSUME DownloadBook, UNCHANGED <<op, file, written, outcome>>,
         \/ pc' = pc
         \/ pc \notin {"copying", "done"} /\ pc' \notin {"reading", "copying", "done"}
         \/ pc \notin {"copying", "done"} /\ pc' = "reading" /\ op.reads # "stream"
  PROVE  DownloadBook'
BY DEF DownloadBook, DownloadTold

LEMMA SendKeepsTold ==
  ASSUME DownloadBook, NEW o \in Operations, Call(o), UNCHANGED <<file, written>>
  PROVE  DownloadBook'
<1>1. pc = "ready" /\ op' = o /\ o.size \in Nat
  BY CallAssumption DEF Call, Send
<1>2. written = 0 /\ outcome.kind = "none" /\ file.length \in Nat
  BY <1>1 DEF DownloadBook
<1>3. Unsent(o) \in {"none", "invalid", "unencodable"}
  BY Zenon DEF Unsent
<1>4. CASE pc' = "done" /\ outcome'.kind = Unsent(o) /\ Unsent(o) # "none"
  BY <1>1, <1>2, <1>3, <1>4 DEF DownloadBook, DownloadTold
<1>5. CASE pc' = "waiting" /\ UNCHANGED outcome
  BY <1>1, <1>2, <1>5 DEF DownloadBook, DownloadTold
<1> QED
  BY <1>4, <1>5 DEF Call, Send, Ends

LEMMA RedirectKeepsTold ==
  ASSUME DownloadBook, NEW s, NEW l, Redirect(s, l), UNCHANGED <<file, written>>
  PROVE  DownloadBook'
<1>1. pc = "waiting" /\ UNCHANGED op
  BY DEF Redirect
<1>2. classifyUnfollowedRedirect(client.url, l) \in {"unsafe", "notFollowed"}
  BY DEF classifyUnfollowedRedirect
<1>3. \/ UNCHANGED <<pc, outcome>>
      \/ pc' = "done" /\ outcome'.kind \in {"unsafe", "notFollowed", "transport", "api"}
  <2>1. ASSUME NEW next, AskPolicy(next)
        PROVE  \/ UNCHANGED <<pc, outcome>>
               \/ pc' = "done" /\ outcome'.kind = "unsafe"
    BY <2>1 DEF AskPolicy, Follow, RefuseRedirect, Ends
  <2>2. ASSUME Handed(s)
        PROVE  pc' = "done" /\ outcome'.kind = "api"
    BY <2>2 DEF Handed, Failed
  <2>3. ASSUME NEW k, Ends(k)
        PROVE  pc' = "done" /\ outcome'.kind = k
    BY <2>3 DEF Ends
  <2> QED
    BY <1>2, <2>1, <2>2, <2>3 DEF Redirect
<1> QED
  BY <1>1, <1>3, EndKeepsTold, StepKeepsTold

LEMMA AnswerKeepsTold ==
  ASSUME DownloadBook, UNCHANGED <<file, written>>,
         \/ \E s, b : Refused(s, b)
         \/ Succeeds \/ ConnectionFails
         \/ \E b : ReadAnswer(b)
  PROVE  DownloadBook'
<1>1. ASSUME NEW s, NEW b, Refused(s, b)
      PROVE  DownloadBook'
  BY <1>1, EndKeepsTold DEF Refused, Failed
<1>2. CASE Succeeds
  BY <1>2, EndKeepsTold, StepKeepsTold DEF Succeeds, Ends
<1>3. CASE ConnectionFails
  BY <1>3, EndKeepsTold DEF ConnectionFails, Ends
<1>4. ASSUME NEW b, ReadAnswer(b)
      PROVE  DownloadBook'
  <2>1. pc = "reading" /\ pc' = "done" /\ outcome'.kind = Decoded(b) /\ UNCHANGED op
    BY <1>4 DEF ReadAnswer
  <2>2. Decoded(b) # "truncated"
    BY DEF Decoded
  <2>3. op.reads # "stream"
    BY <2>1 DEF DownloadBook
  <2> QED
    BY <2>1, <2>2, <2>3, EndKeepsTold
<1> QED
  BY <1>1, <1>2, <1>3, <1>4

LEMMA CopyKeepsTold ==
  ASSUME DownloadBook, CopyByte \/ FileEnds \/ Probe
  PROVE  DownloadBook'
<1>1. /\ pc = "copying" /\ op.reads = "stream" /\ UNCHANGED <<op, file>>
      /\ op.size \in Nat /\ written \in Nat /\ file.length \in Nat
      /\ written <= op.size /\ written <= file.length /\ outcome.kind = "none"
  BY DEF DownloadBook, DownloadTold, CopyByte, FileEnds, Probe, CopyStep, download
<1>2. CASE CopyByte
  <2>1. CASE Ends("writeFailed") /\ UNCHANGED written
    BY <1>1, <2>1, EndKeepsTold DEF Ends
  <2>2. CASE written' = written + 1 /\ UNCHANGED <<pc, outcome>>
    <3>1. written < op.size /\ written < file.length
      BY <1>2 DEF CopyByte
    <3> QED
      BY <1>1, <2>2, <3>1 DEF DownloadBook, DownloadTold
  <2> QED
    BY <1>2, <2>1, <2>2 DEF CopyByte
<1>3. CASE FileEnds
  <2>1. /\ written = file.length /\ written < op.size /\ pc' = "done" /\ UNCHANGED written
        /\ outcome'.kind = IF file.cut THEN "readFailed" ELSE "ok"
    BY <1>3 DEF FileEnds, Ends, download
  <2> QED
    BY <1>1, <2>1 DEF DownloadBook, DownloadTold
<1>4. CASE Probe
  <2>1. /\ written = op.size /\ pc' = "done" /\ UNCHANGED written
        /\ outcome'.kind = IF file.length > written THEN "truncated" ELSE "ok"
    BY <1>4 DEF Probe, Ends, download
  <2> QED
    BY <1>1, <2>1 DEF DownloadBook, DownloadTold
<1> QED
  BY <1>2, <1>3, <1>4

LEMMA DownloadBookInit == TransferInit => DownloadBook
<1> SUFFICES ASSUME TransferInit
             PROVE  DownloadBook
  OBVIOUS
<1>1. op.size = 0
  BY DEF TransferInit, CallInit, ListAgents, Asking, Operation
<1>2. written = 0 /\ file.length = 0 /\ outcome.kind = "none" /\ pc = "new"
  BY DEF TransferInit, CallInit, NoFile, NoOutcome
<1> QED
  BY <1>1, <1>2 DEF DownloadBook, DownloadTold

LEMMA DownloadBookNext == DownloadBook /\ [TransferNext]_allvars => DownloadBook'
<1> SUFFICES ASSUME DownloadBook, [TransferNext]_allvars
             PROVE  DownloadBook'
  OBVIOUS
<1>1. CASE CallStep
  <2>1. UNCHANGED <<file, written>>
    BY <1>1 DEF CallStep, download
  <2>2. ASSUME NEW m, MakeClient(m)
        PROVE  DownloadBook'
    BY <2>1, <2>2, StepKeepsTold DEF MakeClient, call
  <2>3. ASSUME NEW o \in Operations, OtherCall(o)
        PROVE  DownloadBook'
    BY <2>1, <2>3, SendKeepsTold DEF OtherCall
  <2>4. CASE Server \/ ConnectionFails
    BY <2>1, <2>4, RedirectKeepsTold, AnswerKeepsTold DEF Server
  <2> QED
    BY <1>1, <2>2, <2>3, <2>4 DEF CallStep
<1>2. CASE Timeout
  <2>1. /\ pc # "done" /\ pc' = "done" /\ outcome'.kind = "timeout"
        /\ UNCHANGED <<op, file, written>>
    BY <1>2 DEF Timeout, TimerFires, HeaderTimerFires, Ends, download
  <2> QED
    BY <2>1, EndKeepsTold
<1>3. CASE BodyFails
  <2>1. /\ pc # "done" /\ pc' = "done" /\ outcome'.kind = "transport"
        /\ UNCHANGED <<op, file, written>>
    BY <1>3 DEF BodyFails, Ends, download
  <2> QED
    BY <2>1, EndKeepsTold
<1>4. ASSUME NEW o \in Operations, NEW c \in Contents, StartUpload(o, c)
      PROVE  DownloadBook'
  BY <1>4, SendKeepsTold DEF StartUpload, download
<1>5. CASE TakeChunk \/ BodyEnds \/ WriterStep
  <2>1. UNCHANGED <<pc, op, outcome, file, written>>
    BY <1>5 DEF TakeChunk, BodyEnds, WriterStep, WriteChunk, ContentEnds, ContentFails, PipeClosed,
               CloseWriter, callvars, call, download
  <2> QED
    BY <2>1, StepKeepsTold
<1>6. ASSUME NEW n \in Lengths, NEW cut \in BOOLEAN,
             FileArrives([length |-> n, cut |-> cut]), pc = "waiting"
      PROVE  DownloadBook'
  <2>1. /\ op.reads = "stream" /\ pc' = "copying" /\ file'.length = n
        /\ UNCHANGED <<op, outcome, written>>
    BY <1>6 DEF FileArrives, CopyStep
  <2>2. n \in Nat
    BY TransferAssumption
  <2> QED
    BY <1>6, <2>1, <2>2 DEF DownloadBook, DownloadTold
<1>7. CASE CopyByte \/ FileEnds \/ Probe
  BY <1>7, CopyKeepsTold
<1>8. CASE UNCHANGED allvars
  BY <1>8, StepKeepsTold DEF allvars, callvars, call, download
<1> QED
  BY <1>1, <1>2, <1>3, <1>4, <1>5, <1>6, <1>7, <1>8 DEF TransferNext

\* For every bound and every file, cut or whole: a caller's writer never gets more than the
\* bound, a success means all of the file is there, ErrTruncated that it did not fit
\* (doDownload; a file cut exactly at the bound is left to CutIsTold).
THEOREM DownloadToldHolds == TransferSpec => []DownloadTold
<1>1. DownloadBook => DownloadTold
  BY DEF DownloadBook
<1> QED
  BY <1>1, DownloadBookInit, DownloadBookNext, PTL DEF TransferSpec

-----------------------------------------------------------------------------
(***************************************************************************)
(* What a request asks for.                                                *)
(***************************************************************************)

(* The path. *)

LEMMA FrontType ==
  ASSUME NEW D, NEW s \in Seq(D)
  PROVE  Front(s) \in Seq(D)
<1>1. Len(s) \in Nat /\ \A i \in 1..(Len(s) - 1) : s[i] \in D
  OBVIOUS
<1> QED
  BY <1>1 DEF Front

WalkRuns(h, t, D) ==
  /\ h \in [0..Len(t) -> Seq(D)] /\ h[0] = <<>>
  /\ \A k \in 1..Len(t) : h[k] = Walk(h[k - 1], t[k])
  /\ FoldLeft(Walk, <<>>, t) = h[Len(t)]

\* The fold of ResolveReference, element by element.
LEMMA WalkLoops ==
  ASSUME NEW D, NEW t \in Seq(D)
  PROVE  \E h : WalkRuns(h, t, D)
<1> DEFINE n    == Len(t)
           base == <<>>
           step == [p \in Seq(D) \X (1..n) |-> Walk(p[1], t[p[2]])]
           Eq(g) == g = [S \in SUBSET DOMAIN t |->
                           IF S = {} THEN base ELSE Walk(g[S \ {Max(S)}], t[Max(S)])]
           f    == CHOOSE g : Eq(g)
<1>1. n \in Nat /\ DOMAIN t = 1..n /\ \A i \in 1..n : t[i] \in D
  OBVIOUS
<1>2. base \in Seq(D)
  OBVIOUS
<1>3. FoldLeft(Walk, base, t) = f[DOMAIN t]
  BY DEF FoldLeft, MapThenFoldSet
<1>4. \A p \in Seq(D), i \in 1..n : Walk(p, t[i]) \in Seq(D)
  BY <1>1, FrontType DEF Walk
<1> HIDE DEF base
<1>5. /\ step \in [Seq(D) \X (1..n) -> Seq(D)]
      /\ \A p \in Seq(D), i \in 1..n : step[<<p, i>>] = Walk(p, t[i])
  <2> HIDE DEF n
  <2> QED
    BY <1>4
<1> HIDE DEF step, n
<1>6. PICK g : IsFoldMap(g, n, Seq(D), base, step)
  BY <1>1, <1>2, <1>5, FoldMap
<1>7. Eq(g)
  <2>1. g \in [SUBSET (1..n) -> Seq(D)]
    BY <1>6 DEF IsFoldMap
  <2>2. ASSUME NEW S \in SUBSET (1..n)
        PROVE  g[S] = IF S = {} THEN base ELSE Walk(g[S \ {Max(S)}], t[Max(S)])
    <3>1. S # {} => Max(S) \in 1..n
      BY <1>1, LastOf
    <3>2. g[S] = IF S = {} THEN base ELSE step[<<g[S \ {Max(S)}], Max(S)>>]
      BY <1>6 DEF IsFoldMap
    <3>3. S # {} => step[<<g[S \ {Max(S)}], Max(S)>>] = Walk(g[S \ {Max(S)}], t[Max(S)])
      BY <1>5, <2>1, <3>1
    <3> QED
      BY <3>2, <3>3
  <2> QED
    BY <1>1, <2>1, <2>2
<1>8. Eq(f)
  BY <1>7, Zenon
<1> HIDE DEF f
<1>9. f[{}] = base
  BY <1>8
<1>10. ASSUME NEW S \in SUBSET (1..n), S # {}, f[S \ {Max(S)}] \in Seq(D)
       PROVE  f[S] = step[<<f[S \ {Max(S)}], Max(S)>>]
  <2>1. Max(S) \in 1..n
    BY <1>1, <1>10, LastOf
  <2>2. f[S] = Walk(f[S \ {Max(S)}], t[Max(S)])
    BY <1>1, <1>8, <1>10
  <2> QED
    BY <1>5, <1>10, <2>1, <2>2
<1> DEFINE h == [k \in 0..n |-> f[1..k]]
<1>11. IsLoop(h, n, Seq(D), base, step)
  <2> DEFINE E == Seq(D)
  <2>1. /\ base \in E /\ step \in [E \X (1..n) -> E]
        /\ \A S \in SUBSET (1..n) :
             S # {} /\ f[S \ {Max(S)}] \in E => f[S] = step[<<f[S \ {Max(S)}], Max(S)>>]
    BY <1>2, <1>5, <1>10
  <2> HIDE DEF E
  <2>2. IsLoop(h, n, E, base, step)
    BY <1>1, <1>9, <2>1, FoldLoops
  <2> QED
    BY <2>2 DEF E
<1>12. h[n] = f[DOMAIN t]
  BY <1>1
<1> HIDE DEF h
<1>13. \A k \in 1..n : h[k] = Walk(h[k - 1], t[k])
  <2> SUFFICES ASSUME NEW k \in 1..n PROVE h[k] = Walk(h[k - 1], t[k])
    OBVIOUS
  <2>1. h[k - 1] \in Seq(D) /\ h[k] = step[<<h[k - 1], k>>]
    BY <1>1, <1>11 DEF IsLoop
  <2> QED
    BY <1>5, <2>1
<1>14. WalkRuns(h, t, D)
  BY <1>3, <1>11, <1>12, <1>13 DEF WalkRuns, IsLoop, n, base
<1> QED
  BY <1>14

\* A reference with no dot segments is put after its base.
LEMMA WalkPlain ==
  ASSUME NEW D, NEW t \in Seq(D), \A i \in 1..Len(t) : t[i] \notin Dots
  PROVE  FoldLeft(Walk, <<>>, t) = t
<1>1. PICK h : WalkRuns(h, t, D)
  BY WalkLoops
<1> DEFINE n == Len(t)
           In == {k \in 0..n : Len(h[k]) = k /\ \A i \in 1..k : h[k][i] = t[i]}
<1>2. n \in Nat /\ \A i \in 1..n : t[i] \in D
  OBVIOUS
<1>3. h \in [0..n -> Seq(D)] /\ h[0] = <<>> /\ FoldLeft(Walk, <<>>, t) = h[n]
  BY <1>1 DEF WalkRuns
<1>4. \A k \in 1..n : h[k] = Append(h[k - 1], t[k])
  BY <1>1 DEF WalkRuns, Walk, Dots
<1> HIDE DEF n
<1>5. 0 \in In
  BY <1>2, <1>3
<1>6. ASSUME NEW k \in 0..(n - 1), k \in In PROVE k + 1 \in In
  <2>1. k + 1 \in 1..n /\ (k + 1) - 1 = k /\ k \in 0..n /\ k + 1 \in 0..n
    BY <1>2
  <2>2. h[k + 1] = Append(h[k], t[k + 1]) /\ h[k] \in Seq(D) /\ t[k + 1] \in D
    BY <1>2, <1>3, <1>4, <2>1
  <2>3. Len(h[k]) = k /\ \A i \in 1..k : h[k][i] = t[i]
    BY <1>6
  <2>4. /\ Len(h[k + 1]) = k + 1 /\ h[k + 1][k + 1] = t[k + 1]
        /\ \A i \in 1..k : h[k + 1][i] = h[k][i]
    BY <2>2, <2>3, AppendProperties
  <2>5. \A i \in 1..(k + 1) : i \in 1..k \/ i = k + 1
    BY <2>1
  <2>6. \A i \in 1..(k + 1) : h[k + 1][i] = t[i]
    BY <2>3, <2>4, <2>5
  <2> QED
    BY <2>1, <2>4, <2>6
<1> HIDE DEF In
<1>7. 0..n \subseteq In
  BY <1>2, <1>5, <1>6, PrefixInduction
<1>8. Len(h[n]) = n /\ h[n] \in Seq(D) /\ \A i \in 1..n : h[n][i] = t[i]
  <2>1. n \in In
    BY <1>2, <1>7
  <2> QED
    BY <1>3, <2>1 DEF In
<1>9. h[n] = t
  BY <1>8, SeqEqual DEF n
<1> QED
  BY <1>3, <1>9

\* A segment that is escaped is one element of the path, and comes out as it was.
LEMMA EscapeIsOne ==
  ASSUME NEW s
  PROVE  /\ Elements(escape(s)) = <<escape(s)>>
         /\ s # "a%2Fb" => unescape(escape(s)) = s
         /\ s \notin Dots => escape(s) \notin Dots
         /\ escape(s) \in {s, "a%2Fb"}
BY DEF Elements, escape, unescape, Dots

\* Segments of one element each are the elements.
LEMMA FlattenSingles ==
  ASSUME NEW S, NEW e \in Seq(S)
  PROVE  FlattenSeq([i \in 1..Len(e) |-> <<e[i]>>]) = e
<1> DEFINE n  == Len(e)
           ss == [i \in 1..n |-> <<e[i]>>]
<1>1. n \in Nat /\ \A i \in 1..n : e[i] \in S
  OBVIOUS
<1>2. CASE n = 0
  <2>1. ss = <<>> /\ e = <<>>
    BY <1>2
  <2> QED
    BY <2>1, FlattenNone
<1>3. CASE n # 0
  <2>1. ss \in Seq(Seq(S)) /\ Len(ss) = n
    <3>1. \A i \in 1..n : <<e[i]>> \in Seq(S)
      BY <1>1
    <3> HIDE DEF n
    <3> QED
      BY <1>1, <3>1
  <2>2. ss # <<>> /\ \A i \in 1..n : ss[i] = <<e[i]>>
    BY <1>3, <2>1
  <2> HIDE DEF ss
  <2>12. PICK f \in [1..Len(ss) -> Seq(S)] :
           /\ FlattenSeq(ss) = f[Len(ss)]
           /\ \A i \in 1..Len(ss) : f[i] = IF i = 1 THEN ss[i] ELSE f[i - 1] \o ss[i]
    BY <2>1, <2>2, FlattenRuns
  <2>3. /\ f \in [1..n -> Seq(S)] /\ FlattenSeq(ss) = f[n]
        /\ \A i \in 1..n : f[i] = IF i = 1 THEN ss[i] ELSE f[i - 1] \o ss[i]
    BY <2>1, <2>12
  <2> HIDE DEF n
  <2> DEFINE In == {k \in 0..n : k > 0 => Len(f[k]) = k /\ \A i \in 1..k : f[k][i] = e[i]}
  <2>4. 0 \in In
    BY <1>1
  <2>5. ASSUME NEW k \in 0..(n - 1), k \in In PROVE k + 1 \in In
    <3>1. k + 1 \in 1..n /\ k + 1 \in 0..n /\ (k + 1) - 1 = k
      BY <1>1
    <3>2. CASE k = 0
      <4>1. 1 \in 1..n /\ k + 1 = 1
        BY <3>1, <3>2
      <4>2. f[1] = <<e[1]>>
        BY <2>2, <2>3, <4>1
      <4>3. Len(f[1]) = 1 /\ f[1][1] = e[1]
        BY <4>2
      <4>4. \A i \in 1..1 : i = 1
        OBVIOUS
      <4> QED
        BY <3>1, <4>1, <4>3, <4>4
    <3>3. CASE k # 0
      <4>1. k \in 1..n /\ Len(f[k]) = k /\ \A i \in 1..k : f[k][i] = e[i]
        BY <2>5, <3>3
      <4>2. f[k + 1] = f[k] \o <<e[k + 1]>> /\ f[k] \in Seq(S) /\ <<e[k + 1]>> \in Seq(S)
        <5>1. k + 1 # 1 /\ f[k] \in Seq(S) /\ ss[k + 1] = <<e[k + 1]>> /\ e[k + 1] \in S
          BY <1>1, <2>2, <2>3, <3>1, <3>3, <4>1
        <5>2. f[k + 1] = f[(k + 1) - 1] \o ss[k + 1]
          BY <2>3, <3>1, <5>1
        <5>3. f[k + 1] = f[k] \o <<e[k + 1]>>
          BY <3>1, <5>1, <5>2
        <5>4. <<e[k + 1]>> \in Seq(S)
          BY <5>1
        <5> QED
          BY <5>1, <5>3, <5>4
      <4>3. /\ Len(f[k + 1]) = k + 1
            /\ \A i \in 1..(k + 1) : f[k + 1][i] = IF i <= k THEN f[k][i] ELSE <<e[k + 1]>>[i - k]
        BY <4>1, <4>2, ConcatProperties
      <4>4. ASSUME NEW i \in 1..(k + 1) PROVE f[k + 1][i] = e[i]
        <5>1. CASE i <= k
          <6>1. i \in 1..k
            BY <5>1
          <6> QED
            BY <4>1, <4>3, <5>1, <6>1
        <5>2. CASE i = k + 1
          BY <4>3, <5>2
        <5> QED
          BY <5>1, <5>2
      <4> QED
        BY <3>1, <4>3, <4>4
    <3> QED
      BY <3>2, <3>3
  <2> HIDE DEF In
  <2>6. 0..n \subseteq In
    BY <1>1, <2>4, <2>5, PrefixInduction
  <2>7. n \in 0..n /\ n > 0 /\ n \in 1..n
    BY <1>1, <1>3
  <2>8. Len(f[n]) = n /\ f[n] \in Seq(S) /\ \A i \in 1..n : f[n][i] = e[i]
    BY <2>3, <2>6, <2>7 DEF In
  <2>9. f[n] = e
    BY <2>8, SeqEqual DEF n
  <2> QED
    BY <2>3, <2>9 DEF ss, n
<1> QED
  BY <1>2, <1>3

\* resolve puts the segments after the base's path, each as it was given.
LEMMA ResolveIs ==
  ASSUME NEW D, NEW c, NEW b \in Seq(D), b = Front(c.path), NEW segs \in Seq(D),
         \A i \in 1..Len(b) : b[i] \notin {"a%2Fb"} \union Dots,
         \A i \in 1..Len(segs) : segs[i] \notin {"a%2Fb"} \union Dots
  PROVE  resolve(c, segs) = b \o segs
<1> DEFINE C == D \union {"a%2Fb"}
           e == [i \in 1..Len(segs) |-> escape(segs[i])]
           parsed == FlattenSeq([i \in DOMAIN segs |-> Elements(escape(segs[i]))])
           t == b \o e
<1>1. /\ DOMAIN segs = 1..Len(segs) /\ Len(segs) \in Nat /\ Len(b) \in Nat
      /\ \A i \in 1..Len(segs) : segs[i] \in D
  OBVIOUS
<1>2. e \in Seq(C) /\ Len(e) = Len(segs) /\ \A i \in 1..Len(segs) : e[i] = escape(segs[i])
  <2>1. \A i \in 1..Len(segs) : escape(segs[i]) \in C
    BY <1>1, EscapeIsOne
  <2> HIDE DEF C
  <2> QED
    BY <1>1, <2>1
<1> HIDE DEF e
<1>3. parsed = e
  <2>1. [i \in DOMAIN segs |-> Elements(escape(segs[i]))] = [i \in 1..Len(e) |-> <<e[i]>>]
    BY <1>1, <1>2, EscapeIsOne
  <2> QED
    BY <1>2, <2>1, FlattenSingles
<1>4. b \in Seq(C) /\ segs \in Seq(C)
  OBVIOUS
<1> HIDE DEF C
<1>5. /\ t \in Seq(C) /\ Len(t) = Len(b) + Len(segs)
      /\ \A i \in 1..Len(t) : t[i] = IF i <= Len(b) THEN b[i] ELSE e[i - Len(b)]
  <2>1. b \in Seq(C) /\ e \in Seq(C)
    BY <1>2, <1>4
  <2>2. /\ b \o e \in Seq(C) /\ Len(b \o e) = Len(b) + Len(e)
        /\ \A i \in 1..(Len(b) + Len(e)) :
             (b \o e)[i] = IF i <= Len(b) THEN b[i] ELSE e[i - Len(b)]
    BY <2>1, ConcatProperties
  <2> QED
    BY <1>2, <2>2
<1> HIDE DEF t, parsed
<1>6. \A i \in 1..Len(t) : \/ i \in 1..Len(b) /\ t[i] = b[i]
                           \/ i - Len(b) \in 1..Len(segs) /\ t[i] = escape(segs[i - Len(b)])
                              /\ ~(i <= Len(b))
  <2> SUFFICES ASSUME NEW i \in 1..Len(t)
               PROVE  \/ i \in 1..Len(b) /\ t[i] = b[i]
                      \/ i - Len(b) \in 1..Len(segs) /\ t[i] = escape(segs[i - Len(b)])
                         /\ ~(i <= Len(b))
    OBVIOUS
  <2>1. CASE i <= Len(b)
    BY <1>1, <1>5, <2>1
  <2>2. CASE ~(i <= Len(b))
    <3>1. i - Len(b) \in 1..Len(segs)
      BY <1>1, <1>5, <2>2
    <3> QED
      BY <1>2, <1>5, <2>2, <3>1
  <2> QED
    BY <2>1, <2>2
<1>7. \A i \in 1..Len(t) : t[i] \notin Dots
  <2> SUFFICES ASSUME NEW i \in 1..Len(t) PROVE t[i] \notin Dots
    OBVIOUS
  <2>1. CASE i \in 1..Len(b) /\ t[i] = b[i]
    BY <2>1
  <2>2. CASE i - Len(b) \in 1..Len(segs) /\ t[i] = escape(segs[i - Len(b)])
    BY <2>2, EscapeIsOne
  <2> QED
    BY <1>6, <2>1, <2>2
<1>8. ResolveReference(c.path, parsed) = t
  <2>1. FoldLeft(Walk, <<>>, t) = t
    BY <1>5, <1>7, WalkPlain
  <2> QED
    BY <1>3, <2>1 DEF ResolveReference, t
<1>9. resolve(c, segs) = [i \in DOMAIN t |-> unescape(t[i])]
  BY <1>8 DEF resolve, parsed
<1> DEFINE r == b \o segs
<1>10. /\ r \in Seq(C) /\ Len(r) = Len(b) + Len(segs)
       /\ \A i \in 1..Len(r) : r[i] = IF i <= Len(b) THEN b[i] ELSE segs[i - Len(b)]
  BY <1>4, ConcatProperties
<1> HIDE DEF r
<1>11. DOMAIN t = 1..Len(r) /\ DOMAIN r = 1..Len(r) /\ Len(t) = Len(r)
  BY <1>5, <1>10
<1>12. ASSUME NEW i \in 1..Len(r) PROVE unescape(t[i]) = r[i]
  <2>1. CASE i \in 1..Len(b) /\ t[i] = b[i]
    <3>1. r[i] = b[i] /\ b[i] # "a%2Fb"
      BY <1>10, <2>1
    <3> QED
      BY <2>1, <3>1 DEF unescape
  <2>2. CASE i - Len(b) \in 1..Len(segs) /\ t[i] = escape(segs[i - Len(b)]) /\ ~(i <= Len(b))
    <3>1. r[i] = segs[i - Len(b)] /\ segs[i - Len(b)] # "a%2Fb"
      BY <1>10, <2>2
    <3> QED
      BY <2>2, <3>1, EscapeIsOne
  <2> QED
    BY <1>6, <1>11, <2>1, <2>2
<1>13. r = [i \in 1..Len(r) |-> r[i]]
  BY <1>10
<1> QED
  BY <1>9, <1>11, <1>12, <1>13 DEF r

\* What every path under a base URL begins with.
LEMMA BaseIsPlain ==
  ASSUME NEW base, NEW p, p = base.path, PlainPath(p), NEW b, b = Front(BasePath(base))
  PROVE  b \in Seq(Range(p)) /\ \A i \in 1..Len(b) : b[i] \notin {"a%2Fb"} \union Dots
<1>1. p \in Seq(Range(p)) /\ \A i \in 1..Len(p) : p[i] \notin {"a%2Fb"} \union Dots
  BY DEF PlainPath
<1>2. CASE base.form = "empty" \/ p = <<>>
  <2>1. BasePath(base) = <<"">>
    BY <1>2 DEF BasePath
  <2>2. <<>> \in Seq({""}) /\ "" \in {""} /\ Append(<<>>, "") = <<"">>
    OBVIOUS
  <2>3. b = <<>>
    BY <2>1, <2>2, FrontOfAppend
  <2> QED
    BY <2>3
<1>3. CASE ~(base.form = "empty" \/ p = <<>>) /\ Last(p) = ""
  <2>1. b = Front(p)
    BY <1>3 DEF BasePath
  <2>2. Len(p) >= 1
    <3>1. p # <<>>
      BY <1>3
    <3>2. Len(p) \in Nat \ {0}
      BY <1>1, <3>1, EmptySeq, Zenon
    <3> QED
      BY <3>2
  <2>3. Len(b) = Len(p) - 1 /\ \A i \in 1..(Len(p) - 1) : b[i] = p[i]
    BY <1>1, <2>1, <2>2 DEF Front
  <2>4. b \in Seq(Range(p))
    BY <1>1, <2>1, FrontType
  <2>5. \A i \in 1..Len(b) : i \in 1..Len(p) /\ b[i] = p[i]
    BY <1>1, <2>3
  <2> QED
    BY <1>1, <2>4, <2>5
<1>4. CASE ~(base.form = "empty" \/ p = <<>>) /\ Last(p) # ""
  <2>1. b = Front(Append(p, ""))
    BY <1>4 DEF BasePath
  <2>2. p \in Seq(Range(p) \union {""})
    <3>1. Range(p) \subseteq Range(p) \union {""}
      OBVIOUS
    <3> QED
      BY <1>1, <3>1, SeqWidens
  <2>3. b = p
    <3>1. "" \in Range(p) \union {""}
      OBVIOUS
    <3> QED
      BY <2>1, <2>2, <3>1, FrontOfAppend
  <2> QED
    BY <1>1, <2>3
<1> QED
  BY <1>2, <1>3, <1>4

-----------------------------------------------------------------------------
(* The operations: what each one asks, and under which path. *)

\* What was asked of a read: Meant, of any operation.
MeantBy(o, n) == IF n = "after" /\ o.cursor # NotGiven THEN o.cursor
                 ELSE IF n \in DOMAIN o.options THEN o.options[n] ELSE NotGiven
AsksWhatIsMeant(o, query) ==
  /\ DOMAIN query = {n \in DOMAIN o.options \union {"after"} : MeantBy(o, n) # NotGiven}
  /\ \A n \in DOMAIN query : query[n] = MeantBy(o, n)

\* The query of one page: all that was given, and the cursor before the caller's After.
LEMMA PageAsks ==
  ASSUME NEW o, NEW query, DOMAIN query = {n \in DOMAIN o.options : o.options[n] # NotGiven},
         \A n \in DOMAIN query : query[n] = o.options[n]
  PROVE  AsksWhatIsMeant(o, Page(query, o.cursor))
<1>1. CASE o.cursor = NotGiven
  <2>1. Page(query, o.cursor) = query
    BY <1>1 DEF Page
  <2> QED
    BY <1>1, <2>1 DEF AsksWhatIsMeant, MeantBy
<1>2. CASE o.cursor # NotGiven
  <2> DEFINE more == [after |-> o.cursor]
             page == Override(query, more)
  <2>1. DOMAIN more = {"after"} /\ more["after"] = o.cursor
    OBVIOUS
  <2>2. Page(query, o.cursor) = page
    BY <1>2 DEF Page
  <2> HIDE DEF more
  <2>3. /\ DOMAIN page = DOMAIN query \union {"after"}
        /\ \A n \in DOMAIN page : page[n] = IF n = "after" THEN o.cursor ELSE query[n]
    BY <2>1 DEF Override
  <2> HIDE DEF page
  <2>4. DOMAIN page = {n \in DOMAIN o.options \union {"after"} : MeantBy(o, n) # NotGiven}
    BY <1>2, <2>3 DEF MeantBy
  <2>5. \A n \in DOMAIN page : page[n] = MeantBy(o, n)
    BY <1>2, <2>3 DEF MeantBy
  <2> QED
    BY <2>2, <2>4, <2>5 DEF AsksWhatIsMeant
<1> QED
  BY <1>1, <1>2

\* Of options whose names are all an operation's own, nothing given is left out.
LEMMA GivenIsAll ==
  ASSUME NEW options, NEW names, DOMAIN options \subseteq names
  PROVE  /\ DOMAIN given(options, names) = {n \in DOMAIN options : options[n] # NotGiven}
         /\ \A n \in DOMAIN given(options, names) : given(options, names)[n] = options[n]
BY DEF given

LEMMA FiltersAreAll ==
  ASSUME NEW options,
         DOMAIN options \subseteq {"limit", "after", "before", "order"} \union Filters \union Flags
  PROVE  /\ DOMAIN ListSessionsOptions(options) = {n \in DOMAIN options : options[n] # NotGiven}
         /\ \A n \in DOMAIN ListSessionsOptions(options) :
              ListSessionsOptions(options)[n] = options[n]
<1> DEFINE page == setPageQuery(options)
           more == given(options, Filters \union Flags)
<1>1. /\ DOMAIN page = {n \in {"limit", "after", "before", "order"} \intersect DOMAIN options :
                          options[n] # NotGiven}
      /\ \A n \in DOMAIN page : page[n] = options[n]
  BY DEF setPageQuery, given
<1>2. /\ DOMAIN more = {n \in (Filters \union Flags) \intersect DOMAIN options :
                          options[n] # NotGiven}
      /\ \A n \in DOMAIN more : more[n] = options[n]
  BY DEF given
<1> HIDE DEF page, more
<1>3. /\ DOMAIN Override(page, more) = DOMAIN page \union DOMAIN more
      /\ \A n \in DOMAIN page \union DOMAIN more : Override(page, more)[n] = options[n]
  BY <1>1, <1>2 DEF Override
<1> QED
  BY <1>1, <1>2, <1>3 DEF ListSessionsOptions, page, more

LEMMA NoneIsAll ==
  /\ DOMAIN NoOptions = {} /\ {n \in DOMAIN NoOptions : NoOptions[n] # NotGiven} = {}
BY DEF NoOptions

\* The words of the API's own in a path.
PathWords ==
  {"v1", "sessions", "fork", "items", "child_sessions", "agents", "events", "elicitations",
   "resolve", "resources", "files", "content"}

\* The path of an operation is made of the API's words and of its arguments, a read has no
\* body, and the query asks for what was meant.
Asks(o) ==
  /\ o.path \in Seq(PathWords \union o.required)
  /\ o.method = "GET" => o.body = "none"
  /\ AsksWhatIsMeant(o, o.query)

LEMMA ReadAsks ==
  ASSUME NEW required, NEW method, NEW path, NEW reads, NEW options, NEW cursor, NEW query,
         NEW o,
         o = Asking(Operation(required, method, path, "none", reads), options, cursor, query),
         path \in Seq(PathWords \union required),
         DOMAIN query = {n \in DOMAIN options : options[n] # NotGiven},
         \A n \in DOMAIN query : query[n] = options[n]
  PROVE  Asks(o)
<1>1. /\ o.required = required /\ o.path = path /\ o.body = "none"
      /\ o.options = options /\ o.cursor = cursor /\ o.query = Page(query, cursor)
  BY DEF Asking, Operation
<1>2. AsksWhatIsMeant(o, o.query)
  BY <1>1, PageAsks
<1> QED
  BY <1>1, <1>2 DEF Asks

LEMMA WriteAsks ==
  ASSUME NEW required, NEW method, NEW path, NEW sends, NEW reads,
         NEW o, o.required = required, o.path = path, o.method = method, o.body = sends,
         o.options = NoOptions, o.cursor = NotGiven, o.query = NoOptions,
         path \in Seq(PathWords \union required), method = "GET" => sends = "none"
  PROVE  Asks(o)
<1>1. AsksWhatIsMeant(o, o.query)
  BY NoneIsAll DEF AsksWhatIsMeant, MeantBy
<1> QED
  BY <1>1 DEF Asks

\* The paths.
LEMMA SessionPath ==
  ASSUME NEW F, PathWords \subseteq F
  PROVE  /\ sessions \in Seq(F)
         /\ \A s \in Seq(F) : sessions \o s \in Seq(F)
         /\ \A x \in F : files(x) \in Seq(F) /\ \A s \in Seq(F) : files(x) \o s \in Seq(F)
<1>1. {"v1", "sessions", "resources", "files"} \subseteq F
  BY DEF PathWords
<1>2. sessions \in Seq(F)
  BY <1>1 DEF sessions
<1>3. \A s \in Seq(F) : sessions \o s \in Seq(F)
  BY <1>2, ConcatProperties
<1>4. ASSUME NEW x \in F PROVE files(x) \in Seq(F)
  <2>1. <<x, "resources", "files">> \in Seq(F)
    BY <1>1
  <2> QED
    BY <1>3, <2>1 DEF files
<1>5. ASSUME NEW x \in F, NEW s \in Seq(F) PROVE files(x) \o s \in Seq(F)
  BY <1>4, ConcatProperties
<1> QED
  BY <1>2, <1>3, <1>4, <1>5

\* The options of a read, each with its names.
LEMMA OptionsAreAll ==
  ASSUME NEW o
  PROVE  /\ OptionsAmong(o, {"include_items", "include_liveness", "refresh_state"}) =>
              LET q == GetSessionOptions(o.options) IN
              /\ DOMAIN q = {n \in DOMAIN o.options : o.options[n] # NotGiven}
              /\ \A n \in DOMAIN q : q[n] = o.options[n]
         /\ OptionsAmong(o, {"delete_branch"}) =>
              LET q == DeleteSessionOptions(o.options) IN
              /\ DOMAIN q = {n \in DOMAIN o.options : o.options[n] # NotGiven}
              /\ \A n \in DOMAIN q : q[n] = o.options[n]
         /\ OptionsAmong(o, {"limit", "after", "before", "order"}) =>
              LET q == setPageQuery(o.options) IN
              /\ DOMAIN q = {n \in DOMAIN o.options : o.options[n] # NotGiven}
              /\ \A n \in DOMAIN q : q[n] = o.options[n]
         /\ OptionsAmong(o, {"limit", "order"}) =>
              LET q == ListFilesOptions(o.options) IN
              /\ DOMAIN q = {n \in DOMAIN o.options : o.options[n] # NotGiven}
              /\ \A n \in DOMAIN q : q[n] = o.options[n]
BY GivenIsAll DEF OptionsAmong, GetSessionOptions, DeleteSessionOptions, setPageQuery,
                  ListFilesOptions

LEMMA SessionReadAsks ==
  ASSUME NEW o, NEW s,
         \/ o = Get(s, o.options)
              /\ OptionsAmong(o, {"include_items", "include_liveness", "refresh_state"})
         \/ o = Delete(s, o.options) /\ OptionsAmong(o, {"delete_branch"})
         \/ o = ListItems(s, o.options, o.cursor)
              /\ OptionsAmong(o, {"limit", "after", "before", "order"})
         \/ o = ListFiles(s, o.options, o.cursor) /\ OptionsAmong(o, {"limit", "order"})
         \/ o = Children(s, o.cursor)
  PROVE  Asks(o)
<1> DEFINE F == PathWords \union {s}
<1>1. PathWords \subseteq F /\ s \in F /\ <<s>> \in Seq(F) /\ <<s, "items">> \in Seq(F)
      /\ <<s, "child_sessions">> \in Seq(F)
  BY DEF PathWords
<1>2. /\ sessions \o <<s>> \in Seq(F) /\ sessions \o <<s, "items">> \in Seq(F)
      /\ sessions \o <<s, "child_sessions">> \in Seq(F) /\ files(s) \in Seq(F)
  <2> HIDE DEF F
  <2> QED
    BY <1>1, SessionPath
<1>3. CASE /\ o = Get(s, o.options)
           /\ OptionsAmong(o, {"include_items", "include_liveness", "refresh_state"})
  <2> DEFINE path == sessions \o <<s>>
             q == GetSessionOptions(o.options)
  <2>1. /\ DOMAIN q = {n \in DOMAIN o.options : o.options[n] # NotGiven}
        /\ \A n \in DOMAIN q : q[n] = o.options[n]
    BY <1>3, OptionsAreAll
  <2>2. o = Asking(Operation({s}, "GET", path, "none", "value"),
                   o.options, NotGiven, q)
    BY <1>3 DEF Get
  <2>3. path \in Seq(F)
    BY <1>2
  <2> HIDE DEF q, path
  <2> QED
    BY <2>1, <2>2, <2>3, ReadAsks
<1>4. CASE o = Delete(s, o.options) /\ OptionsAmong(o, {"delete_branch"})
  <2> DEFINE path == sessions \o <<s>>
             q == DeleteSessionOptions(o.options)
  <2>1. /\ DOMAIN q = {n \in DOMAIN o.options : o.options[n] # NotGiven}
        /\ \A n \in DOMAIN q : q[n] = o.options[n]
    BY <1>4, OptionsAreAll
  <2>2. o = Asking(Operation({s}, "DELETE", path, "none", "value"),
                   o.options, NotGiven, q)
    BY <1>4 DEF Delete
  <2>3. path \in Seq(F)
    BY <1>2
  <2> HIDE DEF q, path
  <2> QED
    BY <2>1, <2>2, <2>3, ReadAsks
<1>5. CASE /\ o = ListItems(s, o.options, o.cursor)
           /\ OptionsAmong(o, {"limit", "after", "before", "order"})
  <2> DEFINE path == sessions \o <<s, "items">>
             q == setPageQuery(o.options)
  <2>1. /\ DOMAIN q = {n \in DOMAIN o.options : o.options[n] # NotGiven}
        /\ \A n \in DOMAIN q : q[n] = o.options[n]
    BY <1>5, OptionsAreAll
  <2>2. o = Asking(Operation({s}, "GET", path, "none", "value"),
                   o.options, o.cursor, q)
    BY <1>5 DEF ListItems, SessionItemsOptions
  <2>3. path \in Seq(F)
    BY <1>2
  <2> HIDE DEF q, path
  <2> QED
    BY <2>1, <2>2, <2>3, ReadAsks
<1>6. CASE o = ListFiles(s, o.options, o.cursor) /\ OptionsAmong(o, {"limit", "order"})
  <2> DEFINE path == files(s)
             q == ListFilesOptions(o.options)
  <2>1. /\ DOMAIN q = {n \in DOMAIN o.options : o.options[n] # NotGiven}
        /\ \A n \in DOMAIN q : q[n] = o.options[n]
    BY <1>6, OptionsAreAll
  <2>2. o = Asking(Operation({s}, "GET", path, "none", "value"), o.options, o.cursor, q)
    BY <1>6 DEF ListFiles
  <2>3. path \in Seq(F)
    BY <1>2
  <2> HIDE DEF q, path
  <2> QED
    BY <2>1, <2>2, <2>3, ReadAsks
<1>7. CASE o = Children(s, o.cursor)
  <2> DEFINE path == sessions \o <<s, "child_sessions">>
  <2>1. o = Asking(Operation({s}, "GET", path, "none", "value"),
                   NoOptions, o.cursor, NoOptions)
    BY <1>7 DEF Children
  <2>2. DOMAIN NoOptions = {n \in DOMAIN NoOptions : NoOptions[n] # NotGiven}
    BY NoneIsAll
  <2>3. path \in Seq(F)
    BY <1>2
  <2> HIDE DEF path
  <2> QED
    BY <2>1, <2>2, <2>3, ReadAsks
<1> QED
  BY <1>3, <1>4, <1>5, <1>6, <1>7

LEMMA CatalogAsks ==
  ASSUME NEW o,
         \/ o = List(o.options, o.cursor)
              /\ OptionsAmong(o, {"limit", "after", "before", "order"} \union Filters \union Flags)
         \/ o = ListAgents(o.options, o.cursor)
              /\ OptionsAmong(o, {"limit", "after", "before", "order"})
  PROVE  Asks(o)
<1> DEFINE F == PathWords \union {}
<1>1. sessions \in Seq(F) /\ <<"v1", "agents">> \in Seq(F)
  BY DEF sessions, PathWords
<1>2. CASE /\ o = List(o.options, o.cursor)
           /\ OptionsAmong(o, {"limit", "after", "before", "order"} \union Filters \union Flags)
  <2> DEFINE path == sessions
             q == ListSessionsOptions(o.options)
  <2>1. /\ DOMAIN q = {n \in DOMAIN o.options : o.options[n] # NotGiven}
        /\ \A n \in DOMAIN q : q[n] = o.options[n]
    BY <1>2, FiltersAreAll DEF OptionsAmong
  <2>2. o = Asking(Operation({}, "GET", path, "none", "value"), o.options, o.cursor, q)
    BY <1>2 DEF List
  <2>3. path \in Seq(F)
    BY <1>1
  <2> HIDE DEF q, path
  <2> QED
    BY <2>1, <2>2, <2>3, ReadAsks
<1>3. CASE /\ o = ListAgents(o.options, o.cursor)
           /\ OptionsAmong(o, {"limit", "after", "before", "order"})
  <2> DEFINE path == <<"v1", "agents">>
             q == setPageQuery(o.options)
  <2>1. /\ DOMAIN q = {n \in DOMAIN o.options : o.options[n] # NotGiven}
        /\ \A n \in DOMAIN q : q[n] = o.options[n]
    BY <1>3, OptionsAreAll
  <2>2. o = Asking(Operation({}, "GET", path, "none", "value"),
                   o.options, o.cursor, q)
    BY <1>3 DEF ListAgents, ListAgentsOptions
  <2>3. path \in Seq(F)
    BY <1>1
  <2> HIDE DEF q, path
  <2> QED
    BY <2>1, <2>2, <2>3, ReadAsks
<1> QED
  BY <1>2, <1>3

LEMMA PlainAsks ==
  ASSUME NEW required, NEW method, NEW path, NEW sends, NEW reads,
         path \in Seq(PathWords \union required), method = "GET" => sends = "none",
         NEW o, o = Operation(required, method, path, sends, reads)
  PROVE  Asks(o)
<1>1. /\ o.required = required /\ o.path = path /\ o.method = method /\ o.body = sends
      /\ o.options = NoOptions /\ o.cursor = NotGiven /\ o.query = NoOptions
  BY DEF Operation
<1> QED
  BY <1>1, WriteAsks

\* An argument more, another reading of the answer and a bound leave the request alone.
LEMMA SameRequestAsks ==
  ASSUME NEW p, Asks(p), NEW o, p.required \subseteq o.required,
         o.path = p.path, o.method = p.method, o.body = p.body,
         o.options = p.options, o.cursor = p.cursor, o.query = p.query
  PROVE  Asks(o)
<1>1. PathWords \union p.required \subseteq PathWords \union o.required
  OBVIOUS
<1>2. o.path \in Seq(PathWords \union o.required)
  BY <1>1, SeqWidens DEF Asks
<1>3. AsksWhatIsMeant(o, o.query)
  BY DEF Asks, AsksWhatIsMeant, MeantBy
<1> QED
  BY <1>2, <1>3 DEF Asks

LEMMA UpdateAsks ==
  ASSUME NEW s, NEW b
  PROVE  Asks(Update(s, b)) /\ \A arg : Asks(Also(arg, Update(s, b)))
<1> DEFINE F == PathWords \union {s}
           path == sessions \o <<s>>
           p == Update(s, b)
<1>1. PathWords \subseteq F /\ <<s>> \in Seq(F)
  BY DEF PathWords
<1>2. path \in Seq(F)
  <2> HIDE DEF F
  <2> QED
    BY <1>1, SessionPath
<1>3. p = Operation({s}, "PATCH", path, b, "value")
  BY DEF Update
<1> HIDE DEF path
<1>4. Asks(p)
  <2> HIDE DEF p
  <2> QED
    BY <1>2, <1>3, PlainAsks
<1>5. ASSUME NEW arg PROVE Asks(Also(arg, p))
  <2> DEFINE o == Also(arg, p)
  <2>1. /\ o.required = p.required \union {arg}
        /\ o.path = p.path /\ o.method = p.method /\ o.body = p.body
        /\ o.options = p.options /\ o.cursor = p.cursor /\ o.query = p.query
    BY <1>3 DEF Also, Operation
  <2> HIDE DEF o, p
  <2>2. p.required \subseteq o.required
    BY <2>1
  <2>3. Asks(o)
    BY <1>4, <2>1, <2>2, SameRequestAsks
  <2> QED
    BY <2>3 DEF o
<1> QED
  BY <1>4, <1>5 DEF p

LEMMA PostAsks ==
  ASSUME NEW s, NEW type, NEW b
  PROVE  Asks(PostEvent(s, type, b)) /\ Asks(postControl(s, type))
         /\ postControl(s, type).reads = "verdict"
<1> DEFINE F == PathWords \union {s, type}
           path == sessions \o <<s, "events">>
<1>1. PathWords \subseteq F /\ <<s, "events">> \in Seq(F)
  BY DEF PathWords
<1>2. path \in Seq(F)
  <2> HIDE DEF F
  <2> QED
    BY <1>1, SessionPath
<1>3. \A c : PostEvent(s, type, c) = Operation({s, type}, "POST", path, c, "value")
  BY DEF PostEvent
<1> HIDE DEF path
<1>4. ASSUME NEW c PROVE Asks(PostEvent(s, type, c))
  <2> DEFINE p == PostEvent(s, type, c)
  <2>1. p = Operation({s, type}, "POST", path, c, "value")
    BY <1>3
  <2> HIDE DEF p
  <2>2. Asks(p)
    BY <1>2, <2>1, PlainAsks
  <2> QED
    BY <2>2 DEF p
<1>5. Asks(postControl(s, type)) /\ postControl(s, type).reads = "verdict"
  <2> DEFINE p == PostEvent(s, type, "json")
             o == postControl(s, type)
  <2>1. p = Operation({s, type}, "POST", path, "json", "value")
    BY <1>3
  <2>2. o = [p EXCEPT !.reads = "verdict"]
    BY DEF postControl
  <2>4. Asks(p)
    BY <1>4
  <2> HIDE DEF p, o
  <2>3. /\ o.required = p.required /\ o.reads = "verdict"
        /\ o.path = p.path /\ o.method = p.method /\ o.body = p.body
        /\ o.options = p.options /\ o.cursor = p.cursor /\ o.query = p.query
    BY <2>1, <2>2 DEF Operation
  <2>5. Asks(o)
    BY <2>3, <2>4, SameRequestAsks
  <2> QED
    BY <2>3, <2>5 DEF o
<1> QED
  BY <1>4, <1>5

LEMMA FileAsks ==
  ASSUME NEW s, NEW name, NEW size
  PROVE  Asks(GetFile(s, name)) /\ Asks(DeleteFile(s, name)) /\ Asks(Download(s, name, size))
<1> DEFINE F == PathWords \union {s, name}
           path == files(s) \o <<name>>
           bytes == files(s) \o <<name, "content">>
<1>1. PathWords \subseteq F /\ s \in F /\ <<name>> \in Seq(F) /\ <<name, "content">> \in Seq(F)
  BY DEF PathWords
<1>2. path \in Seq(F) /\ bytes \in Seq(F)
  <2> HIDE DEF F
  <2> QED
    BY <1>1, SessionPath
<1>3. Asks(GetFile(s, name))
  <2> DEFINE p == GetFile(s, name)
  <2>1. p = Operation({s, name}, "GET", path, "none", "value")
    BY DEF GetFile
  <2> HIDE DEF p, path
  <2>2. Asks(p)
    BY <1>2, <2>1, PlainAsks
  <2> QED
    BY <2>2 DEF p
<1>4. Asks(DeleteFile(s, name))
  <2> DEFINE p == DeleteFile(s, name)
  <2>1. p = Operation({s, name}, "DELETE", path, "none", "nothing")
    BY DEF DeleteFile
  <2> HIDE DEF p, path
  <2>2. Asks(p)
    BY <1>2, <2>1, PlainAsks
  <2> QED
    BY <2>2 DEF p
<1>5. Asks(Download(s, name, size))
  <2> DEFINE r == {s, name, IF size <= 0 THEN "" ELSE name}
             p == Operation(r, "GET", bytes, "none", "stream")
             o == Download(s, name, size)
  <2>1. o = [p EXCEPT !.size = size]
    BY DEF Download
  <2>2. bytes \in Seq(PathWords \union r)
    <3>1. F \subseteq PathWords \union r
      OBVIOUS
    <3> HIDE DEF r, F, bytes
    <3> QED
      BY <1>2, <3>1, SeqWidens
  <2> HIDE DEF r, bytes
  <2>3. Asks(p)
    BY <2>2, PlainAsks
  <2>4. /\ o.required = p.required
        /\ o.path = p.path /\ o.method = p.method /\ o.body = p.body
        /\ o.options = p.options /\ o.cursor = p.cursor /\ o.query = p.query
    BY <2>1 DEF Operation
  <2> HIDE DEF o, p
  <2>5. Asks(o)
    BY <2>3, <2>4, SameRequestAsks
  <2> QED
    BY <2>5 DEF o
<1> QED
  BY <1>3, <1>4, <1>5

LEMMA SendAsks ==
  ASSUME NEW s, NEW arg, NEW third, NEW b
  PROVE  /\ Asks(Create(arg, b)) /\ Asks(Fork(s, b))
         /\ Asks(ResolveElicitation(s, arg, third, b)) /\ Asks(Upload(s, arg, third))
<1>1. Asks(Create(arg, b))
  <2> DEFINE F == PathWords \union {arg}
             p == Create(arg, b)
  <2>1. sessions \in Seq(F)
    BY SessionPath
  <2>2. p = Operation({arg}, "POST", sessions, b, "value")
    BY DEF Create
  <2> HIDE DEF p
  <2>3. Asks(p)
    BY <2>1, <2>2, PlainAsks
  <2> QED
    BY <2>3 DEF p
<1>2. Asks(Fork(s, b))
  <2> DEFINE F == PathWords \union {s}
             path == sessions \o <<s, "fork">>
             p == Fork(s, b)
  <2>1. PathWords \subseteq F /\ <<s, "fork">> \in Seq(F)
    BY DEF PathWords
  <2>2. path \in Seq(F)
    <3> HIDE DEF F
    <3> QED
      BY <2>1, SessionPath
  <2>3. p = Operation({s}, "POST", path, b, "value")
    BY DEF Fork
  <2> HIDE DEF p, path
  <2>4. Asks(p)
    BY <2>2, <2>3, PlainAsks
  <2> QED
    BY <2>4 DEF p
<1>3. Asks(ResolveElicitation(s, arg, third, b))
  <2> DEFINE F == PathWords \union {s, arg, third}
             path == sessions \o <<s, "elicitations", arg, "resolve">>
             p == ResolveElicitation(s, arg, third, b)
  <2>1. PathWords \subseteq F /\ <<s, "elicitations", arg, "resolve">> \in Seq(F)
    BY DEF PathWords
  <2>2. path \in Seq(F)
    <3> HIDE DEF F
    <3> QED
      BY <2>1, SessionPath
  <2>3. p = Operation({s, arg, third}, "POST", path, b, "nothing")
    BY DEF ResolveElicitation
  <2> HIDE DEF p, path
  <2>4. Asks(p)
    BY <2>2, <2>3, PlainAsks
  <2> QED
    BY <2>4 DEF p
<1>4. Asks(Upload(s, arg, third))
  <2> DEFINE r == {s, arg, headerUnsafeRune(arg), third}
             F == PathWords \union r
             path == files(s)
             p == Upload(s, arg, third)
  <2>1. PathWords \subseteq F /\ s \in F
    OBVIOUS
  <2>2. path \in Seq(F)
    <3> HIDE DEF F
    <3> QED
      BY <2>1, SessionPath
  <2>3. p = Operation(r, "POST", path, "pipe", "value")
    BY DEF Upload
  <2> HIDE DEF p, path, r
  <2>4. Asks(p)
    BY <2>2, <2>3, PlainAsks
  <2> QED
    BY <2>4 DEF p
<1> QED
  BY <1>1, <1>2, <1>3, <1>4

\* Every operation of the client.
LEMMA OperationAsks ==
  ASSUME NEW o, IsOperation(o)
  PROVE  Asks(o)
<1>1. ASSUME NEW s, OfSession(o, s)
      PROVE  Asks(o)
  <2>1. CASE o \in {Fork(s, o.body), Update(s, o.body), ClearModelOverride(s),
                    ClearReasoningEffort(s), SetArchived(s), SetExternalID(s), SendMessage(s),
                    Interrupt(s), Compact(s)}
    BY <2>1, SendAsks, UpdateAsks, PostAsks
       DEF ClearModelOverride, ClearReasoningEffort, SetArchived, SetExternalID, SendMessage,
           Interrupt, Compact
  <2> QED
    BY <1>1, <2>1, SessionReadAsks DEF OfSession
<1>2. ASSUME NEW s, NEW arg,
             o \in {BindRunner(s, arg), SetModelOverride(s, arg),
                    SetReasoningEffort(s, arg), PostEvent(s, arg, o.body),
                    GetFile(s, arg), DeleteFile(s, arg), Download(s, arg, o.size)}
      PROVE  Asks(o)
  BY <1>2, UpdateAsks, PostAsks, FileAsks
     DEF BindRunner, SetModelOverride, SetReasoningEffort
<1>3. ASSUME NEW s, NEW arg, NEW third,
             o \in {ResolveElicitation(s, arg, third, o.body), Upload(s, arg, third)}
      PROVE  Asks(o)
  BY <1>3, SendAsks
<1>4. ASSUME NEW arg, o = Create(arg, o.body)
      PROVE  Asks(o)
  BY <1>4, SendAsks
<1> QED
  BY <1>1, <1>2, <1>3, <1>4, CatalogAsks DEF IsOperation

\* A request's path is the base's and then the operation's, of elements that are all named.
LEMMA PathIsNamed ==
  ASSUME NEW o, IsOperation(o), "a%2Fb" \notin o.required, Unsent(o) = "none"
  PROVE  \A i \in DOMAIN o.path : Named(o.path[i]) /\ o.path[i] # "a%2Fb"
<1>1. o.path \in Seq(PathWords \union o.required)
  BY OperationAsks DEF Asks
<1>2. "" \notin o.required /\ ~unresolvable(o.path)
  BY DEF Unsent
<1> SUFFICES ASSUME NEW i \in DOMAIN o.path
             PROVE  Named(o.path[i]) /\ o.path[i] # "a%2Fb"
  OBVIOUS
<1>3. o.path[i] \in PathWords \union o.required
  BY <1>1
<1>4. o.path[i] \notin Dots
  BY <1>2 DEF unresolvable
<1>5. o.path[i] # "" /\ o.path[i] # "a%2Fb"
  BY <1>2, <1>3 DEF PathWords
<1> QED
  BY <1>4, <1>5 DEF Named

\* Every operation's request goes below the base URL's path.
LEMMA RequestPath ==
  ASSUME NEW base, PlainPath(base.path), NEW c, c.path = BasePath(base),
         NEW o, IsOperation(o), "a%2Fb" \notin o.required, Unsent(o) = "none"
  PROVE  resolve(c, o.path) = Front(c.path) \o o.path
<1> DEFINE p == base.path
           segs == o.path
           D == Range(p) \union PathWords \union o.required
<1>1. PICK b : b = Front(BasePath(base))
  OBVIOUS
<1>2. b \in Seq(Range(p)) /\ \A i \in 1..Len(b) : b[i] \notin {"a%2Fb"} \union Dots
  BY <1>1, BaseIsPlain
<1>3. segs \in Seq(PathWords \union o.required)
  BY OperationAsks DEF Asks
<1>4. \A i \in 1..Len(segs) : segs[i] \notin {"a%2Fb"} \union Dots
  <2>1. DOMAIN segs = 1..Len(segs)
    BY <1>3
  <2> QED
    BY <2>1, PathIsNamed DEF Named
<1>5. Range(p) \subseteq D /\ PathWords \union o.required \subseteq D
  OBVIOUS
<1> HIDE DEF D, p, segs
<1>6. b \in Seq(D) /\ segs \in Seq(D)
  BY <1>2, <1>3, <1>5, SeqWidens
<1>7. b = Front(c.path)
  BY <1>1
<1>8. resolve(c, segs) = b \o segs
  BY <1>2, <1>4, <1>6, <1>7, ResolveIs
<1> QED
  BY <1>7, <1>8 DEF segs

-----------------------------------------------------------------------------
(* The inductive invariant: what was sent is what the operation asks, a policy  *)
(* of the client's own keeps every request of a call to its method and body,    *)
(* and what the caller is told fits what was sent.                              *)

OutcomeFits(out, o, v) ==
  /\ out.kind = "ok" => v # <<>> /\ (o.reads = "verdict" => out.answer # "denied")
  /\ "ErrInvalidArgument" \in out.is => v = <<>>
  /\ out.is \intersect {"ErrTruncated", "ErrResponseTooLarge", "ErrInputDenied"} # {} => v # <<>>

CallInv ==
  /\ client.ok => client.path = BasePath(made.base) /\ made \in MadeFrom
  /\ via # <<>> =>
       /\ op \in Operations /\ Unsent(op) = "none"
       /\ target.path = resolve(client, op.path) /\ target.query = op.query
       /\ via[1].method = op.method /\ via[1].body = op.body
  /\ client.ok /\ client.policy = "checkRedirect" =>
       \A i \in 1..Len(via) : via[i].method = op.method /\ via[i].body = op.body
  /\ pc \in {"waiting", "reading", "copying"} => via # <<>>
  /\ pc = "copying" => op.reads = "stream"
  /\ pc # "done" => outcome = NoOutcome
  /\ OutcomeFits(outcome, op, via)

\* What the ends of a call are called.
LEMMA SentinelsFit ==
  /\ SentinelOf("unencodable") = {} /\ SentinelOf("invalid") = {"ErrInvalidArgument"}
  /\ \A kind : kind # "invalid" => "ErrInvalidArgument" \notin SentinelOf(kind)
  /\ \A status : "ErrInvalidArgument" \notin Is(status)
<1>1. DOMAIN ClientSentinels =
        {"invalid", "unsafe", "notFollowed", "tooLarge", "truncated", "denied"}
  BY DEF ClientSentinels
<1>2. /\ ClientSentinels["invalid"] = "ErrInvalidArgument"
      /\ \A k \in DOMAIN ClientSentinels :
           k # "invalid" => ClientSentinels[k] # "ErrInvalidArgument"
  BY DEF ClientSentinels
<1>3. DOMAIN ServerSentinels = {"ErrInvalidInput", "ErrUnauthorized", "ErrForbidden", "ErrNotFound",
                                "ErrConflict", "ErrHarnessNotConfigured", "ErrValidation",
                                "ErrUnavailable"}
  BY DEF ServerSentinels
<1>4. \A status : "ErrInvalidArgument" \notin Is(status)
  BY <1>3 DEF Is
<1>5. SentinelOf("unencodable") = {} /\ SentinelOf("invalid") = {"ErrInvalidArgument"}
  BY <1>1, <1>2 DEF SentinelOf
<1>6. \A kind : kind # "invalid" => "ErrInvalidArgument" \notin SentinelOf(kind)
  BY <1>1, <1>2 DEF SentinelOf
<1> QED
  BY <1>4, <1>5, <1>6

LEMMA NothingFits ==
  ASSUME NEW o, NEW v
  PROVE  OutcomeFits(NoOutcome, o, v)
BY DEF OutcomeFits, NoOutcome

LEMMA CallInvInit == TransferInit => CallInv
<1> SUFFICES ASSUME TransferInit
             PROVE  CallInv
  OBVIOUS
<1>1. client.ok = FALSE /\ via = <<>> /\ pc = "new" /\ outcome = NoOutcome
  BY DEF TransferInit, CallInit, Refusal
<1>2. OutcomeFits(outcome, op, via)
  BY <1>1, NothingFits
<1> QED
  BY <1>1, <1>2 DEF CallInv

LEMMA MakeKeepsCall ==
  ASSUME SentInv, CallInv, NEW m \in MadeFrom, MakeClient(m)
  PROVE  CallInv'
<1>1. client'.ok => client'.path = BasePath(m.base)
  BY DEF MakeClient, New, Refusal
<1>2. pc' \in {"ready", "refused"} /\ made' = m /\ UNCHANGED <<op, target, via, outcome>>
      /\ via = <<>> /\ outcome = NoOutcome
  BY DEF MakeClient, SentInv, CallInv, call
<1>3. OutcomeFits(outcome', op', via') /\ 1..Len(via') = {}
  BY <1>2 DEF CallInv
<1> QED
  BY <1>1, <1>2, <1>3 DEF CallInv

LEMMA SendKeepsCall ==
  ASSUME SentInv, CallInv, NEW o \in Operations, Call(o)
  PROVE  CallInv'
<1>1. pc = "ready" /\ op' = o /\ UNCHANGED <<made, client>> /\ via = <<>> /\ outcome = NoOutcome
      /\ client.ok
  BY DEF Call, Send, SentInv, CallInv
<1>2. CASE Unsent(o) # "none" /\ Ends(Unsent(o)) /\ UNCHANGED <<target, via>>
  <2>1. Unsent(o) \in {"invalid", "unencodable"}
    BY <1>2, Zenon DEF Unsent
  <2>2. pc' = "done" /\ outcome'.kind = Unsent(o) /\ outcome'.is = SentinelOf(Unsent(o))
    BY <1>2 DEF Ends
  <2>3. OutcomeFits(outcome', op', via')
    BY <1>1, <1>2, <2>1, <2>2, SentinelsFit DEF OutcomeFits
  <2>4. 1..Len(via') = {} /\ via' = <<>>
    BY <1>1, <1>2
  <2> QED
    BY <1>1, <2>2, <2>3, <2>4 DEF CallInv
<1>3. CASE /\ Unsent(o) = "none" /\ pc' = "waiting" /\ UNCHANGED outcome
           /\ via' = <<[method |-> o.method, url |-> client.url, body |-> o.body]>>
           /\ target' = [path |-> resolve(client, o.path), query |-> o.query]
  <2>1. /\ via' # <<>> /\ Len(via') = 1
        /\ via'[1].method = o.method /\ via'[1].body = o.body
    BY <1>3
  <2>2. target'.path = resolve(client', op'.path) /\ target'.query = op'.query
    BY <1>1, <1>3 DEF resolve
  <2>3. \A i \in 1..Len(via') : i = 1
    BY <2>1
  <2>4. OutcomeFits(outcome', op', via')
    BY <1>1, <1>3, NothingFits
  <2>5. client'.ok => client'.path = BasePath(made'.base) /\ made' \in MadeFrom
    BY <1>1 DEF CallInv, BasePath
  <2>6. via' # <<>> =>
          /\ op' \in Operations /\ Unsent(op') = "none"
          /\ via'[1].method = op'.method /\ via'[1].body = op'.body
    BY <1>1, <1>3, <2>1
  <2> QED
    BY <1>1, <1>3, <2>1, <2>2, <2>3, <2>4, <2>5, <2>6 DEF CallInv
<1> QED
  BY <1>2, <1>3 DEF Call, Send

\* What stays of the invariant in a step that sends nothing.
LEMMA AnswerKeepsCall ==
  ASSUME CallInv, UNCHANGED <<made, client, op, target, via>>, via # <<>>,
         \/ pc' = pc /\ UNCHANGED outcome
         \/ pc' = "reading" /\ pc # "done" /\ UNCHANGED outcome
         \/ pc' = "copying" /\ pc # "done" /\ UNCHANGED outcome /\ op.reads = "stream"
         \/ pc' = "done" /\ OutcomeFits(outcome', op, via)
  PROVE  CallInv'
<1>1. OutcomeFits(outcome', op', via')
  BY DEF CallInv
<1>2. target'.path = resolve(client', op'.path) <=> target.path = resolve(client, op.path)
  BY DEF resolve
<1>3. /\ client'.ok => client'.path = BasePath(made'.base) /\ made' \in MadeFrom
      /\ op' \in Operations /\ Unsent(op') = "none"
      /\ target'.path = resolve(client', op'.path) /\ target'.query = op'.query
      /\ via'[1].method = op'.method /\ via'[1].body = op'.body
  BY <1>2 DEF CallInv
<1>4. client'.ok /\ client'.policy = "checkRedirect" =>
        \A i \in 1..Len(via') : via'[i].method = op'.method /\ via'[i].body = op'.body
  BY DEF CallInv
<1> QED
  BY <1>1, <1>3, <1>4 DEF CallInv

LEMMA RestKeepsCall ==
  ASSUME CallInv, UNCHANGED callvars
  PROVE  CallInv'
<1>1. UNCHANGED <<pc, made, client, op, target, via, outcome>>
  BY DEF callvars, call
<1>2. target'.path = resolve(client', op'.path) <=> target.path = resolve(client, op.path)
  BY <1>1 DEF resolve
<1>3. OutcomeFits(outcome', op', via') <=> OutcomeFits(outcome, op, via)
  BY <1>1
<1> QED
  BY <1>1, <1>2, <1>3 DEF CallInv

\* An end that is not a success, of a call that was sent.
LEMMA EndFits ==
  ASSUME NEW kind, kind \notin {"ok", "invalid"}, via # <<>>, Ends(kind)
  PROVE  pc' = "done" /\ OutcomeFits(outcome', op, via)
<1>1. pc' = "done" /\ outcome'.kind = kind /\ outcome'.is = SentinelOf(kind)
  BY DEF Ends
<1> QED
  BY <1>1, SentinelsFit DEF OutcomeFits

LEMMA FailureFits ==
  ASSUME NEW s, NEW b, via # <<>>
  PROVE  OutcomeFits(Failed(s, b), op, via)
<1>1. Failed(s, b).kind = "api" /\ Failed(s, b).is = Is(s)
  BY DEF Failed
<1> QED
  BY <1>1, SentinelsFit DEF OutcomeFits

\* A redirect the client's own policy lets through is the same request.
LEMMA FollowKeepsCall ==
  ASSUME SentInv, CallInv, pc = "waiting", NEW s \in {301, 307}, NEW url,
         UNCHANGED <<made, client, op, target>>, Follow(Redirected(s, url)),
         client.policy = "checkRedirect" => checkRedirect(Redirected(s, url).method, url, via)
  PROVE  CallInv'
<1> DEFINE next == Redirected(s, url)
<1>1. /\ via \in Seq(Sent) /\ via # <<>> /\ Len(via) \in Nat \ {0} /\ UNCHANGED <<pc, outcome>>
      /\ Last(via) = via[Len(via)]
  BY DEF SentInv, Follow, Last
<1>2. op \in Operations /\ IsOperation(op)
  BY <1>1, CallAssumption DEF CallInv
<1>3. op.method = "GET" => op.body = "none"
  BY <1>2, OperationAsks DEF Asks
<1>4. /\ next.method = IF s = 301 THEN "GET" ELSE Last(via).method
      /\ next.body = IF s = 301 THEN "none" ELSE Last(via).body
  BY DEF Redirected
<1>5. client.ok /\ client.policy = "checkRedirect" =>
        next.method = op.method /\ next.body = op.body
  <2> SUFFICES ASSUME client.ok, client.policy = "checkRedirect"
               PROVE  next.method = op.method /\ next.body = op.body
    OBVIOUS
  <2>1. next.method = via[1].method
    BY DEF checkRedirect
  <2>2. next.method = op.method
    BY <1>1, <2>1 DEF CallInv
  <2>3. Last(via).body = op.body
    BY <1>1 DEF CallInv
  <2> QED
    BY <1>3, <1>4, <2>2, <2>3
<1> HIDE DEF next
<1>6. via' = Append(via, next)
  BY DEF Follow, next
<1>7. /\ via' # <<>> /\ via'[1] = via[1]
      /\ \A i \in 1..Len(via') : (i \in 1..Len(via) /\ via'[i] = via[i]) \/ via'[i] = next
  <2>1. Len(via') = Len(via) + 1 /\ (\A i \in 1..Len(via) : via'[i] = via[i])
        /\ via'[Len(via) + 1] = next
    BY <1>1, <1>6
  <2> QED
    BY <1>1, <1>6, <2>1
<1>8. client'.ok /\ client'.policy = "checkRedirect" =>
        \A i \in 1..Len(via') : via'[i].method = op'.method /\ via'[i].body = op'.body
  BY <1>5, <1>7 DEF CallInv
<1>9. target'.path = resolve(client', op'.path)
  <2>1. target.path = resolve(client, op.path)
    BY <1>1 DEF CallInv
  <2> QED
    BY <2>1 DEF resolve
<1>10. /\ client'.ok => client'.path = BasePath(made'.base) /\ made' \in MadeFrom
       /\ op' \in Operations /\ Unsent(op') = "none" /\ target'.query = op'.query
       /\ via'[1].method = op'.method /\ via'[1].body = op'.body
  BY <1>1, <1>7 DEF CallInv
<1>11. outcome' = NoOutcome /\ pc' = "waiting"
  BY <1>1 DEF CallInv
<1>12. OutcomeFits(outcome', op', via')
  BY <1>11, NothingFits
<1> QED
  BY <1>7, <1>8, <1>9, <1>10, <1>11, <1>12 DEF CallInv

LEMMA RedirectKeepsCall ==
  ASSUME SentInv, CallInv, NEW s \in {301, 307}, NEW l, Redirect(s, l)
  PROVE  CallInv'
<1>1. pc = "waiting" /\ via # <<>> /\ UNCHANGED <<made, client, op, target>>
  BY DEF Redirect, SentInv
<1>2. ASSUME NEW kind \in {"unsafe", "notFollowed", "transport"}, Ends(kind), UNCHANGED via
      PROVE  CallInv'
  BY <1>1, <1>2, EndFits, AnswerKeepsCall
<1>3. ASSUME Handed(s), UNCHANGED via
      PROVE  CallInv'
  <2>1. pc' = "done" /\ outcome' = Failed(s, Foreign)
    BY <1>3 DEF Handed
  <2>2. OutcomeFits(outcome', op, via)
    BY <1>1, <2>1, FailureFits
  <2> QED
    BY <1>1, <1>3, <2>1, <2>2, AnswerKeepsCall
<1>4. CASE l.kind = "url" /\ AskPolicy(Redirected(s, l.url))
  <2>1. CASE RefuseRedirect
    BY <1>2, <2>1 DEF RefuseRedirect
  <2>2. CASE Follow(Redirected(s, l.url)) /\
               (client.policy = "checkRedirect" =>
                  checkRedirect(Redirected(s, l.url).method, Redirected(s, l.url).url, via))
    <3>1. Redirected(s, l.url).url = l.url
      BY DEF Redirected
    <3> QED
      BY <1>1, <2>2, <3>1, FollowKeepsCall
  <2> QED
    BY <1>4, <2>1, <2>2 DEF AskPolicy
<1>5. classifyUnfollowedRedirect(client.url, l) \in {"unsafe", "notFollowed"}
  BY DEF classifyUnfollowedRedirect
<1> QED
  BY <1>2, <1>3, <1>4, <1>5 DEF Redirect

\* A success is told of a body that was read, or that nobody reads.
LEMMA SuccessFits ==
  ASSUME via # <<>>, op.reads # "verdict", Ends("ok")
  PROVE  pc' = "done" /\ OutcomeFits(outcome', op, via)
<1>1. pc' = "done" /\ outcome'.kind = "ok" /\ outcome'.is = SentinelOf("ok")
  BY DEF Ends
<1> QED
  BY <1>1, SentinelsFit DEF OutcomeFits

LEMMA ServerKeepsCall ==
  ASSUME SentInv, CallInv, Server \/ ConnectionFails
  PROVE  CallInv'
<1>1. ASSUME NEW s, NEW b, Refused(s, b)
      PROVE  CallInv'
  <2>1. via # <<>> /\ pc' = "done" /\ outcome' = Failed(s, b)
        /\ UNCHANGED <<made, client, op, target, via>>
    BY <1>1 DEF Refused, CallInv
  <2>2. OutcomeFits(outcome', op, via)
    BY <2>1, FailureFits
  <2> QED
    BY <2>1, <2>2, AnswerKeepsCall
<1>2. CASE Succeeds
  <2>1. via # <<>> /\ pc = "waiting" /\ UNCHANGED <<made, client, op, target, via>>
    BY <1>2 DEF Succeeds, CallInv
  <2>2. CASE op.reads = "nothing" /\ Ends("ok")
    BY <2>1, <2>2, SuccessFits, AnswerKeepsCall
  <2>3. CASE pc' = "reading" /\ UNCHANGED outcome
    BY <2>1, <2>3, AnswerKeepsCall
  <2> QED
    BY <1>2, <2>2, <2>3 DEF Succeeds
<1>3. ASSUME NEW b, ReadAnswer(b)
      PROVE  CallInv'
  <2>1. /\ via # <<>> /\ pc' = "done" /\ UNCHANGED <<made, client, op, target, via>>
        /\ outcome'.kind = Decoded(b) /\ outcome'.is = SentinelOf(Decoded(b))
        /\ outcome'.answer = b
    BY <1>3 DEF ReadAnswer, CallInv
  <2>2. Decoded(b) # "invalid" /\ (Decoded(b) = "ok" /\ op.reads = "verdict" => b # "denied")
    BY DEF Decoded
  <2>3. OutcomeFits(outcome', op, via)
    BY <2>1, <2>2, SentinelsFit DEF OutcomeFits
  <2> QED
    BY <2>1, <2>3, AnswerKeepsCall
<1>4. CASE ConnectionFails
  <2>1. via # <<>> /\ Ends("transport") /\ UNCHANGED <<made, client, op, target, via>>
    BY <1>4 DEF ConnectionFails, CallInv
  <2> QED
    BY <2>1, EndFits, AnswerKeepsCall
<1> QED
  BY <1>1, <1>2, <1>3, <1>4, RedirectKeepsCall DEF Server

LEMMA CopyKeepsCall ==
  ASSUME CallInv, CopyByte \/ FileEnds \/ Probe
  PROVE  CallInv'
<1>1. /\ pc = "copying" /\ via # <<>> /\ op.reads = "stream"
      /\ UNCHANGED <<made, client, op, target, via>>
  BY DEF CallInv, CopyByte, FileEnds, Probe, CopyStep
<1>2. CASE UNCHANGED <<pc, outcome>>
  BY <1>1, <1>2, AnswerKeepsCall
<1>3. ASSUME NEW kind \in {"writeFailed", "readFailed", "truncated"}, Ends(kind)
      PROVE  CallInv'
  BY <1>1, <1>3, EndFits, AnswerKeepsCall
<1>4. CASE Ends("ok")
  BY <1>1, <1>4, SuccessFits, AnswerKeepsCall
<1> QED
  BY <1>2, <1>3, <1>4 DEF CopyByte, FileEnds, Probe

LEMMA CallInvNext == SentInv /\ CallInv /\ [TransferNext]_allvars => CallInv'
<1> SUFFICES ASSUME SentInv, CallInv, [TransferNext]_allvars
             PROVE  CallInv'
  OBVIOUS
<1>1. CASE CallStep
  <2>1. ASSUME NEW m \in MadeFrom, MakeClient(m)
        PROVE  CallInv'
    BY <2>1, MakeKeepsCall
  <2>2. ASSUME NEW o \in Operations, OtherCall(o)
        PROVE  CallInv'
    BY <2>2, SendKeepsCall DEF OtherCall
  <2> QED
    BY <1>1, <2>1, <2>2, ServerKeepsCall DEF CallStep
<1>2. CASE Timeout
  <2>1. via # <<>> /\ Ends("timeout") /\ UNCHANGED <<made, client, op, target, via>>
    BY <1>2 DEF Timeout, TimerFires, HeaderTimerFires, CallInv
  <2> QED
    BY <2>1, EndFits, AnswerKeepsCall
<1>3. ASSUME NEW o \in Operations, NEW c \in Contents, StartUpload(o, c)
      PROVE  CallInv'
  BY <1>3, SendKeepsCall DEF StartUpload
<1>4. CASE BodyFails
  <2>1. via # <<>> /\ Ends("transport") /\ UNCHANGED <<made, client, op, target, via>>
    BY <1>4 DEF BodyFails, CallInv
  <2> QED
    BY <2>1, EndFits, AnswerKeepsCall
<1>5. ASSUME NEW f, FileArrives(f)
      PROVE  CallInv'
  <2>1. /\ via # <<>> /\ pc = "waiting" /\ pc' = "copying" /\ op.reads = "stream"
        /\ UNCHANGED <<made, client, op, target, via, outcome>>
    BY <1>5 DEF FileArrives, CopyStep, CallInv
  <2> QED
    BY <2>1, AnswerKeepsCall
<1>6. CASE CopyByte \/ FileEnds \/ Probe
  BY <1>6, CopyKeepsCall
<1>7. TakeChunk \/ BodyEnds \/ WriterStep \/ UNCHANGED allvars => UNCHANGED callvars
  BY DEF TakeChunk, BodyEnds, WriterStep, WriteChunk, ContentEnds, ContentFails, PipeClosed,
         CloseWriter, allvars
<1> QED
  BY <1>1, <1>2, <1>3, <1>4, <1>5, <1>6, <1>7, RestKeepsCall DEF TransferNext

\* For every operation, its arguments, options and walk, every base URL, redirect and
\* answer: a request is for what its caller named and asked, below the base URL, and what
\* the caller is told is true of the request that was answered (the argument checks,
\* resolve, the query methods, checkRedirect, postControl, decodeBounded).
THEOREM SuccessIsTheCallHolds == TransferSpec => []SuccessIsTheCall
<1>1. SentInv /\ CallInv => SuccessIsTheCall
  <2> SUFFICES ASSUME SentInv, CallInv
               PROVE  SuccessIsTheCall
    OBVIOUS
  <2>1. ASSUME via # <<>>
        PROVE  /\ target.path = Front(client.path) \o op.path
               /\ DOMAIN target.query =
                    {n \in DOMAIN op.options \union {"after"} : Meant(n) # NotGiven}
               /\ \A n \in DOMAIN target.query : target.query[n] = Meant(n)
               /\ \A i \in DOMAIN op.path : Named(op.path[i])
    <3>1. /\ client.ok /\ client.path = BasePath(made.base) /\ made \in MadeFrom
          /\ op \in Operations /\ Unsent(op) = "none"
          /\ target.path = resolve(client, op.path) /\ target.query = op.query
      BY <2>1 DEF SentInv, CallInv
    <3>2. IsOperation(op) /\ "a%2Fb" \notin op.required /\ PlainPath(made.base.path)
      BY <3>1, CallAssumption
    <3>3. target.path = Front(client.path) \o op.path
      BY <3>1, <3>2, RequestPath
    <3>4. \A i \in DOMAIN op.path : Named(op.path[i])
      BY <3>1, <3>2, PathIsNamed
    <3>5. AsksWhatIsMeant(op, target.query)
      BY <3>1, <3>2, OperationAsks DEF Asks
    <3>6. \A n : MeantBy(op, n) = Meant(n)
      BY DEF MeantBy, Meant
    <3> QED
      BY <3>3, <3>4, <3>5, <3>6 DEF AsksWhatIsMeant
  <2>2. via # <<>> => Len(via) \in 1..Len(via) /\ Last(via) = via[Len(via)]
    BY DEF SentInv, Last
  <2>3. via # <<>> => client.ok
    BY DEF SentInv
  <2>4. outcome.kind = "ok" => via # <<>>
    BY DEF CallInv, OutcomeFits
  <2>5. outcome.kind = "ok" /\ client.policy = "checkRedirect" =>
          Last(via).method = op.method /\ Last(via).body = op.body
    BY <2>2, <2>3, <2>4 DEF CallInv
  <2>6. ASSUME outcome.kind = "ok", NEW s, op \in {Interrupt(s), Compact(s)}
        PROVE  outcome.answer # "denied"
    <3>1. op.reads = "verdict"
      BY <2>6, PostAsks DEF Interrupt, Compact
    <3> QED
      BY <2>6, <3>1 DEF CallInv, OutcomeFits
  <2>7. "ErrInvalidArgument" \in outcome.is => via = <<>>
    BY DEF CallInv, OutcomeFits
  <2>8. outcome.is \intersect {"ErrTruncated", "ErrResponseTooLarge", "ErrInputDenied"} # {}
          => via # <<>>
    BY DEF CallInv, OutcomeFits
  <2>9. via # <<>> /\ client.policy = "checkRedirect" => Last(via).method = op.method
    BY <2>2, <2>3 DEF CallInv
  <2>10. outcome.kind = "ok" /\ (\E s \in op.required : op \in {Interrupt(s), Compact(s)}) =>
           outcome.answer # "denied"
    BY <2>6
  <2>11. outcome.is \intersect {"ErrTruncated", "ErrResponseTooLarge", "ErrInputDenied"} # {}
           /\ client.policy = "checkRedirect" => Last(via).method = op.method
    BY <2>8, <2>9
  <2> QED
    BY <2>1, <2>5, <2>7, <2>10, <2>11, Zenon DEF SuccessIsTheCall
<1> QED
  BY <1>1, SentInit, SentStep, CallInvInit, CallInvNext, PTL DEF TransferSpec

-----------------------------------------------------------------------------
(***************************************************************************)
(* The options New is given.                                               *)
(***************************************************************************)

Auth == {"AuthHeader", "BearerToken", "SessionCookie"}

\* What a config made of these options can be.
Configs(opts) ==
  [header   : [HeaderNames -> Seq({opt.text : opt \in Range(opts)})],
   origin   : BOOLEAN,
   own      : BOOLEAN,
   http     : {opt.http : opt \in Range(opts)} \union {CallerHTTP(0, "none")},
   idle     : Int,
   unary    : Int,
   transfer : Int,
   credentialed : BOOLEAN,
   plaintext    : BOOLEAN,
   invalid      : BOOLEAN]

LEMMA Config0Type == ASSUME NEW opts PROVE config0 \in Configs(opts)
<1> DEFINE T == {opt.text : opt \in Range(opts)}
<1>1. [n \in HeaderNames |-> <<>>] \in [HeaderNames -> Seq(T)]
  <2>1. <<>> \in Seq(T)
    OBVIOUS
  <2> HIDE DEF T
  <2> QED
    BY <2>1
<1> HIDE DEF T
<1>2. defaultStreamIdleTimeout \in Int
  BY ClientAssumption
<1> QED
  BY <1>1, <1>2 DEF config0, Configs, T

\* An auth option sets a header of the request, if it is one, and nothing else.
LEMMA HeaderSet ==
  ASSUME NEW T, NEW header \in [HeaderNames -> Seq(T)], NEW name, NEW values \in Seq(T)
  PROVE  [header EXCEPT ![name] = values] \in [HeaderNames -> Seq(T)]
OBVIOUS

LEMMA ApplyType ==
  ASSUME NEW opts, NEW cfg \in Configs(opts), NEW opt \in Range(opts), IsOption(opt)
  PROVE  apply(cfg, opt) \in Configs(opts)
<1> DEFINE T == {p.text : p \in Range(opts)}
           H == {p.http : p \in Range(opts)} \union {CallerHTTP(0, "none")}
<1>1. opt.text \in T /\ opt.http \in H /\ <<opt.text>> \in Seq(T)
  OBVIOUS
<1>2. /\ cfg.header \in [HeaderNames -> Seq(T)] /\ "Cookie" \in HeaderNames
      /\ cfg = [header |-> cfg.header, origin |-> cfg.origin, own |-> cfg.own, http |-> cfg.http,
                idle |-> cfg.idle, unary |-> cfg.unary, transfer |-> cfg.transfer,
                credentialed |-> cfg.credentialed, plaintext |-> cfg.plaintext,
                invalid |-> cfg.invalid]
      /\ cfg.origin \in BOOLEAN /\ cfg.own \in BOOLEAN /\ cfg.http \in H /\ cfg.idle \in Int
      /\ cfg.unary \in Int /\ cfg.transfer \in Int /\ cfg.credentialed \in BOOLEAN
      /\ cfg.plaintext \in BOOLEAN /\ cfg.invalid \in BOOLEAN
  BY DEF Configs, HeaderNames
<1> HIDE DEF T, H
<1>3. Configs(opts) =
        [header : [HeaderNames -> Seq(T)], origin : BOOLEAN, own : BOOLEAN, http : H, idle : Int,
         unary : Int, transfer : Int, credentialed : BOOLEAN, plaintext : BOOLEAN,
         invalid : BOOLEAN]
  BY DEF Configs, T, H
<1>4. Refuse(cfg) \in Configs(opts)
  BY <1>2, <1>3 DEF Refuse
<1>5. ASSUME NEW name, NEW values \in Seq(T)
      PROVE  Credential(cfg, name, values) \in Configs(opts)
  <2> DEFINE hh == [cfg.header EXCEPT ![name] = values]
  <2>1. hh \in [HeaderNames -> Seq(T)]
    BY <1>2, HeaderSet
  <2>2. Credential(cfg, name, values) = [[cfg EXCEPT !.header = hh] EXCEPT !.credentialed = TRUE]
    BY <1>2 DEF Credential
  <2> HIDE DEF hh
  <2> QED
    BY <1>2, <1>3, <2>1, <2>2
<1>6. CookieText(opt.text) \in Seq(T)
  <2>1. <<>> \in Seq(T)
    OBVIOUS
  <2>2. CookieText(opt.text) \in {<<>>, <<opt.text>>}
    BY DEF CookieText
  <2> QED
    BY <1>1, <2>1, <2>2
<1>7. cfg.header["Cookie"] \o CookieText(opt.text) \in Seq(T)
  <2>1. cfg.header["Cookie"] \in Seq(T)
    BY <1>2
  <2> QED
    BY <1>6, <2>1, ConcatProperties
<1>8. CASE opt.with \in Auth
  BY <1>1, <1>4, <1>5, <1>7, <1>8
     DEF apply, Auth, WithAuthHeader, WithBearerToken, WithSessionCookie
<1>9. CASE opt.with = "HTTPClient"
  <2>1. [cfg EXCEPT !.http = opt.http, !.own = FALSE] \in Configs(opts)
    BY <1>1, <1>2, <1>3
  <2> QED
    BY <1>4, <1>9, <2>1 DEF apply, WithHTTPClient
<1>10. CASE opt.with \in {"Insecure", "Origin"}
  <2>1. /\ [cfg EXCEPT !.plaintext = TRUE] \in Configs(opts)
        /\ [cfg EXCEPT !.origin = TRUE] \in Configs(opts)
    BY <1>2, <1>3
  <2> QED
    BY <1>4, <1>10, <2>1 DEF apply, WithInsecureCredentialTransport, WithInternalClientOrigin
<1>11. CASE opt.with = "UserAgent"
  <2> DEFINE hh == [cfg.header EXCEPT !["User-Agent"] = <<opt.text>>]
  <2>1. hh \in [HeaderNames -> Seq(T)]
    BY <1>1, <1>2, HeaderSet
  <2>2. WithUserAgent(cfg, opt.text) = [cfg EXCEPT !.header = hh]
    BY <1>2 DEF WithUserAgent
  <2> HIDE DEF hh
  <2>3. [cfg EXCEPT !.header = hh] \in Configs(opts)
    BY <1>2, <1>3, <2>1
  <2> QED
    BY <1>11, <2>2, <2>3 DEF apply
<1>12. CASE opt.with \in {"TransferTimeout", "UnaryTimeout", "StreamIdleTimeout"}
  <2>1. opt.d \in Int /\ defaultUnaryTimeout \in Int /\ defaultStreamIdleTimeout \in Int
    BY <1>12, ClientAssumption DEF IsOption
  <2>2. ASSUME NEW d \in Int
        PROVE  /\ [cfg EXCEPT !.transfer = d] \in Configs(opts)
               /\ [cfg EXCEPT !.unary = d] \in Configs(opts)
               /\ [cfg EXCEPT !.idle = d] \in Configs(opts)
    BY <1>2, <1>3
  <2> QED
    BY <1>4, <1>12, <2>1, <2>2 DEF apply, WithTransferTimeout, WithUnaryTimeout,
                                   WithStreamIdleTimeout
<1> QED
  BY <1>8, <1>9, <1>10, <1>11, <1>12 DEF IsOption, Auth

\* The fold of New, option by option.
ApplyRuns(h, opts) ==
  /\ h \in [0..Len(opts) -> Configs(opts)] /\ h[0] = config0
  /\ \A k \in 1..Len(opts) : h[k] = apply(h[k - 1], opts[k])
  /\ FoldLeft(apply, config0, opts) = h[Len(opts)]

\* Applying the options is a loop over them.
LEMMA ApplyLoops ==
  ASSUME NEW opts, opts \in Seq(Range(opts)), \A opt \in Range(opts) : IsOption(opt)
  PROVE  \E h : ApplyRuns(h, opts)
<1> DEFINE n    == Len(opts)
           C    == Configs(opts)
           base == config0
           step == [p \in C \X (1..n) |-> apply(p[1], opts[p[2]])]
           Eq(g) == g = [S \in SUBSET DOMAIN opts |->
                           IF S = {} THEN base ELSE apply(g[S \ {Max(S)}], opts[Max(S)])]
           f    == CHOOSE g : Eq(g)
<1>1. n \in Nat /\ DOMAIN opts = 1..n /\ \A i \in 1..n : opts[i] \in Range(opts)
  OBVIOUS
<1>2. base \in C
  BY Config0Type
<1>3. FoldLeft(apply, base, opts) = f[DOMAIN opts]
  BY DEF FoldLeft, MapThenFoldSet
<1> HIDE DEF base
<1>4. \A p \in C, i \in 1..n : apply(p, opts[i]) \in C
  BY <1>1, ApplyType
<1> HIDE DEF C
<1>5. /\ step \in [C \X (1..n) -> C]
      /\ \A p \in C, i \in 1..n : step[<<p, i>>] = apply(p, opts[i])
  <2> HIDE DEF n
  <2> QED
    BY <1>4
<1> HIDE DEF step, n
<1>6. PICK g : IsFoldMap(g, n, C, base, step)
  BY <1>1, <1>2, <1>5, FoldMap
<1>7. Eq(g)
  <2>1. g \in [SUBSET (1..n) -> C]
    BY <1>6 DEF IsFoldMap
  <2>2. ASSUME NEW S \in SUBSET (1..n)
        PROVE  g[S] = IF S = {} THEN base ELSE apply(g[S \ {Max(S)}], opts[Max(S)])
    <3>1. S # {} => Max(S) \in 1..n
      BY <1>1, LastOf
    <3>2. g[S] = IF S = {} THEN base ELSE step[<<g[S \ {Max(S)}], Max(S)>>]
      BY <1>6 DEF IsFoldMap
    <3>3. S # {} => step[<<g[S \ {Max(S)}], Max(S)>>] = apply(g[S \ {Max(S)}], opts[Max(S)])
      BY <1>5, <2>1, <3>1
    <3> QED
      BY <3>2, <3>3
  <2> QED
    BY <1>1, <2>1, <2>2
<1>8. Eq(f)
  BY <1>7, Zenon
<1> HIDE DEF f
<1>9. f[{}] = base
  BY <1>8
<1>10. ASSUME NEW S \in SUBSET (1..n), S # {}, f[S \ {Max(S)}] \in C
       PROVE  f[S] = step[<<f[S \ {Max(S)}], Max(S)>>]
  <2>1. Max(S) \in 1..n
    BY <1>1, <1>10, LastOf
  <2>2. f[S] = apply(f[S \ {Max(S)}], opts[Max(S)])
    BY <1>1, <1>8, <1>10
  <2> QED
    BY <1>5, <1>10, <2>1, <2>2
<1> DEFINE h == [k \in 0..n |-> f[1..k]]
<1>11. IsLoop(h, n, C, base, step)
  BY <1>1, <1>2, <1>5, <1>9, <1>10, FoldLoops
<1>12. h[n] = f[DOMAIN opts]
  BY <1>1
<1> HIDE DEF h
<1>13. \A k \in 1..n : h[k] = apply(h[k - 1], opts[k])
  <2> SUFFICES ASSUME NEW k \in 1..n PROVE h[k] = apply(h[k - 1], opts[k])
    OBVIOUS
  <2>1. h[k - 1] \in C /\ h[k] = step[<<h[k - 1], k>>]
    BY <1>1, <1>11 DEF IsLoop
  <2> QED
    BY <1>5, <2>1
<1>14. ApplyRuns(h, opts)
  BY <1>3, <1>11, <1>12, <1>13 DEF ApplyRuns, IsLoop, n, base, C
<1> QED
  BY <1>14

\* What one option does to a config.
UnaryOf(opt) == IF opt.d = 0 THEN defaultUnaryTimeout ELSE opt.d

\* New's configuration is the last value of that loop.
LEMMA ApplyIs ==
  ASSUME NEW opts, NEW c \in Configs(opts), NEW opt, IsOption(opt), NEW d, d = apply(c, opt)
  PROVE  /\ c.invalid => d = c
         /\ ~c.invalid => (d.invalid <=> Malformed(opt))
         /\ ~c.invalid /\ ~Malformed(opt) =>
              /\ d.credentialed <=> c.credentialed \/ opt.with \in Auth
              /\ d.plaintext <=> c.plaintext \/ opt.with = "Insecure"
              /\ d.origin <=> c.origin \/ opt.with = "Origin"
              /\ d.own <=> c.own /\ opt.with # "HTTPClient"
              /\ d.header["Origin"] = c.header["Origin"]
              /\ d.header["Cookie"] = IF opt.with = "SessionCookie"
                                      THEN c.header["Cookie"] \o CookieText(opt.text)
                                      ELSE c.header["Cookie"]
              /\ d.unary = IF opt.with = "UnaryTimeout" THEN UnaryOf(opt) ELSE c.unary
<1> DEFINE T == {p.text : p \in Range(opts)}
<1>1. /\ c.header \in [HeaderNames -> Seq(T)] /\ {"Cookie", "Origin"} \subseteq HeaderNames
      /\ c.origin \in BOOLEAN /\ c.own \in BOOLEAN /\ c.credentialed \in BOOLEAN
      /\ c.plaintext \in BOOLEAN /\ c.invalid \in BOOLEAN
  BY DEF Configs, HeaderNames
<1>2. DOMAIN c.header = HeaderNames
  BY <1>1
<1>3. DOMAIN c = {"header", "origin", "own", "http", "idle", "unary", "transfer", "credentialed",
                  "plaintext", "invalid"}
  BY DEF Configs
<1> HIDE DEF T
<1>4. CASE c.invalid
  BY <1>4 DEF apply
<1>5. CASE ~c.invalid /\ opt.with \in Auth
  BY <1>1, <1>2, <1>3, <1>5
     DEF apply, Auth, WithAuthHeader, WithBearerToken, WithSessionCookie, Credential, Refuse,
         Malformed, IsOption
<1>6. CASE ~c.invalid /\ opt.with \notin Auth
  BY <1>1, <1>2, <1>3, <1>6
     DEF apply, Auth, WithHTTPClient, WithInsecureCredentialTransport, WithInternalClientOrigin,
         WithUserAgent, WithTransferTimeout, WithUnaryTimeout, WithStreamIdleTimeout, Refuse,
         Malformed, IsOption, UnaryOf
<1> QED
  BY <1>4, <1>5, <1>6

\* A config, judged by the options that made it: none that refused, and what each sets.
Judged(c, opts, k) ==
  /\ c.invalid <=> \E i \in 1..k : Malformed(opts[i])
  /\ ~c.invalid =>
       /\ c.credentialed <=> \E i \in 1..k : opts[i].with \in Auth
       /\ c.plaintext <=> \E i \in 1..k : opts[i].with = "Insecure"
       /\ c.origin <=> \E i \in 1..k : opts[i].with = "Origin"
       /\ c.own <=> ~\E i \in 1..k : opts[i].with = "HTTPClient"
       /\ c.header["Origin"] = <<>>
       /\ \A x : x \in Range(c.header["Cookie"]) <=>
                   \E i \in 1..k : /\ opts[i].with = "SessionCookie" /\ opts[i].text = x
                                   /\ CookieText(x) # <<>>
       /\ IF \E i \in 1..k : opts[i].with = "UnaryTimeout"
          THEN \E i \in 1..k : opts[i].with = "UnaryTimeout" /\ c.unary = UnaryOf(opts[i])
          ELSE c.unary = 0

\* The cookies of a list, and of one cookie more.
LEMMA CookiesGrow ==
  ASSUME NEW T, NEW s \in Seq(T), NEW text \in T, NEW x
  PROVE  x \in Range(s \o CookieText(text)) <=>
           x \in Range(s) \/ (x = text /\ CookieText(x) # <<>>)
<1>1. Len(s) \in Nat /\ DOMAIN s = 1..Len(s) /\ Range(s) = {s[i] : i \in 1..Len(s)}
  BY DEF Range
<1>2. CASE CookieText(text) = <<>>
  <2>1. s \o <<>> = s
    BY ConcatEmptySeq
  <2> QED
    BY <1>2, <2>1
<1>3. CASE CookieText(text) = <<text>>
  <2>1. s \o <<text>> = Append(s, text)
    BY AppendIsConcat
  <2> DEFINE t == Append(s, text)
  <2>2. /\ t \in Seq(T) /\ Len(t) = Len(s) + 1 /\ t[Len(s) + 1] = text
        /\ \A i \in 1..Len(s) : t[i] = s[i]
    BY AppendProperties
  <2> HIDE DEF t
  <2>3. Range(t) = {t[i] : i \in 1..(Len(s) + 1)}
    BY <1>1, <2>2 DEF Range
  <2>4. x \in Range(t) <=> x \in Range(s) \/ x = text
    <3>1. \A i \in 1..(Len(s) + 1) : i \in 1..Len(s) \/ i = Len(s) + 1
      BY <1>1
    <3>2. 1..Len(s) \subseteq 1..(Len(s) + 1) /\ Len(s) + 1 \in 1..(Len(s) + 1)
      BY <1>1
    <3> QED
      BY <1>1, <2>2, <2>3, <3>1, <3>2
  <2>5. CookieText(text) # <<>>
    BY <1>3
  <2> QED
    BY <1>3, <2>1, <2>4, <2>5 DEF t
<1> QED
  BY <1>2, <1>3 DEF CookieText

LEMMA JudgedStep ==
  ASSUME NEW opts, NEW k \in Nat, NEW c \in Configs(opts), Judged(c, opts, k),
         NEW opt, opt = opts[k + 1], opt \in Range(opts), IsOption(opt),
         NEW d, d = apply(c, opt)
  PROVE  Judged(d, opts, k + 1)
<1>1. /\ \A i \in 1..(k + 1) : i \in 1..k \/ i = k + 1
      /\ 1..k \subseteq 1..(k + 1) /\ k + 1 \in 1..(k + 1)
  OBVIOUS
<1>2. CASE c.invalid
  <2>1. d = c /\ \E i \in 1..k : Malformed(opts[i])
    BY <1>2, ApplyIs DEF Judged
  <2> QED
    BY <1>1, <1>2, <2>1 DEF Judged
<1>3. CASE ~c.invalid /\ Malformed(opt)
  <2>1. d.invalid
    BY <1>3, ApplyIs
  <2> QED
    BY <1>1, <1>3, <2>1 DEF Judged
<1>4. CASE ~c.invalid /\ ~Malformed(opt)
  <2>1. /\ ~d.invalid
        /\ d.credentialed <=> c.credentialed \/ opt.with \in Auth
        /\ d.plaintext <=> c.plaintext \/ opt.with = "Insecure"
        /\ d.origin <=> c.origin \/ opt.with = "Origin"
        /\ d.own <=> c.own /\ opt.with # "HTTPClient"
        /\ d.header["Origin"] = c.header["Origin"]
        /\ d.header["Cookie"] = IF opt.with = "SessionCookie"
                                THEN c.header["Cookie"] \o CookieText(opt.text)
                                ELSE c.header["Cookie"]
        /\ d.unary = IF opt.with = "UnaryTimeout" THEN UnaryOf(opt) ELSE c.unary
    BY <1>4, ApplyIs
  <2>2. d.invalid <=> \E i \in 1..(k + 1) : Malformed(opts[i])
    BY <1>1, <1>4, <2>1 DEF Judged
  <2>3. /\ d.credentialed <=> \E i \in 1..(k + 1) : opts[i].with \in Auth
        /\ d.plaintext <=> \E i \in 1..(k + 1) : opts[i].with = "Insecure"
        /\ d.origin <=> \E i \in 1..(k + 1) : opts[i].with = "Origin"
        /\ d.own <=> ~\E i \in 1..(k + 1) : opts[i].with = "HTTPClient"
        /\ d.header["Origin"] = <<>>
    BY <1>1, <1>4, <2>1 DEF Judged
  <2>4. ASSUME NEW x
        PROVE  x \in Range(d.header["Cookie"]) <=>
                 \E i \in 1..(k + 1) : /\ opts[i].with = "SessionCookie" /\ opts[i].text = x
                                       /\ CookieText(x) # <<>>
    <3>1. x \in Range(c.header["Cookie"]) <=>
            \E i \in 1..k : /\ opts[i].with = "SessionCookie" /\ opts[i].text = x
                            /\ CookieText(x) # <<>>
      BY <1>4 DEF Judged
    <3>2. opt.with = "SessionCookie" =>
            (x \in Range(d.header["Cookie"]) <=>
               x \in Range(c.header["Cookie"]) \/ (x = opt.text /\ CookieText(x) # <<>>))
      <4> DEFINE T == {p.text : p \in Range(opts)}
      <4>1. opt.text \in T /\ c.header["Cookie"] \in Seq(T)
        BY DEF Configs, HeaderNames
      <4> HIDE DEF T
      <4> QED
        BY <2>1, <4>1, CookiesGrow
    <3> QED
      BY <1>1, <2>1, <3>1, <3>2
  <2>5. IF \E i \in 1..(k + 1) : opts[i].with = "UnaryTimeout"
        THEN \E i \in 1..(k + 1) : opts[i].with = "UnaryTimeout" /\ d.unary = UnaryOf(opts[i])
        ELSE d.unary = 0
    <3>1. CASE opt.with = "UnaryTimeout"
      BY <1>1, <2>1, <3>1
    <3>2. CASE opt.with # "UnaryTimeout"
      <4>1. IF \E i \in 1..k : opts[i].with = "UnaryTimeout"
            THEN \E i \in 1..k : opts[i].with = "UnaryTimeout" /\ d.unary = UnaryOf(opts[i])
            ELSE d.unary = 0
        BY <1>4, <2>1, <3>2 DEF Judged
      <4>2. (\E i \in 1..(k + 1) : opts[i].with = "UnaryTimeout") <=>
              \E i \in 1..k : opts[i].with = "UnaryTimeout"
        BY <1>1, <3>2
      <4> QED
        BY <1>1, <4>1, <4>2
    <3> QED
      BY <3>1, <3>2
  <2> QED
    BY <2>1, <2>2, <2>3, <2>4, <2>5 DEF Judged
<1> QED
  BY <1>2, <1>3, <1>4

LEMMA ConfigIsJudged ==
  ASSUME NEW opts, opts \in Seq(Range(opts)), \A opt \in Range(opts) : IsOption(opt)
  PROVE  LET c == FoldLeft(apply, config0, opts) IN
         c \in Configs(opts) /\ Judged(c, opts, Len(opts))
<1> DEFINE n == Len(opts)
<1>1. n \in Nat /\ \A i \in 1..n : opts[i] \in Range(opts)
  OBVIOUS
<1>2. PICK h : ApplyRuns(h, opts)
  BY ApplyLoops
<1>3. /\ h \in [0..n -> Configs(opts)] /\ h[0] = config0 /\ FoldLeft(apply, config0, opts) = h[n]
      /\ \A k \in 1..n : h[k] = apply(h[k - 1], opts[k])
  BY <1>2 DEF ApplyRuns
<1> HIDE DEF n
<1> DEFINE In == {k \in 0..n : Judged(h[k], opts, k)}
<1>4. 0 \in In
  <2>1. Judged(config0, opts, 0)
    <3>1. 1..0 = {} /\ Range(<<>>) = {}
      BY DEF Range
    <3>2. /\ config0.invalid = FALSE /\ config0.credentialed = FALSE /\ config0.plaintext = FALSE
          /\ config0.origin = FALSE /\ config0.own = TRUE /\ config0.unary = 0
          /\ config0.header["Origin"] = <<>> /\ config0.header["Cookie"] = <<>>
      BY DEF config0, HeaderNames
    <3> QED
      BY <3>1, <3>2 DEF Judged
  <2> QED
    BY <1>1, <1>3, <2>1
<1>5. ASSUME NEW k \in 0..(n - 1), k \in In PROVE k + 1 \in In
  <2>1. k \in Nat /\ k + 1 \in 1..n /\ k + 1 \in 0..n /\ k \in 0..n /\ (k + 1) - 1 = k
    BY <1>1
  <2>2. h[k] \in Configs(opts) /\ Judged(h[k], opts, k) /\ h[k + 1] = apply(h[k], opts[k + 1])
    BY <1>3, <1>5, <2>1
  <2>3. opts[k + 1] \in Range(opts) /\ IsOption(opts[k + 1])
    BY <1>1, <2>1
  <2>4. Judged(h[k + 1], opts, k + 1)
    BY <2>1, <2>2, <2>3, JudgedStep
  <2> QED
    BY <2>1, <2>4
<1> HIDE DEF In
<1>6. 0..n \subseteq In
  BY <1>1, <1>4, <1>5, PrefixInduction
<1>7. n \in 0..n
  BY <1>1
<1>8. h[n] \in Configs(opts) /\ Judged(h[n], opts, n)
  BY <1>3, <1>6, <1>7 DEF In
<1> QED
  BY <1>3, <1>8 DEF n

\* A client that nobody has used yet is what New made of the options.
MadeInv == pc \in {"ready", "refused"} => made \in MadeFrom /\ client = New(made.base, made.opts)

LEMMA MadeStep == MadeInv /\ [TransferNext]_allvars => MadeInv'
<1> SUFFICES ASSUME MadeInv, [TransferNext]_allvars
             PROVE  MadeInv'
  OBVIOUS
<1>1. ASSUME NEW m \in MadeFrom, MakeClient(m)
      PROVE  MadeInv'
  BY <1>1 DEF MakeClient, MadeInv
<1>2. CASE UNCHANGED <<pc, made, client>>
  BY <1>2 DEF MadeInv
<1>3. CASE pc' \notin {"ready", "refused"}
  BY <1>3 DEF MadeInv
<1>4. ASSUME NEW o, Call(o)
      PROVE  pc' \notin {"ready", "refused"}
  BY <1>4 DEF Call, Send, Ends
<1>5. Server => pc' \notin {"ready", "refused"}
  BY DEF Server, Redirect, Refused, Succeeds, ReadAnswer, Ends, Handed, AskPolicy, Follow,
         RefuseRedirect
<1>6. ConnectionFails \/ Timeout \/ BodyFails => pc' \notin {"ready", "refused"}
  BY DEF ConnectionFails, Timeout, TimerFires, HeaderTimerFires, BodyFails, Ends
<1>7. ASSUME NEW f, FileArrives(f)
      PROVE  pc' \notin {"ready", "refused"}
  BY <1>7 DEF FileArrives
<1>8. CopyByte \/ FileEnds \/ Probe => pc' \notin {"ready", "refused"}
  BY DEF CopyByte, FileEnds, Probe, Ends
<1>9. TakeChunk \/ BodyEnds \/ WriterStep \/ UNCHANGED allvars => UNCHANGED <<pc, made, client>>
  BY DEF TakeChunk, BodyEnds, WriterStep, WriteChunk, ContentEnds, ContentFails, PipeClosed,
         CloseWriter, allvars, callvars
<1> QED
  BY <1>1, <1>2, <1>3, <1>4, <1>5, <1>6, <1>7, <1>8, <1>9
     DEF TransferNext, CallStep, OtherCall, StartUpload

\* The options by their names.
LEMMA GivenAre ==
  ASSUME made.opts \in Seq(Range(made.opts))
  PROVE  /\ \A w : Given(w) # {} <=> \E i \in 1..Len(made.opts) : made.opts[i].with = w
         /\ Authenticated <=> \E i \in 1..Len(made.opts) : made.opts[i].with \in Auth
         /\ (\E opt \in Range(made.opts) : Malformed(opt)) <=>
              \E i \in 1..Len(made.opts) : Malformed(made.opts[i])
         /\ \A w : \A i \in 1..Len(made.opts) : made.opts[i].with = w => made.opts[i] \in Given(w)
<1> DEFINE o == made.opts
           n == Len(o)
<1>1. Range(o) = {o[i] : i \in 1..n}
  <2>1. DOMAIN o = 1..n
    OBVIOUS
  <2> QED
    BY <2>1 DEF Range
<1>2. \A w, opt : opt \in Given(w) <=> \E i \in 1..n : opt = o[i] /\ o[i].with = w
  <2> HIDE DEF n
  <2> QED
    BY <1>1 DEF Given
<1> HIDE DEF o, n
<1>3. \A w : Given(w) # {} <=> \E i \in 1..n : o[i].with = w
  BY <1>2
<1>4. Authenticated <=> \E i \in 1..n : o[i].with \in Auth
  <2>1. Authenticated <=> \E w \in Auth : Given(w) # {}
    BY DEF Authenticated, Auth
  <2> QED
    BY <1>3, <2>1
<1>5. (\E opt \in Range(o) : Malformed(opt)) <=> \E i \in 1..n : Malformed(o[i])
  BY <1>1
<1>6. \A w : \A i \in 1..n : o[i].with = w => o[i] \in Given(w)
  BY <1>2
<1> QED
  BY <1>3, <1>4, <1>5, <1>6 DEF o, n

\* For every list of options, in every order: New refuses by what is in it, and the
\* deadlines, the cookies, the Origin and the say over clear text are those it holds
\* (the options write config, and New judges after all of them).
THEOREM NewIsOrderlessHolds == TransferSpec => []NewIsOrderless
<1>1. TransferInit => MadeInv
  BY DEF TransferInit, CallInit, MadeInv
<1>2. MadeInv => NewIsOrderless
  <2> SUFFICES ASSUME MadeInv, pc \in {"ready", "refused"}
               PROVE  NewIsOrderless
    BY DEF NewIsOrderless
  <2> DEFINE o   == made.opts
             n   == Len(o)
             cfg == FoldLeft(apply, config0, o)
             judgement == /\ ~BaseRefused(made.base)
                          /\ ~\E opt \in Range(made.opts) : Malformed(opt)
                          /\ Authenticated /\ sendsCredentialInClear(Parsed(made.base)) =>
                               AllowsClear
  <2>1. client = New(made.base, o) /\ o \in Seq(Range(o)) /\ \A opt \in Range(o) : IsOption(opt)
    BY CallAssumption DEF MadeInv
  <2>2. Judged(cfg, o, n) /\ cfg \in Configs(o)
    BY <2>1, ConfigIsJudged
  <2>3. /\ \A w : Given(w) # {} <=> \E i \in 1..n : o[i].with = w
        /\ Authenticated <=> \E i \in 1..n : o[i].with \in Auth
        /\ (\E opt \in Range(o) : Malformed(opt)) <=> \E i \in 1..n : Malformed(o[i])
        /\ \A w : \A i \in 1..n : o[i].with = w => o[i] \in Given(w)
    BY <2>1, GivenAre
  <2> HIDE DEF n, o, cfg
  <2>4. /\ cfg.invalid <=> \E opt \in Range(o) : Malformed(opt)
        /\ ~cfg.invalid => (cfg.credentialed <=> Authenticated) /\ (cfg.plaintext <=> AllowsClear)
    BY <2>2, <2>3 DEF Judged, AllowsClear
  <2>5. client.ok <=> judgement
    BY <2>1, <2>4 DEF New, Refusal, cfg, o
  <2>6. ASSUME client.ok
        PROVE  /\ client.credentialed = Authenticated /\ client.plaintext = AllowsClear
               /\ Range(client.header["Cookie"]) = CookiesGiven
               /\ client.header["Origin"] # <<>> <=> Given("Origin") # {}
               /\ client.stream = 0
               /\ Given("UnaryTimeout") # {} =>
                    client.unary \in {IF p.d = 0 THEN defaultUnaryTimeout ELSE p.d :
                                        p \in Given("UnaryTimeout")}
               /\ Given("HTTPClient") = {} =>
                    client.unary > 0 /\ client.headerTimeout >= client.unary
    <3>1. /\ ~cfg.invalid
          /\ client.credentialed = cfg.credentialed /\ client.plaintext = cfg.plaintext
          /\ client.header =
               [cfg.header EXCEPT !["Origin"] = IF cfg.origin THEN <<"Origin">> ELSE @]
          /\ client.stream = 0 /\ client.unary = UnaryTimeout(cfg)
          /\ client.headerTimeout = IF cfg.own THEN defaultTransport(UnaryTimeout(cfg)) ELSE 0
      BY <2>1, <2>6 DEF New, Refusal, cfg, o
    <3>2. /\ DOMAIN cfg.header = HeaderNames /\ {"Cookie", "Origin"} \subseteq HeaderNames
          /\ cfg.credentialed \in BOOLEAN /\ cfg.plaintext \in BOOLEAN /\ cfg.unary \in Int
          /\ cfg.own \in BOOLEAN
      BY <2>2 DEF Configs, HeaderNames
    <3>3. client.credentialed = Authenticated /\ client.plaintext = AllowsClear
      BY <2>4, <3>1, <3>2 DEF Authenticated, AllowsClear
    <3>4. client.header["Cookie"] = cfg.header["Cookie"]
          /\ client.header["Origin"] = IF cfg.origin THEN <<"Origin">> ELSE cfg.header["Origin"]
      BY <3>1, <3>2
    <3>5. client.header["Origin"] # <<>> <=> Given("Origin") # {}
      <4>1. (cfg.origin <=> Given("Origin") # {}) /\ cfg.header["Origin"] = <<>>
        BY <2>2, <2>3, <3>1 DEF Judged
      <4>2. <<"Origin">> # <<>>
        OBVIOUS
      <4> QED
        BY <3>4, <4>1, <4>2
    <3>6. Range(client.header["Cookie"]) = CookiesGiven
      <4>1. \A x : x \in Range(cfg.header["Cookie"]) <=>
                     \E i \in 1..n : /\ o[i].with = "SessionCookie" /\ o[i].text = x
                                     /\ CookieText(x) # <<>>
        BY <2>2, <3>1 DEF Judged
      <4>2. \A p : p \in Given("SessionCookie") =>
                     \E i \in 1..n : p = o[i] /\ o[i].with = "SessionCookie"
        <5>1. Range(o) = {o[i] : i \in 1..n}
          BY <2>1 DEF Range, n
        <5> QED
          BY <5>1 DEF Given, o
      <4>3. \A x : x \in CookiesGiven <=>
                     \E p \in Given("SessionCookie") : p.text = x /\ CookieText(x) # <<>>
        BY DEF CookiesGiven
      <4>4. \A x : x \in CookiesGiven <=> x \in Range(cfg.header["Cookie"])
        BY <2>3, <4>1, <4>2, <4>3
      <4> QED
        BY <3>4, <4>4
    <3>7. Given("UnaryTimeout") # {} =>
            client.unary \in {IF p.d = 0 THEN defaultUnaryTimeout ELSE p.d :
                                p \in Given("UnaryTimeout")}
      <4> SUFFICES ASSUME Given("UnaryTimeout") # {}
                   PROVE  client.unary \in {IF p.d = 0 THEN defaultUnaryTimeout ELSE p.d :
                                              p \in Given("UnaryTimeout")}
        OBVIOUS
      <4>1. PICK i \in 1..n : o[i].with = "UnaryTimeout" /\ cfg.unary = UnaryOf(o[i])
        BY <2>2, <2>3, <3>1 DEF Judged
      <4>2. o[i] \in Given("UnaryTimeout") /\ ~Malformed(o[i]) /\ IsOption(o[i])
        <5>1. ~Malformed(o[i])
          BY <2>2, <3>1 DEF Judged
        <5>2. o[i] \in Range(o)
          BY <2>1 DEF n
        <5> QED
          BY <2>1, <2>3, <4>1, <5>1, <5>2
      <4>3. o[i].d \in Int /\ o[i].d >= 0
        BY <4>1, <4>2 DEF Malformed, IsOption
      <4>4. cfg.unary > 0
        BY <4>1, <4>3, ClientAssumption DEF UnaryOf
      <4>5. client.unary = UnaryOf(o[i])
        BY <3>1, <4>1, <4>4 DEF UnaryTimeout
      <4> QED
        BY <4>2, <4>5 DEF UnaryOf
    <3>8. Given("HTTPClient") = {} => client.unary > 0 /\ client.headerTimeout >= client.unary
      <4>1. Given("HTTPClient") = {} => cfg.own
        BY <2>2, <2>3, <3>1 DEF Judged
      <4>2. cfg.own => UnaryTimeout(cfg) \in Int /\ UnaryTimeout(cfg) > 0
        BY <3>2, ClientAssumption DEF UnaryTimeout
      <4> QED
        BY <3>1, <4>1, <4>2, ClientAssumption DEF defaultTransport, Larger
    <3> QED
      BY <3>1, <3>3, <3>5, <3>6, <3>7, <3>8
  <2> QED
    BY <2>5, <2>6, Zenon DEF NewIsOrderless, o
<1> QED
  BY <1>1, <1>2, MadeStep, PTL DEF TransferSpec

-----------------------------------------------------------------------------
(***************************************************************************)
(* What is rendered of the server's text.                                  *)
(***************************************************************************)

(* The folds: a text of one rune more. *)

\* Words so far, the last one of them open for another letter.
Spellings ==
  {w \in [words : Seq(Seq(Letters)), apart : BOOLEAN] : ~w.apart => w.words # <<>>}

Spelling(t) == FoldLeft(Spell, Unread, t)

LEMMA UnreadType == Unread \in Spellings
<1>1. <<>> \in Seq(Seq(Letters))
  OBVIOUS
<1> QED
  BY <1>1 DEF Unread, Spellings

LEMMA SpellType ==
  ASSUME NEW w \in Spellings, NEW r
  PROVE  Spell(w, r) \in Spellings
<1> DEFINE D == Seq(Letters)
<1>1. /\ w.words \in Seq(D) /\ w.apart \in BOOLEAN /\ (~w.apart => w.words # <<>>)
      /\ w = [words |-> w.words, apart |-> w.apart]
  BY DEF Spellings
<1>2. ASSUME NEW u \in Seq(D), NEW b \in BOOLEAN, ~b => u # <<>>
      PROVE  [words |-> u, apart |-> b] \in Spellings
  BY <1>2 DEF Spellings
<1>3. CASE r \notin Letters
  <2>1. Spell(w, r) = [words |-> w.words, apart |-> TRUE]
    BY <1>1, <1>3 DEF Spell
  <2> QED
    BY <1>1, <1>2, <2>1
<1>4. CASE r \in Letters /\ w.apart
  <2>1. <<r>> \in D
    BY <1>4
  <2> HIDE DEF D
  <2>2. Append(w.words, <<r>>) \in Seq(D) /\ Append(w.words, <<r>>) # <<>>
    BY <1>1, <2>1, AppendProperties
  <2>3. Spell(w, r) = [words |-> Append(w.words, <<r>>), apart |-> FALSE]
    BY <1>4 DEF Spell
  <2> QED
    BY <1>2, <2>2, <2>3
<1>5. CASE r \in Letters /\ ~w.apart
  <2> DEFINE u == Append(Front(w.words), Append(Last(w.words), r))
  <2>1. Last(w.words) \in D /\ Front(w.words) \in Seq(D)
    <3> HIDE DEF D
    <3>1. Len(w.words) \in 1..Len(w.words)
      <4>1. Len(w.words) \in Nat \ {0}
        BY <1>1, <1>5, EmptySeq
      <4> QED
        BY <4>1
    <3> QED
      BY <1>1, <3>1, FrontType DEF Last
  <2>2. Append(Last(w.words), r) \in D
    BY <1>5, <2>1
  <2> HIDE DEF D
  <2>3. u \in Seq(D) /\ u # <<>>
    BY <2>1, <2>2, AppendProperties
  <2>4. Spell(w, r) = [words |-> u, apart |-> FALSE]
    BY <1>1, <1>5 DEF Spell
  <2> HIDE DEF u
  <2> QED
    BY <1>2, <2>3, <2>4
<1> QED
  BY <1>1, <1>3, <1>4, <1>5

\* Reading a text is a loop over its runes.
LEMMA SpellLoops ==
  ASSUME NEW E, NEW t \in Seq(E)
  PROVE  \E h : /\ IsLoop(h, Len(t), Spellings, Unread,
                          [p \in Spellings \X (1..Len(t)) |-> Spell(p[1], t[p[2]])])
                /\ Spelling(t) = h[Len(t)]
<1> DEFINE n    == Len(t)
           C    == Spellings
           base == Unread
           step == [p \in C \X (1..n) |-> Spell(p[1], t[p[2]])]
           Eq(g) == g = [S \in SUBSET DOMAIN t |->
                           IF S = {} THEN base ELSE Spell(g[S \ {Max(S)}], t[Max(S)])]
           f    == CHOOSE g : Eq(g)
<1>1. n \in Nat /\ DOMAIN t = 1..n
  OBVIOUS
<1>2. base \in C
  BY UnreadType
<1>3. Spelling(t) = f[DOMAIN t]
  BY DEF FoldLeft, MapThenFoldSet, Spelling
<1>4. \A p \in C, i \in 1..n : Spell(p, t[i]) \in C
  BY SpellType
<1> HIDE DEF C, base
<1>5. /\ step \in [C \X (1..n) -> C]
      /\ \A p \in C, i \in 1..n : step[<<p, i>>] = Spell(p, t[i])
  <2> HIDE DEF n
  <2> QED
    BY <1>4
<1> HIDE DEF step, n
<1>6. PICK g : IsFoldMap(g, n, C, base, step)
  BY <1>1, <1>2, <1>5, FoldMap
<1>7. Eq(g)
  <2>1. g \in [SUBSET (1..n) -> C]
    BY <1>6 DEF IsFoldMap
  <2>2. ASSUME NEW S \in SUBSET (1..n)
        PROVE  g[S] = IF S = {} THEN base ELSE Spell(g[S \ {Max(S)}], t[Max(S)])
    <3>1. S # {} => Max(S) \in 1..n
      BY <1>1, LastOf
    <3>2. g[S] = IF S = {} THEN base ELSE step[<<g[S \ {Max(S)}], Max(S)>>]
      BY <1>6 DEF IsFoldMap
    <3>3. S # {} => step[<<g[S \ {Max(S)}], Max(S)>>] = Spell(g[S \ {Max(S)}], t[Max(S)])
      BY <1>5, <2>1, <3>1
    <3> QED
      BY <3>2, <3>3
  <2> QED
    BY <1>1, <2>1, <2>2
<1>8. Eq(f)
  BY <1>7, Zenon
<1> HIDE DEF f
<1>9. f[{}] = base
  BY <1>8
<1>10. ASSUME NEW S \in SUBSET (1..n), S # {}, f[S \ {Max(S)}] \in C
       PROVE  f[S] = step[<<f[S \ {Max(S)}], Max(S)>>]
  <2>1. Max(S) \in 1..n
    BY <1>1, <1>10, LastOf
  <2>2. f[S] = Spell(f[S \ {Max(S)}], t[Max(S)])
    BY <1>1, <1>8, <1>10
  <2> QED
    BY <1>5, <1>10, <2>1, <2>2
<1> DEFINE h == [k \in 0..n |-> f[1..k]]
<1>11. IsLoop(h, n, C, base, step)
  BY <1>1, <1>2, <1>5, <1>9, <1>10, FoldLoops
<1>12. h[n] = f[DOMAIN t]
  BY <1>1
<1> HIDE DEF h
<1>13. IsLoop(h, n, C, base, step) /\ Spelling(t) = h[n]
  BY <1>3, <1>11, <1>12
<1> QED
  BY <1>13 DEF n, C, base, step

LEMMA SpellingNone == Spelling(<<>>) = Unread
<1>1. <<>> \in Seq({}) /\ Len(<<>>) = 0
  OBVIOUS
<1>2. PICK h : /\ IsLoop(h, Len(<<>>), Spellings, Unread,
                         [p \in Spellings \X (1..Len(<<>>)) |-> Spell(p[1], (<<>>)[p[2]])])
               /\ Spelling(<<>>) = h[Len(<<>>)]
  BY <1>1, SpellLoops
<1> QED
  BY <1>1, <1>2 DEF IsLoop

\* One rune more is one step more.
LEMMA SpellingAppend ==
  ASSUME NEW E, NEW t \in Seq(E), NEW r \in E
  PROVE  /\ Spelling(t) \in Spellings
         /\ Spelling(Append(t, r)) = Spell(Spelling(t), r)
<1> DEFINE n  == Len(t)
           u  == Append(t, r)
           s1 == [p \in Spellings \X (1..Len(t)) |-> Spell(p[1], t[p[2]])]
           s2 == [p \in Spellings \X (1..Len(u)) |-> Spell(p[1], u[p[2]])]
<1>1. n \in Nat /\ u \in Seq(E) /\ Len(u) = n + 1 /\ u[n + 1] = r /\ \A i \in 1..n : u[i] = t[i]
  BY AppendProperties
<1> HIDE DEF u
<1>2. PICK h : IsLoop(h, n, Spellings, Unread, s1) /\ Spelling(t) = h[n]
  BY SpellLoops
<1>3. PICK g : IsLoop(g, Len(u), Spellings, Unread, s2) /\ Spelling(u) = g[Len(u)]
  BY <1>1, SpellLoops
<1>4. \A d \in Spellings, i \in 1..n : s1[<<d, i>>] = s2[<<d, i>>]
  BY <1>1
<1>5. \A d \in Spellings : s2[<<d, n + 1>>] = Spell(d, r)
  BY <1>1
<1> HIDE DEF s1, s2, n
<1>6. h[n] = g[n]
  BY <1>1, <1>2, <1>3, <1>4, LoopsAgree
<1>7. n + 1 \in 1..Len(u) /\ (n + 1) - 1 = n /\ n \in 0..n
  BY <1>1
<1>8. h[n] \in Spellings /\ g[n + 1] = s2[<<g[n], n + 1>>]
  BY <1>2, <1>3, <1>7 DEF IsLoop
<1>9. Spelling(u) = Spell(Spelling(t), r)
  BY <1>1, <1>2, <1>3, <1>5, <1>6, <1>8
<1> QED
  BY <1>2, <1>8, <1>9 DEF u

\* u is v, or v cut off within a word.
BeginsWith(b, a) == Len(a) <= Len(b) /\ \A j \in 1..Len(a) : b[j] = a[j]
Cut(u, v) ==
  /\ Len(u) <= Len(v)
  /\ \A i \in 1..Len(u) : i < Len(u) => v[i] = u[i]
  /\ \A i \in 1..Len(u) : i = Len(u) => BeginsWith(v[i], u[i])

\* Nothing cut is a cut.
LEMMA CutSelf ==
  ASSUME NEW D, NEW u \in Seq(Seq(D))
  PROVE  Cut(u, u)
<1>1. \A i \in 1..Len(u) : u[i] \in Seq(D)
  OBVIOUS
<1>2. \A a \in Seq(D) : BeginsWith(a, a)
  BY DEF BeginsWith
<1>3. Len(u) \in Nat
  OBVIOUS
<1> QED
  BY <1>1, <1>2, <1>3 DEF Cut

\* What is cut of a cut is a cut.
LEMMA CutFurther ==
  ASSUME NEW D, NEW u \in Seq(Seq(D)), NEW v \in Seq(Seq(D)), NEW x \in Seq(Seq(D)),
         Cut(u, v), Cut(v, x)
  PROVE  Cut(u, x)
<1>1. Len(u) \in Nat /\ Len(v) \in Nat /\ Len(x) \in Nat /\ Len(u) <= Len(v) /\ Len(v) <= Len(x)
  BY DEF Cut
<1>2. ASSUME NEW a \in Seq(D), NEW b \in Seq(D), NEW c \in Seq(D),
             BeginsWith(b, a), BeginsWith(c, b)
      PROVE  BeginsWith(c, a)
  <2>1. Len(a) \in Nat /\ Len(b) \in Nat /\ Len(c) \in Nat
    OBVIOUS
  <2> QED
    BY <1>2, <2>1 DEF BeginsWith
<1>3. ASSUME NEW i \in 1..Len(u), i < Len(u) PROVE x[i] = u[i]
  <2>1. i \in 1..Len(v) /\ i < Len(v)
    BY <1>1, <1>3
  <2>2. v[i] = u[i] /\ x[i] = v[i]
    BY <1>3, <2>1 DEF Cut
  <2> QED
    BY <2>2
<1>4. ASSUME NEW i \in 1..Len(u), i = Len(u) PROVE BeginsWith(x[i], u[i])
  <2>1. i \in 1..Len(v) /\ i \in 1..Len(x)
    BY <1>1
  <2>2. BeginsWith(v[i], u[i])
    BY <1>4 DEF Cut
  <2>3. u[i] \in Seq(D) /\ v[i] \in Seq(D) /\ x[i] \in Seq(D)
    BY <2>1
  <2>4. CASE i < Len(v)
    <3>1. x[i] = v[i]
      BY <2>1, <2>4 DEF Cut
    <3> QED
      BY <2>2, <3>1
  <2>5. CASE i = Len(v)
    <3>1. BeginsWith(x[i], v[i])
      BY <2>1, <2>5 DEF Cut
    <3> QED
      BY <1>2, <2>2, <2>3, <3>1
  <2> QED
    BY <1>1, <2>1, <2>4, <2>5
<1> QED
  BY <1>1, <1>3, <1>4 DEF Cut

\* One rune more does not take back a word.
LEMMA SpellGrows ==
  ASSUME NEW w \in Spellings, NEW r
  PROVE  Cut(w.words, Spell(w, r).words)
<1> DEFINE D == Seq(Letters)
           u == w.words
           n == Len(u)
<1>1. u \in Seq(D) /\ w.apart \in BOOLEAN /\ (~w.apart => u # <<>>)
  BY DEF Spellings
<1>2. n \in Nat /\ \A i \in 1..n : u[i] \in D
  BY <1>1
<1>3. \A a \in D : BeginsWith(a, a)
  BY DEF BeginsWith
<1>4. CASE r \notin Letters
  <2>1. Spell(w, r).words = u
    BY <1>4 DEF Spell, Spellings
  <2> QED
    BY <1>1, <2>1, CutSelf
<1>5. CASE r \in Letters /\ w.apart
  <2> DEFINE v == Append(u, <<r>>)
  <2>1. Spell(w, r).words = v
    BY <1>5 DEF Spell
  <2>2. <<r>> \in D
    BY <1>5
  <2> HIDE DEF D, u
  <2>3. Len(v) = n + 1 /\ \A i \in 1..n : v[i] = u[i]
    BY <1>1, <2>2, AppendProperties
  <2> HIDE DEF v, n
  <2>4. Cut(u, v)
    BY <1>2, <1>3, <2>3 DEF Cut, n
  <2> QED
    BY <2>1, <2>4 DEF u
<1>6. CASE r \in Letters /\ ~w.apart
  <2> DEFINE a == Append(Last(u), r)
             v == Append(Front(u), a)
  <2>1. Spell(w, r).words = v
    BY <1>6 DEF Spell, Spellings
  <2> HIDE DEF u
  <2>2. n \in Nat \ {0}
    <3> HIDE DEF D
    <3> QED
      BY <1>1, <1>6, EmptySeq
  <2>3. Last(u) = u[n] /\ u[n] \in D
    BY <1>2, <2>2 DEF Last
  <2>4. a \in D /\ BeginsWith(a, u[n])
    <3>1. Append(u[n], r) \in D /\ BeginsWith(Append(u[n], r), u[n])
      <4> DEFINE b == u[n]
      <4> HIDE DEF b
      <4>1. b \in D
        BY <2>3 DEF b
      <4>2. Append(b, r) \in D /\ BeginsWith(Append(b, r), b)
        BY <1>6, <4>1 DEF BeginsWith
      <4> QED
        BY <4>2 DEF b
    <3> QED
      BY <2>3, <3>1
  <2> HIDE DEF a, D
  <2>5. Front(u) \in Seq(D) /\ Len(Front(u)) = n - 1 /\ \A i \in 1..(n - 1) : Front(u)[i] = u[i]
    <3>1. Front(u) = SubSeq(u, 1, n - 1) /\ n - 1 \in 0..n
      BY <1>2, <2>2 DEF Front
    <3> DEFINE b == SubSeq(u, 1, n - 1)
    <3>2. /\ b \in Seq(D) /\ Len(b) = n - 1
          /\ \A i \in 1..(n - 1) : b[i] = u[i]
      <4>1. \A i \in 1..(n - 1) : u[i] \in Seq(Letters) /\ 1 + i - 1 = i
        BY <1>2, <2>2 DEF D
      <4>2. /\ b \in Seq(Seq(Letters))
            /\ Len(b) = IF 1 <= n - 1 THEN (n - 1) - 1 + 1 ELSE 0
            /\ \A i \in 1..((n - 1) - 1 + 1) : b[i] = u[1 + i - 1]
        <5> HIDE DEF n
        <5> QED
          BY <2>2, <4>1, SubSeqProperties
      <4> HIDE DEF b, n
      <4> QED
        BY <2>2, <4>1, <4>2 DEF D
    <3> HIDE DEF b
    <3> QED
      BY <3>1, <3>2 DEF b
  <2>6. /\ Len(v) = n /\ v[n] = a
        /\ \A i \in 1..n : i < n => v[i] = u[i]
    <3> DEFINE b == Front(u)
    <3> HIDE DEF b
    <3>1. b \in Seq(D) /\ Len(b) = n - 1 /\ \A i \in 1..(n - 1) : b[i] = u[i]
      BY <2>5 DEF b
    <3>2. /\ Len(Append(b, a)) = n /\ Append(b, a)[n] = a
          /\ \A i \in 1..(n - 1) : Append(b, a)[i] = u[i]
      BY <2>2, <2>4, <3>1, AppendProperties
    <3>3. \A i \in 1..n : i < n => i \in 1..(n - 1)
      BY <2>2
    <3> DEFINE q == Append(b, a)
    <3> HIDE DEF q
    <3>4. v = q
      BY DEF b, q
    <3>5. Len(q) = n /\ q[n] = a /\ \A i \in 1..n : i < n => q[i] = u[i]
      BY <3>2, <3>3 DEF q
    <3> QED
      BY <3>4, <3>5
  <2> HIDE DEF v, n
  <2>7. Cut(u, v)
    BY <2>2, <2>4, <2>6 DEF Cut, n
  <2> QED
    BY <2>1, <2>7 DEF u
<1> QED
  BY <1>4, <1>5, <1>6

Signs  == Letters \union {"space"}
Drafts == [text : Seq(Signs), space : BOOLEAN, full : BOOLEAN]
Draft0 == [text |-> <<>>, space |-> FALSE, full |-> FALSE]
Draft(s) == FoldLeft(sanitizeRune, Draft0, s)

\* A rune keeps a draft a draft.
LEMMA DraftType ==
  ASSUME NEW d \in Drafts, NEW r \in Runes
  PROVE  sanitizeRune(d, r) \in Drafts
<1>1. d.text \in Seq(Signs) /\ d.space \in BOOLEAN /\ d.full \in BOOLEAN
  BY DEF Drafts
<1>2. d = [text |-> d.text, space |-> d.space, full |-> d.full]
  BY DEF Drafts
<1>3. \A t \in Seq(Signs), b \in BOOLEAN, f \in BOOLEAN :
        [text |-> t, space |-> b, full |-> f] \in Drafts
  BY DEF Drafts
<1>4. "space" \in Signs /\ (r # "control" => r \in Signs)
  BY DEF Signs, Runes
<1>5. Append(d.text, "space") \in Seq(Signs) /\ (r # "control" => Append(d.text, r) \in Seq(Signs))
  BY <1>1, <1>4
<1>6. \/ sanitizeRune(d, r) = d
      \/ sanitizeRune(d, r) = [text |-> Append(d.text, "space"), space |-> TRUE, full |-> d.full]
      \/ sanitizeRune(d, r) = [text |-> d.text, space |-> d.space, full |-> TRUE]
      \/ /\ r # "control"
         /\ sanitizeRune(d, r) = [text |-> Append(d.text, r), space |-> FALSE, full |-> d.full]
  BY <1>2 DEF sanitizeRune
<1> QED
  BY <1>1, <1>3, <1>5, <1>6

\* Writing the sanitized text is a loop over the server's runes.
LEMMA DraftLoops ==
  ASSUME NEW t \in Seq(Runes)
  PROVE  \E h : /\ IsLoop(h, Len(t), Drafts, Draft0,
                          [p \in Drafts \X (1..Len(t)) |-> sanitizeRune(p[1], t[p[2]])])
                /\ Draft(t) = h[Len(t)]
<1> DEFINE n    == Len(t)
           C    == Drafts
           base == Draft0
           step == [p \in C \X (1..n) |-> sanitizeRune(p[1], t[p[2]])]
           Eq(g) == g = [S \in SUBSET DOMAIN t |->
                           IF S = {} THEN base ELSE sanitizeRune(g[S \ {Max(S)}], t[Max(S)])]
           f    == CHOOSE g : Eq(g)
<1>1. n \in Nat /\ DOMAIN t = 1..n
  OBVIOUS
<1>2. base \in C
  <2>1. <<>> \in Seq(Signs)
    OBVIOUS
  <2> QED
    BY <2>1 DEF Drafts, Draft0
<1>3. Draft(t) = f[DOMAIN t]
  BY DEF FoldLeft, MapThenFoldSet, Draft
<1>4. \A p \in C, i \in 1..n : sanitizeRune(p, t[i]) \in C
  <2>1. \A i \in 1..n : t[i] \in Runes
    OBVIOUS
  <2> QED
    BY <2>1, DraftType
<1> HIDE DEF C, base
<1>5. /\ step \in [C \X (1..n) -> C]
      /\ \A p \in C, i \in 1..n : step[<<p, i>>] = sanitizeRune(p, t[i])
  <2> HIDE DEF n
  <2> QED
    BY <1>4
<1> HIDE DEF step, n
<1>6. PICK g : IsFoldMap(g, n, C, base, step)
  BY <1>1, <1>2, <1>5, FoldMap
<1>7. Eq(g)
  <2>1. g \in [SUBSET (1..n) -> C]
    BY <1>6 DEF IsFoldMap
  <2>2. ASSUME NEW S \in SUBSET (1..n)
        PROVE  g[S] = IF S = {} THEN base ELSE sanitizeRune(g[S \ {Max(S)}], t[Max(S)])
    <3>1. S # {} => Max(S) \in 1..n
      BY <1>1, LastOf
    <3>2. g[S] = IF S = {} THEN base ELSE step[<<g[S \ {Max(S)}], Max(S)>>]
      BY <1>6 DEF IsFoldMap
    <3>3. S # {} => step[<<g[S \ {Max(S)}], Max(S)>>] = sanitizeRune(g[S \ {Max(S)}], t[Max(S)])
      BY <1>5, <2>1, <3>1
    <3> QED
      BY <3>2, <3>3
  <2> QED
    BY <1>1, <2>1, <2>2
<1>8. Eq(f)
  BY <1>7, Zenon
<1> HIDE DEF f
<1>9. f[{}] = base
  BY <1>8
<1>10. ASSUME NEW S \in SUBSET (1..n), S # {}, f[S \ {Max(S)}] \in C
       PROVE  f[S] = step[<<f[S \ {Max(S)}], Max(S)>>]
  <2>1. Max(S) \in 1..n
    BY <1>1, <1>10, LastOf
  <2>2. f[S] = sanitizeRune(f[S \ {Max(S)}], t[Max(S)])
    BY <1>1, <1>8, <1>10
  <2> QED
    BY <1>5, <1>10, <2>1, <2>2
<1> DEFINE h == [k \in 0..n |-> f[1..k]]
<1>11. IsLoop(h, n, C, base, step)
  BY <1>1, <1>2, <1>5, <1>9, <1>10, FoldLoops
<1>12. h[n] = f[DOMAIN t]
  BY <1>1
<1> HIDE DEF h
<1>13. IsLoop(h, n, C, base, step) /\ Draft(t) = h[n]
  BY <1>3, <1>11, <1>12
<1> QED
  BY <1>13 DEF n, C, base, step

(* What the text written so far is of what was read. *)

Kept(d, w) ==
  /\ d \in Drafts
  /\ Len(d.text) <= maxErrorFieldRunes + 1
  /\ Len(d.text) = maxErrorFieldRunes + 1 =>
       d.text[Len(d.text)] = "space" /\ (d.full \/ d.space)
  /\ ~d.full => Spelling(d.text) = w /\ (d.space => w.apart)
  /\ d.full => Cut(Spelling(d.text).words, w.words)

LEMMA KeptNone == Kept(Draft0, Unread)
<1>1. /\ Draft0 \in Drafts /\ Draft0.text = <<>> /\ Len(Draft0.text) = 0
      /\ ~Draft0.full /\ ~Draft0.space
  BY DEF Draft0, Drafts
<1>2. maxErrorFieldRunes \in Nat \ {0}
  BY ResponseAssumption
<1> QED
  BY <1>1, <1>2, SpellingNone DEF Kept

\* A control parts two words as a space does, and the ellipsis is no word.
LEMMA SpellBreaks ==
  ASSUME NEW w \in Spellings
  PROVE  /\ Spell(w, "control") = Spell(w, "space") /\ Spell(w, "control").apart
         /\ w.apart => Spell(w, "control") = w /\ Spell(w, "space") = w
         /\ Spell(w, "space").words = w.words /\ Spell(w, "...").words = w.words
<1>1. "control" \notin Letters /\ "space" \notin Letters /\ "..." \notin Letters
  BY ResponseAssumption
<1>2. w = [words |-> w.words, apart |-> w.apart] /\ w.apart \in BOOLEAN
  BY DEF Spellings
<1>3. \A r \in {"control", "space", "..."} : Spell(w, r) = [words |-> w.words, apart |-> TRUE]
  BY <1>1, <1>2 DEF Spell
<1> DEFINE b == [words |-> w.words, apart |-> TRUE]
<1>4. b.words = w.words /\ b.apart /\ (w.apart => b = w)
  BY <1>2
<1>5. Spell(w, "control") = b /\ Spell(w, "space") = b /\ Spell(w, "...") = b
  BY <1>3
<1> HIDE DEF b
<1> QED
  BY <1>4, <1>5

\* A rune read and written, dropped or past the bound keeps the relation.
LEMMA KeptGrows ==
  ASSUME NEW d, NEW w \in Spellings, NEW r \in Runes, Kept(d, w)
  PROVE  Kept(sanitizeRune(d, r), Spell(w, r))
<1> DEFINE max == maxErrorFieldRunes
           t   == d.text
           x   == Spell(w, r)
<1>1. /\ d \in Drafts /\ t \in Seq(Signs) /\ d.space \in BOOLEAN /\ d.full \in BOOLEAN
      /\ d = [text |-> t, space |-> d.space, full |-> d.full]
  BY DEF Kept, Drafts
<1>2. max \in Nat \ {0} /\ Len(t) \in Nat
  BY <1>1, ResponseAssumption
<1>3. sanitizeRune(d, r) \in Drafts
  BY <1>1, DraftType
<1>4. x \in Spellings /\ Cut(w.words, x.words) /\ Spelling(t) \in Spellings
  <2>1. "space" \in Signs
    BY DEF Signs
  <2>2. Spelling(t) \in Spellings
    BY <1>1, <2>1, SpellingAppend
  <2> QED
    BY <2>2, SpellType, SpellGrows
<1>5. ASSUME d.full \/ (Len(t) >= max /\ r # "control")
      PROVE  Kept(sanitizeRune(d, r), x)
  <2> DEFINE u == Spelling(t).words
  <2>1. /\ u \in Seq(Seq(Letters)) /\ w.words \in Seq(Seq(Letters))
        /\ x.words \in Seq(Seq(Letters))
    BY <1>4 DEF Spellings
  <2>2. Cut(u, w.words)
    <3>1. CASE d.full
      BY <3>1 DEF Kept
    <3>2. CASE ~d.full
      <4>1. u = w.words
        BY <3>2 DEF Kept
      <4> QED
        BY <2>1, <4>1, CutSelf
    <3> QED
      BY <3>1, <3>2
  <2>3. Cut(u, x.words)
    <3> HIDE DEF u, x
    <3> QED
      BY <1>4, <2>1, <2>2, CutFurther
  <2>4. sanitizeRune(d, r) = [text |-> t, space |-> d.space, full |-> TRUE]
    BY <1>1, <1>5 DEF sanitizeRune
  <2>5. Len(t) <= max + 1 /\ (Len(t) = max + 1 => t[Len(t)] = "space")
    BY DEF Kept
  <2> DEFINE e == sanitizeRune(d, r)
  <2>6. e.text = t /\ e.full /\ e \in Drafts
    BY <1>3, <2>4
  <2> HIDE DEF e, x
  <2>7. Kept(e, x)
    BY <2>3, <2>5, <2>6 DEF Kept
  <2> QED
    BY <2>7 DEF e
<1>6. ASSUME ~d.full, Len(t) < max \/ r = "control"
      PROVE  Kept(sanitizeRune(d, r), x)
  <2>1. Spelling(t) = w /\ (d.space => w.apart)
    BY <1>6 DEF Kept
  <2>2. CASE r = "control" /\ (d.space \/ t = <<>>)
    <3>1. w.apart
      <4>1. t = <<>> => w = Unread
        BY <2>1, SpellingNone
      <4> QED
        BY <2>1, <2>2, <4>1 DEF Unread
    <3>2. x = w
      BY <2>2, <3>1, SpellBreaks
    <3>3. sanitizeRune(d, r) = d
      BY <1>6, <2>2 DEF sanitizeRune
    <3> QED
      BY <3>2, <3>3
  <2>3. CASE r = "control" /\ ~(d.space \/ t = <<>>)
    <3> DEFINE y == "space"
               e == [text |-> Append(t, y), space |-> TRUE, full |-> FALSE]
    <3>1. sanitizeRune(d, r) = e
      BY <1>1, <1>6, <2>3 DEF sanitizeRune
    <3>2. x = Spell(w, y) /\ x.apart
      BY <2>3, SpellBreaks
    <3>3. Len(t) <= max
      BY <1>2, <1>6, <2>3 DEF Kept
    <3>4. y \in Signs
      BY DEF Signs
    <3> HIDE DEF y, x
    <3>5. Len(Append(t, y)) = Len(t) + 1 /\ Append(t, y)[Len(t) + 1] = y
      BY <1>1, <3>4
    <3>6. Spelling(Append(t, y)) = x
      BY <1>1, <2>1, <3>2, <3>4, SpellingAppend
    <3>7. e.text = Append(t, y) /\ ~e.full /\ e.space /\ e \in Drafts
      BY <1>3, <3>1
    <3> HIDE DEF e
    <3>8. Len(e.text) = Len(t) + 1 /\ e.text[Len(t) + 1] = "space"
      BY <3>5, <3>7 DEF y
    <3>9. Kept(e, x)
      BY <1>2, <3>2, <3>3, <3>6, <3>7, <3>8 DEF Kept
    <3> QED
      BY <3>1, <3>9
  <2>4. CASE r # "control"
    <3> DEFINE e == [text |-> Append(t, r), space |-> FALSE, full |-> FALSE]
    <3>1. Len(t) < max
      BY <1>6, <2>4
    <3>2. sanitizeRune(d, r) = e
      <4>1. ~(Len(t) >= max) /\ ~d.full /\ r # "control"
        BY <1>2, <1>6, <2>4, <3>1
      <4>2. sanitizeRune(d, r) = [d EXCEPT !.text = Append(@, r), !.space = FALSE]
        BY <4>1 DEF sanitizeRune
      <4> QED
        BY <1>1, <4>1, <4>2
    <3>3. r \in Signs
      BY <2>4 DEF Signs, Runes
    <3>4. Len(Append(t, r)) = Len(t) + 1
      BY <1>1, <3>3
    <3>5. Spelling(Append(t, r)) = x
      BY <1>1, <2>1, <3>3, SpellingAppend
    <3>6. e.text = Append(t, r) /\ ~e.full /\ ~e.space /\ e \in Drafts
      BY <1>3, <3>2
    <3> HIDE DEF e, x
    <3>7. Len(e.text) = Len(t) + 1 /\ Len(t) + 1 < max + 1
      BY <1>2, <3>1, <3>4, <3>6
    <3>8. Kept(e, x)
      BY <1>2, <3>5, <3>6, <3>7 DEF Kept
    <3> QED
      BY <3>2, <3>8
  <2> QED
    BY <2>2, <2>3, <2>4
<1>7. \/ d.full \/ (Len(t) >= max /\ r # "control")
      \/ ~d.full /\ (Len(t) < max \/ r = "control")
  <2>1. Len(t) >= max \/ Len(t) < max
    BY <1>2
  <2> QED
    BY <2>1
<1> QED
  BY <1>5, <1>6, <1>7

\* What sanitizeForError wrote when it has read everything.
LEMMA DraftKeeps ==
  ASSUME NEW s \in Seq(Runes)
  PROVE  Kept(Draft(s), Spelling(s)) /\ Spelling(s) \in Spellings
<1> DEFINE n  == Len(s)
           s1 == [p \in Drafts \X (1..Len(s)) |-> sanitizeRune(p[1], s[p[2]])]
           s2 == [p \in Spellings \X (1..Len(s)) |-> Spell(p[1], s[p[2]])]
<1>1. n \in Nat /\ \A i \in 1..n : s[i] \in Runes
  OBVIOUS
<1>2. PICK h : IsLoop(h, n, Drafts, Draft0, s1) /\ Draft(s) = h[n]
  BY DraftLoops
<1>3. PICK g : IsLoop(g, n, Spellings, Unread, s2) /\ Spelling(s) = g[n]
  BY SpellLoops
<1>4. /\ \A d \in Drafts, i \in 1..n : s1[<<d, i>>] = sanitizeRune(d, s[i])
      /\ \A w \in Spellings, i \in 1..n : s2[<<w, i>>] = Spell(w, s[i])
  OBVIOUS
<1> HIDE DEF s1, s2, n
<1> DEFINE In == {k \in 0..n : Kept(h[k], g[k])}
<1>5. 0 \in In
  BY <1>1, <1>2, <1>3, KeptNone DEF IsLoop
<1>6. ASSUME NEW k \in 0..(n - 1), k \in In PROVE k + 1 \in In
  <2>1. k + 1 \in 1..n /\ k + 1 \in 0..n /\ k \in 0..n /\ (k + 1) - 1 = k
    BY <1>1
  <2>2. h[k] \in Drafts /\ g[k] \in Spellings
    BY <1>2, <1>3, <2>1 DEF IsLoop
  <2>3. h[k + 1] = s1[<<h[k], k + 1>>] /\ g[k + 1] = s2[<<g[k], k + 1>>]
    BY <1>2, <1>3, <2>1 DEF IsLoop
  <2>4. /\ h[k + 1] = sanitizeRune(h[k], s[k + 1]) /\ g[k + 1] = Spell(g[k], s[k + 1])
        /\ s[k + 1] \in Runes
    BY <1>1, <1>4, <2>1, <2>2, <2>3
  <2>5. Kept(h[k], g[k])
    BY <1>6
  <2>6. Kept(h[k + 1], g[k + 1])
    BY <2>2, <2>4, <2>5, KeptGrows
  <2> QED
    BY <2>1, <2>6
<1> HIDE DEF In
<1>7. 0..n \subseteq In
  BY <1>1, <1>5, <1>6, PrefixInduction
<1>8. n \in 0..n
  BY <1>1
<1>9. Kept(h[n], g[n])
  BY <1>7, <1>8 DEF In
<1>10. g[n] \in Spellings
  BY <1>3, <1>8 DEF IsLoop
<1> QED
  BY <1>2, <1>3, <1>9, <1>10

(* The spaces cut from both ends are between no words. *)

LEMMA SpacesSpellNone ==
  ASSUME NEW a \in Seq({"space"})
  PROVE  Spelling(a) = Unread
<1> DEFINE E == {"space"}
           T == {s \in Seq(E) : Spelling(s) = Unread}
<1>1. <<>> \in T
  BY SpellingNone
<1>2. ASSUME NEW s \in Seq(E), NEW e \in E, s \in T PROVE Append(s, e) \in T
  <2>1. Spelling(Append(s, e)) = Spell(Unread, "space")
    BY <1>2, SpellingAppend
  <2>2. Unread.apart
    BY DEF Unread
  <2>3. Spell(Unread, "space") = Unread
    BY <2>2, UnreadType, SpellBreaks
  <2> QED
    BY <2>1, <2>3
<1> HIDE DEF T
<1>3. Seq(E) \subseteq T
  BY <1>1, <1>2, AppendInduction
<1> QED
  BY <1>3 DEF T

LEMMA SpacesAhead ==
  ASSUME NEW a \in Seq({"space"}), NEW b \in Seq(Signs)
  PROVE  Spelling(a \o b) = Spelling(b)
<1> DEFINE T == {s \in Seq(Signs) : Spelling(a \o s) = Spelling(s)}
<1>1. a \in Seq(Signs)
  <2>1. {"space"} \subseteq Signs
    BY DEF Signs
  <2> QED
    BY <2>1, SeqWidens
<1>2. <<>> \in T
  <2>1. a \o <<>> = a
    BY <1>1
  <2> QED
    BY <2>1, SpacesSpellNone, SpellingNone
<1>3. ASSUME NEW s \in Seq(Signs), NEW e \in Signs, s \in T PROVE Append(s, e) \in T
  <2>1. a \o Append(s, e) = Append(a \o s, e) /\ a \o s \in Seq(Signs)
    BY <1>1
  <2>2. Spelling(Append(a \o s, e)) = Spell(Spelling(a \o s), e)
    BY <2>1, SpellingAppend
  <2>3. Spelling(Append(s, e)) = Spell(Spelling(s), e)
    BY SpellingAppend
  <2>4. Append(s, e) \in Seq(Signs)
    OBVIOUS
  <2> QED
    BY <1>3, <2>1, <2>2, <2>3, <2>4
<1> HIDE DEF T
<1>4. Seq(Signs) \subseteq T
  BY <1>2, <1>3, AppendInduction
<1> QED
  BY <1>4 DEF T

LEMMA SpacesBehind ==
  ASSUME NEW b \in Seq(Signs), NEW c \in Seq({"space"})
  PROVE  Spelling(b \o c).words = Spelling(b).words
<1> DEFINE E == {"space"}
           T == {s \in Seq(E) : Spelling(b \o s).words = Spelling(b).words}
<1>1. <<>> \in T
  <2>1. b \o <<>> = b
    OBVIOUS
  <2> QED
    BY <2>1
<1>2. ASSUME NEW s \in Seq(E), NEW e \in E, s \in T PROVE Append(s, e) \in T
  <2>1. s \in Seq(Signs) /\ e \in Signs /\ e = "space"
    <3>1. E \subseteq Signs
      BY DEF Signs
    <3> QED
      BY <3>1, SeqWidens
  <2>2. b \o Append(s, e) = Append(b \o s, e) /\ b \o s \in Seq(Signs)
    BY <2>1
  <2>3. /\ Spelling(Append(b \o s, e)) = Spell(Spelling(b \o s), "space")
        /\ Spelling(b \o s) \in Spellings
    BY <2>1, <2>2, SpellingAppend
  <2>4. Spell(Spelling(b \o s), "space").words = Spelling(b \o s).words
    BY <2>3, SpellBreaks
  <2>5. Append(s, e) \in Seq(E)
    OBVIOUS
  <2> QED
    BY <1>2, <2>2, <2>3, <2>4, <2>5
<1> HIDE DEF T
<1>3. Seq(E) \subseteq T
  BY <1>1, <1>2, AppendInduction
<1> QED
  BY <1>3 DEF T

Trimmed(m, t) ==
  /\ m \in Seq(Signs) /\ Len(m) <= Len(t)
  /\ Len(t) > 0 /\ t[Len(t)] = "space" => Len(m) < Len(t)
  /\ m # <<>> => m[1] # "space" /\ m[Len(m)] # "space"
  /\ Spelling(m).words = Spelling(t).words

\* TrimSpace takes the spaces off both ends and no word.
LEMMA TrimSpaceTrims ==
  ASSUME NEW t \in Seq(Signs)
  PROVE  Trimmed(TrimSpace(t), t)
<1> DEFINE n == Len(t)
           I == {i \in 1..n : t[i] # "space"}
           m == TrimSpace(t)
<1>1. n \in Nat /\ \A i \in 1..n : t[i] \in Signs
  OBVIOUS
<1>2. m = IF (IF I # {} THEN Min(I) ELSE 0) = 0 THEN <<>>
          ELSE SubSeq(t, IF I # {} THEN Min(I) ELSE 0, IF I # {} THEN Max(I) ELSE 0)
  BY DEF TrimSpace, SelectInSeq, SelectLastInSeq
<1>3. CASE I = {}
  <2>1. m = <<>>
    BY <1>2, <1>3
  <2>2. t \in Seq({"space"})
    <3>1. \A i \in 1..n : t[i] \in {"space"}
      BY <1>3
    <3>2. t = [i \in 1..n |-> t[i]]
      OBVIOUS
    <3> QED
      BY <1>1, <3>1, <3>2
  <2>3. Spelling(t) = Unread /\ Spelling(m) = Unread
    BY <2>1, <2>2, SpacesSpellNone, SpellingNone
  <2>4. m \in Seq(Signs) /\ Len(m) = 0
    BY <2>1
  <2> HIDE DEF m
  <2>5. Trimmed(m, t)
    BY <1>1, <2>1, <2>3, <2>4 DEF Trimmed
  <2> QED
    BY <2>5 DEF m
<1>4. CASE I # {}
  <2> DEFINE a == Min(I)
             z == Max(I)
  <2>1. a \in I /\ \A i \in I : a <= i
    <3>1. I \subseteq Nat /\ I # {}
      BY <1>4
    <3>2. PICK x \in I : \A y \in I : x <= y
      <4> HIDE DEF I
      <4> QED
        BY <3>1, LeastNumber
    <3> QED
      BY <3>2 DEF Min
  <2>2. z \in I /\ \A i \in I : i <= z
    <3>1. I \in SUBSET (0..n) /\ I # {}
      BY <1>4
    <3> HIDE DEF I
    <3> QED
      BY <1>1, <3>1, LastExists
  <2> HIDE DEF a, z
  <2>3. /\ a \in 1..n /\ z \in 1..n /\ a <= z /\ t[a] # "space" /\ t[z] # "space"
        /\ \A i \in 1..n : i < a \/ i > z => t[i] = "space"
    BY <1>1, <2>1, <2>2
  <2>4. m = SubSeq(t, a, z)
    <3>1. a # 0
      BY <2>3
    <3> QED
      BY <1>2, <1>4, <3>1 DEF a, z
  <2> HIDE DEF I
  <2> DEFINE p == SubSeq(t, 1, z)
             c == SubSeq(t, z + 1, n)
             f == SubSeq(p, 1, a - 1)
             q == SubSeq(p, a, z)
  <2>5. p \in Seq(Signs) /\ c \in Seq(Signs) /\ t = p \o c
    <3>1. z \in 0..n
      BY <2>3
    <3> QED
      BY <3>1, SplitAt
  <2>6. Len(p) = z /\ \A i \in 1..z : p[i] = t[i]
    <3>1. \A i \in 1..z : t[i] \in Signs /\ 1 + i - 1 = i
      BY <1>1, <2>3
    <3>2. /\ Len(p) = IF 1 <= z THEN z - 1 + 1 ELSE 0
          /\ \A i \in 1..(z - 1 + 1) : p[i] = t[1 + i - 1]
      BY <2>3, <3>1, SubSeqProperties
    <3> HIDE DEF p
    <3> QED
      BY <2>3, <3>1, <3>2
  <2>7. c \in Seq({"space"})
    <3>1. \A i \in (z + 1)..n : t[i] \in {"space"}
      BY <1>1, <2>3
    <3> QED
      BY <1>1, <2>3, <3>1, SubSeqProperties
  <2> HIDE DEF c
  <2>8. m = q /\ m \in Seq(Signs) /\ Len(m) = (z - a) + 1 /\ m[1] = t[a] /\ m[Len(m)] = t[z]
    <3> DEFINE l == (z - a) + 1
    <3>1. /\ \A i \in a..z : t[i] \in Signs /\ p[i] \in Signs
          /\ \A i \in 1..l : a + i - 1 \in 1..z
          /\ l \in Nat /\ l >= 1 /\ z - a + 1 = l
      BY <1>1, <2>3, <2>6
    <3>2. m \in Seq(Signs) /\ Len(m) = l /\ \A i \in 1..l : m[i] = t[a + i - 1]
      <4> HIDE DEF m, l
      <4>1. /\ SubSeq(t, a, z) \in Seq(Signs)
            /\ Len(SubSeq(t, a, z)) = IF a <= z THEN z - a + 1 ELSE 0
            /\ \A i \in 1..(z - a + 1) : SubSeq(t, a, z)[i] = t[a + i - 1]
        BY <2>3, <3>1, SubSeqProperties
      <4> QED
        BY <2>3, <2>4, <3>1, <4>1
    <3>3. q \in Seq(Signs) /\ Len(q) = l /\ \A i \in 1..l : q[i] = p[a + i - 1]
      <4> HIDE DEF p, l
      <4>1. /\ SubSeq(p, a, z) \in Seq(Signs)
            /\ Len(SubSeq(p, a, z)) = IF a <= z THEN z - a + 1 ELSE 0
            /\ \A i \in 1..(z - a + 1) : SubSeq(p, a, z)[i] = p[a + i - 1]
        BY <2>3, <3>1, SubSeqProperties
      <4> HIDE DEF q
      <4> QED
        BY <2>3, <3>1, <4>1 DEF q
    <3> HIDE DEF m, q, p
    <3>4. \A i \in 1..l : m[i] = q[i]
      BY <2>6, <3>1, <3>2, <3>3
    <3> HIDE DEF l
    <3>5. m = q
      BY <3>2, <3>3, <3>4, SeqEqual
    <3>6. 1 \in 1..l /\ l \in 1..l /\ a + 1 - 1 = a /\ a + l - 1 = z
      BY <2>3, <3>1 DEF l
    <3>7. m[1] = t[a] /\ m[l] = t[z]
      BY <3>2, <3>6
    <3> QED
      BY <3>2, <3>5, <3>7 DEF l
  <2>9. f \in Seq({"space"}) /\ p = f \o q
    <3>1. a - 1 \in 0..Len(p) /\ (a - 1) + 1 = a
      BY <2>3, <2>6
    <3>2. p = f \o q
      <4> HIDE DEF p
      <4>1. p = SubSeq(p, 1, a - 1) \o SubSeq(p, (a - 1) + 1, Len(p))
        BY <2>5, <3>1, SplitAt
      <4> QED
        BY <2>6, <3>1, <4>1
    <3>3. \A i \in 1..(a - 1) : p[i] \in {"space"}
      <4> HIDE DEF p
      <4> QED
        BY <1>1, <2>3, <2>6
    <3>4. f \in Seq({"space"})
      <4> HIDE DEF p
      <4> QED
        BY <2>3, <3>3, SubSeqProperties
    <3> QED
      BY <3>2, <3>4
  <2> HIDE DEF m, p, q, f
  <2>10. Spelling(m).words = Spelling(t).words
    <3>1. Spelling(p) = Spelling(q)
      BY <2>8, <2>9, SpacesAhead
    <3>2. Spelling(t).words = Spelling(p).words
      BY <2>5, <2>7, SpacesBehind
    <3> QED
      BY <2>8, <3>1, <3>2
  <2>11. Len(m) <= n /\ (t[n] = "space" => Len(m) < n)
    <3>1. t[n] = "space" => z # n
      BY <2>3
    <3> QED
      BY <1>1, <2>3, <2>8, <3>1
  <2>12. Trimmed(m, t)
    BY <2>3, <2>8, <2>10, <2>11 DEF Trimmed
  <2> QED
    BY <2>12 DEF m
<1> QED
  BY <1>3, <1>4

Sanitized(p, s) ==
  /\ Len(p) <= maxErrorFieldRunes + 1
  /\ Range(p) \subseteq Letters \union {"space", "..."}
  /\ p # <<>> => Head(p) # "space" /\ Last(p) # "space"
  /\ Words(p) \in Seq(Seq(Letters)) /\ Words(s) \in Seq(Seq(Letters))
  /\ "..." \notin Range(p) => Words(p) = Words(s)
  /\ Cut(Words(p), Words(s))

\* What sanitizeForError returns for a text of the server's.
LEMMA SanitizeIsSafe ==
  ASSUME NEW s \in Seq(Runes), NEW p, p = sanitizeForError(s)
  PROVE  Sanitized(p, s)
<1> DEFINE max == maxErrorFieldRunes
           d == Draft(s)
           t == d.text
           m == TrimSpace(t)
           w == Spelling(s)
<1>1. max \in Nat /\ "..." \notin Signs
  BY ResponseAssumption DEF Signs
<1>2. p = m \o (IF d.full THEN <<"...">> ELSE <<>>)
  BY DEF sanitizeForError, Draft, Draft0
<1>3. Kept(d, w) /\ w \in Spellings
  BY DraftKeeps
<1> HIDE DEF d, w
<1>4. d \in Drafts /\ t \in Seq(Signs) /\ d.full \in BOOLEAN
  BY <1>3 DEF Kept, Drafts
<1>5. Trimmed(m, t)
  BY <1>4, TrimSpaceTrims
<1>6. Words(s) = w.words /\ Words(p) = Spelling(p).words
  BY DEF Words, Spelling, w
<1> HIDE DEF m
<1>7. /\ m \in Seq(Signs) /\ Len(m) <= max
      /\ m # <<>> => m[1] # "space" /\ m[Len(m)] # "space"
      /\ Spelling(m).words = Spelling(t).words
  <2>1. Len(t) \in Nat /\ Len(m) \in Nat /\ Len(m) <= Len(t) /\ Len(t) <= max + 1
    BY <1>3, <1>4, <1>5 DEF Trimmed, Kept
  <2>2. Len(t) = max + 1 => Len(m) < Len(t)
    BY <1>1, <1>3, <1>5, <2>1 DEF Trimmed, Kept
  <2> QED
    BY <1>1, <1>5, <2>1, <2>2 DEF Trimmed
<1>8. Spelling(m) \in Spellings /\ Spelling(t) \in Spellings
  <2>1. "space" \in Signs
    BY DEF Signs
  <2> QED
    BY <1>4, <1>7, <2>1, SpellingAppend
<1>9. CASE ~d.full
  <2>1. p = m
    BY <1>2, <1>7, <1>9
  <2>2. Words(p) = Words(s)
    BY <1>3, <1>6, <1>7, <1>9, <2>1 DEF Kept
  <2>3. w.words \in Seq(Seq(Letters))
    BY <1>3 DEF Spellings
  <2>4. Cut(Words(p), Words(s))
    BY <1>6, <2>2, <2>3, CutSelf
  <2>5. Range(p) \subseteq Letters \union {"space", "..."}
    BY <1>7, <2>1 DEF Range, Signs
  <2>6. Len(p) <= max + 1
    BY <1>1, <1>7, <2>1
  <2>7. p # <<>> => Head(p) # "space" /\ Last(p) # "space"
    BY <1>7, <2>1 DEF Last
  <2> QED
    BY <1>6, <2>2, <2>3, <2>4, <2>5, <2>6, <2>7 DEF Sanitized
<1>10. CASE d.full
  <2> DEFINE E == Signs \union {"..."}
  <2>1. m \in Seq(E) /\ "..." \in E
    <3>1. Signs \subseteq E
      OBVIOUS
    <3> HIDE DEF E
    <3> QED
      BY <1>7, <3>1, SeqWidens DEF E
  <2>2. p = Append(m, "...")
    BY <1>2, <1>10, <2>1
  <2>3. /\ p \in Seq(E) /\ Len(p) = Len(m) + 1 /\ p[Len(m) + 1] = "..."
        /\ \A i \in 1..Len(m) : p[i] = m[i]
    <3> HIDE DEF E
    <3> QED
      BY <2>1, <2>2, AppendProperties
  <2>4. Spelling(p) = Spell(Spelling(m), "...")
    <3> HIDE DEF E
    <3> QED
      BY <2>1, <2>2, SpellingAppend
  <2>5. Words(p) = Spelling(t).words
    BY <1>6, <1>7, <1>8, <2>4, SpellBreaks
  <2>6. Cut(Words(p), Words(s))
    BY <1>3, <1>6, <1>10, <2>5 DEF Kept
  <2>7. w.words \in Seq(Seq(Letters)) /\ Words(p) \in Seq(Seq(Letters))
    BY <1>3, <1>8, <2>5 DEF Spellings
  <2>8. Range(p) \subseteq Letters \union {"space", "..."} /\ "..." \in Range(p)
    <3>1. Len(m) \in Nat /\ DOMAIN p = 1..(Len(m) + 1)
      BY <1>7, <2>3
    <3>2. \A i \in DOMAIN p : p[i] \in E
      BY <2>3
    <3> QED
      BY <2>3, <3>1, <3>2 DEF Range, Signs
  <2>9. Len(p) <= max + 1
    BY <1>1, <1>7, <2>3
  <2>10. Head(p) # "space" /\ Last(p) # "space"
    <3>1. Len(m) \in Nat /\ Head(p) = p[1] /\ Last(p) = p[Len(m) + 1]
      BY <1>7, <2>3 DEF Last
    <3>2. CASE m = <<>>
      BY <2>3, <3>1, <3>2
    <3>3. CASE m # <<>>
      <4>1. 1 \in 1..Len(m)
        BY <1>7, <3>1, <3>3, EmptySeq
      <4> QED
        BY <1>7, <2>3, <3>1, <3>3, <4>1
    <3> QED
      BY <3>2, <3>3
  <2> QED
    BY <1>6, <2>6, <2>7, <2>8, <2>9, <2>10 DEF Sanitized
<1> QED
  BY <1>4, <1>9, <1>10

\* A cut in the words of RenderedIsSafe.
LEMMA CutIsPrefix ==
  ASSUME NEW D, NEW u \in Seq(Seq(D)), NEW v \in Seq(Seq(D)), Cut(u, v), u # <<>>
  PROVE  IsPrefix(Front(u), v) /\ IsPrefix(Last(u), v[Len(u)])
<1> DEFINE n == Len(u)
           W == Seq(D)
<1>1. n \in Nat \ {0} /\ Len(v) \in Nat /\ n <= Len(v)
  <2>1. n \in Nat /\ n # 0
    <3> HIDE DEF W
    <3>1. u \in Seq(W)
      BY DEF W
    <3> QED
      BY <3>1, EmptySeq
  <2> QED
    BY <2>1 DEF Cut
<1>2. \A i \in 1..n : u[i] \in W /\ v[i] \in W
  BY <1>1
<1>3. ASSUME NEW E, NEW a \in Seq(E), NEW b \in Seq(E), BeginsWith(b, a)
      PROVE  IsPrefix(a, b)
  <2> DEFINE k == Len(a)
             c == SubSeq(b, 1, k)
  <2>1. k \in Nat /\ Len(b) \in Nat /\ k <= Len(b) /\ \A i \in 1..k : b[i] = a[i] /\ b[i] \in E
    BY <1>3 DEF BeginsWith
  <2>2. SubSeq(a, 1, k) = a
    BY SubSeqFull
  <2>3. c \in Seq(E) /\ Len(c) = k /\ \A i \in 1..k : c[i] = b[i]
    <3>1. \A i \in 1..k : b[i] \in E /\ 1 + i - 1 = i
      BY <2>1
    <3>2. /\ c \in Seq(E) /\ Len(c) = IF 1 <= k THEN k - 1 + 1 ELSE 0
          /\ \A i \in 1..(k - 1 + 1) : c[i] = b[1 + i - 1]
      BY <2>1, <3>1, SubSeqProperties
    <3> HIDE DEF c
    <3> QED
      BY <2>1, <3>1, <3>2
  <2> HIDE DEF c
  <2>4. c = a
    BY <2>1, <2>3, SeqEqual
  <2> QED
    BY <2>1, <2>2, <2>4 DEF IsPrefix, c
<1>4. IsPrefix(Last(u), v[n])
  <2>1. n \in 1..n /\ Last(u) = u[n]
    BY <1>1 DEF Last
  <2>2. BeginsWith(v[n], u[n])
    BY <1>1 DEF Cut
  <2>3. u[n] \in Seq(D) /\ v[n] \in Seq(D)
    BY <1>2, <2>1
  <2> HIDE DEF W, n
  <2> QED
    BY <1>3, <2>1, <2>2, <2>3
<1>5. IsPrefix(Front(u), v)
  <2> DEFINE f == Front(u)
  <2>1. f = SubSeq(u, 1, n - 1) /\ n - 1 \in Nat
    BY <1>1 DEF Front
  <2> HIDE DEF f, W
  <2>2. u \in Seq(W) /\ v \in Seq(W)
    BY DEF W
  <2>3. f \in Seq(W) /\ Len(f) = n - 1 /\ \A i \in 1..(n - 1) : f[i] = u[i]
    <3>1. \A i \in 1..(n - 1) : u[i] \in W /\ 1 + i - 1 = i
      BY <1>1, <1>2
    <3> DEFINE c == SubSeq(u, 1, n - 1)
    <3>2. /\ c \in Seq(W) /\ Len(c) = IF 1 <= n - 1 THEN (n - 1) - 1 + 1 ELSE 0
          /\ \A i \in 1..((n - 1) - 1 + 1) : c[i] = u[1 + i - 1]
      <4> HIDE DEF n
      <4> QED
        BY <1>1, <3>1, SubSeqProperties
    <3> HIDE DEF c, n
    <3>3. f = c
      BY <2>1 DEF c
    <3> QED
      BY <1>1, <3>1, <3>2, <3>3
  <2>4. BeginsWith(v, f)
    <3>1. \A i \in 1..(n - 1) : i \in 1..n /\ i < n
      BY <1>1
    <3>2. \A i \in 1..(n - 1) : v[i] = f[i]
      BY <2>3, <3>1 DEF Cut
    <3> HIDE DEF n
    <3> QED
      BY <1>1, <2>3, <3>2 DEF BeginsWith
  <2>5. IsPrefix(f, v)
    BY <1>3, <2>2, <2>3, <2>4
  <2> QED
    BY <2>5 DEF f
<1> QED
  BY <1>4, <1>5 DEF n

(* A call that failed tells what the server said, and renders that. *)

Rendering(b) == render(newAPIError(0, b))
Tells(o) == o.kind = "api" => IsBody(o.said) /\ o.rendered = Rendering(o.said)

LEMMA FailedTells ==
  ASSUME NEW status, NEW b, IsBody(b)
  PROVE  Tells(Failed(status, b))
BY DEF Tells, Failed, Rendering, render, newAPIError

\* A refusal, a redirect handed back or an answer read tells what the server said.
LEMMA RefusalsTell ==
  ASSUME Tells(outcome), Server
  PROVE  Tells(outcome')
<1>1. IsBody(Foreign) /\ \A b \in Replies.bodies : IsBody(b)
  <2>1. <<>> \in Seq(Runes)
    OBVIOUS
  <2>2. IsBody(Foreign)
    BY <2>1 DEF IsBody, Foreign, Envelope, NoField
  <2> QED
    BY <2>2, CallAssumption
<1>2. ASSUME NEW k, k # "api", Ends(k)
      PROVE  Tells(outcome')
  BY <1>2 DEF Ends, Tells
<1>3. ASSUME NEW s, NEW l, Redirect(s, l)
      PROVE  Tells(outcome')
  <2>1. classifyUnfollowedRedirect(client.url, l) # "api"
    BY DEF classifyUnfollowedRedirect
  <2>2. ASSUME NEW next, AskPolicy(next)
        PROVE  Ends("unsafe") \/ UNCHANGED outcome
    BY <2>2 DEF AskPolicy, Follow, RefuseRedirect
  <2>3. \/ Ends(classifyUnfollowedRedirect(client.url, l)) \/ Ends("transport")
        \/ Ends("unsafe") \/ UNCHANGED outcome \/ outcome' = Failed(s, Foreign)
    BY <1>3, <2>2 DEF Redirect, Handed
  <2> QED
    BY <1>1, <1>2, <2>1, <2>3, FailedTells
<1>4. ASSUME NEW s, NEW b \in Replies.bodies, Refused(s, b)
      PROVE  Tells(outcome')
  BY <1>1, <1>4, FailedTells DEF Refused
<1>5. CASE Succeeds
  BY <1>2, <1>5 DEF Succeeds
<1>6. ASSUME NEW b, ReadAnswer(b)
      PROVE  Tells(outcome')
  <2>1. outcome'.kind = Decoded(b) /\ Decoded(b) # "api"
    BY <1>6 DEF ReadAnswer, Decoded
  <2> QED
    BY <2>1 DEF Tells
<1> QED
  BY <1>3, <1>4, <1>5, <1>6 DEF Server

LEMMA StepTells ==
  ASSUME Tells(outcome), [TransferNext]_allvars
  PROVE  Tells(outcome')
<1>1. ASSUME NEW k, k # "api", Ends(k)
      PROVE  Tells(outcome')
  BY <1>1 DEF Ends, Tells
<1>2. ASSUME NEW o, Call(o)
      PROVE  Tells(outcome')
  <2>1. Unsent(o) # "api"
    BY Zenon DEF Unsent
  <2>2. Ends(Unsent(o)) \/ UNCHANGED outcome
    BY <1>2 DEF Call, Send
  <2> QED
    BY <1>1, <2>1, <2>2
<1>3. CASE ConnectionFails \/ Timeout \/ BodyFails
  BY <1>1, <1>3 DEF ConnectionFails, Timeout, TimerFires, HeaderTimerFires, BodyFails
<1>4. ASSUME NEW m, MakeClient(m)
      PROVE  Tells(outcome')
  BY <1>4 DEF MakeClient, call
<1>5. CASE CopyByte \/ FileEnds \/ Probe
  <2>1. \/ Ends("writeFailed") \/ Ends("readFailed") \/ Ends("ok") \/ Ends("truncated")
        \/ UNCHANGED outcome
    BY <1>5 DEF CopyByte, FileEnds, Probe
  <2> QED
    BY <1>1, <2>1
<1>6. ASSUME NEW f, FileArrives(f)
      PROVE  Tells(outcome')
  BY <1>6 DEF FileArrives
<1>7. TakeChunk \/ BodyEnds \/ WriterStep \/ UNCHANGED allvars => UNCHANGED outcome
  BY DEF TakeChunk, BodyEnds, WriterStep, WriteChunk, ContentEnds, ContentFails, PipeClosed,
         CloseWriter, allvars, callvars, call
<1> QED
  BY <1>2, <1>3, <1>4, <1>5, <1>6, <1>7, RefusalsTell
     DEF TransferNext, CallStep, OtherCall, StartUpload

LEMMA TellsIsSafe ==
  ASSUME Tells(outcome)
  PROVE  RenderedIsSafe
<1> SUFFICES ASSUME outcome.kind = "api"
             PROVE  RenderedIsSafe
  BY DEF RenderedIsSafe
<1> DEFINE b == outcome.said
           h == IF b.title # NoField THEN b.title ELSE b.code
           e == IF b.json /\ b.message = NoField /\ Head(b.detail) = "text"
                THEN Tail(b.detail) ELSE b.message
           r == outcome.rendered
<1>1. IsBody(b) /\ r = [headline |-> sanitizeForError(h), message |-> sanitizeForError(e)]
  BY DEF Tells, Rendering, render, newAPIError
<1>2. h \in Seq(Runes) /\ e \in Seq(Runes)
  BY <1>1 DEF IsBody
<1>3. b.message # NoField => e = b.message
  OBVIOUS
<1> HIDE DEF h, e
<1>4. r.headline = sanitizeForError(h) /\ r.message = sanitizeForError(e)
  BY <1>1
<1> HIDE DEF b, r
<1>5. Sanitized(r.headline, h) /\ Sanitized(r.message, e)
  BY <1>2, <1>4, SanitizeIsSafe
<1>6. ASSUME NEW part \in {r.headline, r.message}
      PROVE  /\ Len(part) <= maxErrorFieldRunes + 1
             /\ Range(part) \subseteq Letters \union {"space", "..."}
             /\ part # <<>> => Head(part) # "space" /\ Last(part) # "space"
  BY <1>5 DEF Sanitized
<1>7. ASSUME b.message # NoField
      PROVE  IF "..." \notin Range(r.message) THEN Words(r.message) = Words(b.message)
             ELSE Words(r.message) # <<>> =>
                    /\ IsPrefix(Front(Words(r.message)), Words(b.message))
                    /\ IsPrefix(Last(Words(r.message)), Words(b.message)[Len(Words(r.message))])
  <2> DEFINE u == Words(r.message)
             v == Words(b.message)
  <2>1. /\ u \in Seq(Seq(Letters)) /\ v \in Seq(Seq(Letters)) /\ Cut(u, v)
        /\ "..." \notin Range(r.message) => u = v
    BY <1>3, <1>5, <1>7 DEF Sanitized
  <2> HIDE DEF u, v
  <2>2. u # <<>> => IsPrefix(Front(u), v) /\ IsPrefix(Last(u), v[Len(u)])
    BY <2>1, CutIsPrefix
  <2>3. IF "..." \notin Range(r.message) THEN u = v
        ELSE u # <<>> => IsPrefix(Front(u), v) /\ IsPrefix(Last(u), v[Len(u)])
    BY <2>1, <2>2
  <2> QED
    BY <2>3 DEF u, v
<1> QED
  BY <1>6, <1>7 DEF RenderedIsSafe, b, r

\* For every bound and every text of the server's: a rendered error is no longer than the
\* bound, has no control in it, and is the server's words in their order, none joined to the
\* next and none missing but at the cut (sanitizeForError, APIError.Error).
THEOREM RenderedIsSafeHolds == TransferSpec => []RenderedIsSafe
<1> DEFINE Inv == Tells(outcome)
<1>1. TransferInit => Inv
  BY DEF TransferInit, CallInit, NoOutcome, Tells
<1>2. Inv /\ [TransferNext]_allvars => Inv'
  BY StepTells
<1>3. Inv => RenderedIsSafe
  BY TellsIsSafe
<1> HIDE DEF Inv
<1> QED
  BY <1>1, <1>2, <1>3, PTL DEF TransferSpec
=============================================================================
