# A TLA+ model of the Omnigent Go SDK

This directory specifies the client side of the Omnigent session API (the Go
package `omnigent` in `src/`): how a client is made and what its requests are, how
one chat turn is driven over a server-sent event stream, how that stream is read
and watched, how listings and session trees are walked, how files are sent and
fetched. The modules are translated from the code; the server, the network,
`net/http` and the caller's own code are external and are given the behaviour the
code in `src/` relies on or defends itself against.

Contents: 1 inventory, 2 plan, 3 the modules, 4 the runs, 5 fairness and
assumptions, 6 what is proved, 7 findings, 8 what is not covered, 9 how to run it.

## 1. Inventory

### Components

| Component | Source | State it keeps | Operations | Talks to |
|---|---|---|---|---|
| Chat turn | `chat.go` | claim flag of the `Turn`; per drive: tracker, live response id, dispatched calls, announced responses, `stopped`, `unfinishable` | `Chat.Send`, `Turn.Events`, `drive`, `track`, `act`, `runTool`, `resolveElicitation` | the stream (pulled), session posts, tools, hooks, the caller's range loop |
| Turn tracker | `turn.go` | end rule, prior responses, anchor, boundary, end id, failed id, first failure | one method per kind of event | called by the chat turn |
| Event stream | `stream.go` | frame under construction, skipped frames, once-only subscription hook | `Client.Stream`, `decodeFrame` | HTTP body, hooks, idle monitor, the loop that ranges over it |
| Event decoding | `event.go`, `enums.go` | the registry of wire types, fixed | `DecodeEvent`, `decodeByType` | the event stream |
| Idle monitor | `stream.go` | last read time, paused, fired, timer | `alive`, `suspend`, `resume`, `check`, `rearm`, `stop` | the stream's goroutine and the runtime's timer goroutine |
| Listings | `list.go` | cursor, cursors seen, page count | `pageSeq`, `gateFetch`, the option structs | listing routes, the caller |
| Session tree | `tree.go` | nodes admitted, token pool, wait group, first error | `ChildrenTree`, `SubtreeBusy` | listings, from many goroutines |
| Block fold | `blockstream.go`, `block.go` | open text and reasoning, call table, live responses | `Blocks`, `fold` | an event sequence, a renderer |
| Transforms | `transform.go` | one pending block, or one flag | `SkipIntermediateEnds`, `MergeTextAcrossIterations`, `SkipBlocks`, `OnlyBlocks`, `OnlyAgent` | block sequences |
| Query | `query.go` | claim flag, gathered text and files | `Query`, `QueryStream`, `Text`, `Files` | a turn, the fold, the transforms |
| Tools and hooks | `tool.go`, `hooks.go` | the registry: a map without a lock, filled before it is used | `Register`, `Schemas`, `run`, `fire` | caller code that may panic |
| Sessions | `session.go`, `contracts.go` | none between requests | one request per operation; `ResolveAgent`, `ResolveOnlineRunner` | HTTP client, listings |
| Files | `files.go` | the upload's pipe and its goroutine | `Upload`, `Download`, `List`, `Get`, `Delete` | HTTP client |
| HTTP client | `client.go` | configuration, owned transport | `New` and its options, `doJSON`, `doUpload`, `doDownload`, `checkRedirect`, `Close` | the network |
| Errors | `errors.go` | none | classification, `APIError` and its rendering | everybody |
| Value types, generated API | `types.go`, `ptr.go`, `internal/api` | none | declarations | everybody |

### How they interact

A caller makes a client with `New`, and every operation is one request of it: its
arguments checked, its path and query put together, sent, led through redirects under
a policy, and its answer decoded or classified. A caller ranges over `Turn.Events`.
The goroutine that wins the claim drives the turn: it ranges over `Client.Stream`,
whose `OnSubscribed` hook posts the prompt once the subscription is known to be live.
Each event moves the tracker, is yielded to the caller, and is then acted on:
observing hooks, a tool run and its output post, an approval hook and its verdict
post. All of that happens on one goroutine, by nested callbacks: the server, the
caller's loop body, tools and hooks can each stop, fail or panic in the middle of
another one's call. Real concurrency is in three places: under the stream, the idle
monitor's timer callback; in a tree walk, one goroutine per admitted node and a token
for every request; in an upload, the goroutine that writes the form into a pipe while
the request reads it.

### Hard behaviours, and what makes each component correct

* **Chat turn.** Calls and approvals are effects in the world: a call delivered
  twice must run once, one that ran must be answered whatever else fails, an
  approval must have been consented to, and no yield may follow the caller's
  `break`. One `Turn` posts one prompt. A turn without an answer must say why.
* **Turn tracker.** One session stream carries other turns' ends as well: an
  older response that finishes late, mirrored sub-agents, other clients'
  messages, terminals that mean "delivered" rather than "done". The turn must
  end on its own response only.
* **Event stream.** Frames may be cut, oversized, undecodable, empty, of a type this
  build does not know. No event is invented, lost silently as a whole, or decoded
  with parts of another frame; the hook runs on the first frame of any kind, once.
* **Idle monitor.** Three words shared by two goroutines without a lock. It must
  not end a healthy stream, must end a dead one in bounded time, the end must be
  reported as what it was, and no timer may stay armed.
* **Listings, and who reads them.** A listing cut short must not look complete, so
  that an agent that was not reached is not reported absent; a server must not be
  able to keep the walk going for ever.
* **Session tree.** The walk ends on cyclic data, leaves no goroutine behind,
  has the same shape whichever request is faster, and an "idle" answer that claims
  to be complete is true.
* **Block fold, transforms, query.** Text is rendered once: neither lost when a
  stream drops, nor repeated when the finished item repeats the deltas; a pending
  block is flushed before an error or an end.
* **HTTP client, sessions.** A request goes to what its caller named and nowhere a
  server points it to; credentials stay with their endpoint; a success is the call's
  own, not that of a read a redirect made of it; the order options are written in
  does not decide what a client is; every call comes back by its deadline.
* **Files.** Writer goroutine and request end together; a body is not taken for whole
  when its reader failed, nor a download that was cut at the bound.
* **Errors.** What is rendered of a server's text is bounded and has no control in it.

`PROJECT.json` lists these hazards at the lines where they bite, with the
properties that cover each, or why none does.

## 2. Plan

Done, in this order: `TurnTracker`, `ChatTurn`, `ChatSession` (the turn with its
server), `IdleMonitor`, `StreamContract` and `EventStream` (which implements it),
`PageWalk`, `ChildrenTree`, `BlockFold`, `QueryFold` (which composes the fold with
the transforms); then the client: `Endpoint`, `NewClient`, `Queries`, `Requests`,
`Responses`, `ClientCall` and `Transfer` (one client and one call of it, with the
streamed bodies), `Lookup` (the resolving walks over `PageWalk`), `Tools` (composed
into `ChatTurn`) and `Event` (composed into `EventStream`). Then the proofs, one module
for what belongs together: `ChatTurn` with `ChatSession`, `IdleMonitor`, `EventStream`,
`PageWalk` with `Lookup`, `ChildrenTree`, `BlockFold` with `QueryFold`, and `Transfer`
with every module of the client; `SequenceFacts` holds the lemmas about loops that they
share. Every safety property of the runs that pass has its theorem.

What is left, in order of weight:

1. `TurnContract`: an abstract turn (posted once, some calls run and answered,
   one end) which `ChatTurn` implements by a refinement mapping.
2. `QueryStream`: its own claim over the turn's, and `Files` read from another
   goroutine while `Text` runs; with the turn behind the fold, what an error that does
   not end the turn costs a query (`blockstream.go:125`).
3. The filters `SkipBlocks`, `OnlyBlocks`, `OnlyAgent`, which hold nothing back.

The project keeps to a dozen runs and forty properties, so that each says something
the others do not: `lookup` is the run of `PageWalk` too, `block_fold` that of
`QueryFold`, `session` chooses the end rule in its initial state.

## 3. The modules

A definition whose name starts with `Bug` is a faulty variant of the definition
after it; no specification uses it, and the `mutants` of `PROJECT.json` name the
property that tells the two apart.

### A turn

**`TurnTracker`** (`turn.go`, and `track` of `chat.go`). A tracker is a record,
each method an operator from a tracker and an event to the next tracker. The
optional strings of the wire are a member of a set, `Blank` (empty) or `Absent`
(nil pointer), which is the difference the code turns on. Error texts are
reduced to "turn failed" and "superseded".

**`Tools`** (`tool.go`). The registry is what folding the caller's registrations in
order gives: a nameless one or one without a function is refused, a later one of the
same name replaces. `run` says how a call of a name can come out. The code keeps no
lock, and its comment asks that the registry be filled before it is used; it is a
constant here.

**`ChatTurn`** (`chat.go`, `hooks.go`). Several goroutines (`Readers`) range over one
`Turn`; `Claim` and `Refuse` are `Turn.claim` and the `ErrTurnAlreadyRead` of the
losers. `pc` says where the driving goroutine is. One action is one call out of the
package (a hook, a tool, a post, a yield) with the report of its failure and the
statements up to the next call:

| Action | Code |
|---|---|
| `PostPrompt` | the `OnSubscribed` hook of `drive` with `anchorOn` |
| `Receive`, `YieldEvent`, `Check` | the loop body of `drive`: `track`, yield, (act), end |
| `StreamFails`, `StreamCloses` | an error of the stream; its close, with the "turn incomplete" report |
| `ActOn...`, `EndResponse` | `act`, `announceResponse`, `endResponse`, `observeItem` |
| `RefuseDuplicate`, `RefuseOverBudget`, `Dispatch`, `RunTool`, `ToolEnded`, `PostOutput` | `runTool` and the budget |
| `Decide`, `PostVerdict` | `decideElicitation`, `resolveElicitation` |

`emit` is `turnRun.emit`, and `RangeBody` the caller's loop body behind it. The
module is open: `Feed` is what the stream may carry in any order. The ghost
variables count what the outside saw (posts, runs, answers, consents, verdicts,
starts and ends, yields after a break).

**`ChatSession`** closes `ChatTurn` with the server it talks to: the server echoes
the consumed prompt, runs one response for it, parks it on calls and approvals,
and publishes the end where its harness family (`End`, chosen in `Init`) puts it.
`Noise` is what else may be on the stream, each at most once and at any moment: an
older response's end, a mirrored sub-agent's, another client's echo, a redelivered
call, a supersession. Events are read in the order published.

### A stream

**`IdleMonitor`** (`idleMonitor`, `monitoredReader`). One step is one atomic
access. The read loop and the callback `check` interleave at that grain; `now` is
the monotonic clock, which advances while the loop waits in Read or in the
caller's code. `late` measures for how long a callback has been due or running.

**`StreamContract`** is what a stream promises the loop that ranges over it, in
four variables and five actions: hook, then events and dropped frames, then one
end, and no quiet end of a stream lost as a whole.

**`Event`** (`event.go`). The registry of wire types, and what decoding an object
gives: an event of a known type if its body fits, an event of an unknown type
whatever its body, else an error.

**`EventStream`** (`Client.Stream`). The server sends frames line by line, the
body can end after any line, and every callback may end the read. A data line is a
chunk of unit length: an object or half of one with the type it names, garbage,
space, the sentinel. `decodeFrame` puts the chunks of a frame together, falls back on
the type of the frame's event line, and asks `Event`. An object says its type once, whole
or in its first half. `KeepsContract` is the refinement of `StreamContract`.

**`Subsequence`** holds the one operator `Only`, the members of a set that a sequence
holds in their order, as a recursive function: `SelectSeq` declares its recursion in a
way that nothing can be proved about. `EventStream` and `BlockFold` use it.

### Listings

**`PageWalk`** (`pageSeq`). Rows are numbers and a row's number its id. Any page
that promises more may arrive without its rows, without its cursor, with a cursor
followed before, or with a fresh cursor and no rows.

**`Lookup`** (`ResolveAgent`, `ResolveOnlineRunner`) extends `PageWalk`: the caller's
loop is the code's here. `LookAtAgent` is its body (the first agent of the name ends
the walk, any other is noted for the miss's message, within two bounds), `WalkOn`
every other step of the walk with what the lookup makes of its end. A runner is
picked from one answer: `Best` is the fold of `Look`, the code's single look at each, in
order.

**`ChildrenTree`** (`tree.go`, `gateFetch`). A node is the path from the root, so
that its last element is the session and its elements are the ancestors set. Each
goroutine's progress is a record in `walks`; `TakeToken`, `GiveUpWaiting`,
`FetchFails`, `FetchPage` are the gate and a listing's pages, `StopAtCap`,
`PlaceChild`, `FinishNode`, `Return` are `walk` and the wait for the group.
`busy` and `complete` are what `SubtreeBusy` derives from the tree.

### Blocks

**`BlockFold`** (`BlockStream.Blocks`). `blockState` is the record `fold`, each of
its methods an operator from a state to the next, composed in the order of the
method's statements; `Fold` is the switch of `fold`. The blocks yielded are kept in
`fold.out`, each with the context (agent, iteration) `emit` stamps on it. Text is
a sequence of character kinds (letter, space, newline), because the code turns on
where words and lines break (`Letters` and `White` tell them apart; `With` and `Without`
are the code's assignments to and deletions from a map); the text a finished item states is the single
character `final`, so that it can be told from the deltas. `flushTextChunks` loops
in the code; what is left behind the last space has none, so the second round empties
the buffer or stops, and two rounds are the loop. `Receive` is one event,
`Fails` and `Closes` the two ways the sequence ends, with the last flush.
`patience` is the number of blocks after which the caller's yield returns false.
The ghosts are what the events said: text and reasoning in order, who was live as
the open section's text arrived (`heard`), and whether a terminal came while
another response was live (`muddled`).

**`QueryFold`** (`Query` with `SkipIntermediateEnds` and
`MergeTextAcrossIterations`) extends `BlockFold`. The adapters are nested iterators:
a block yielded by the fold passes through them within the same call, so a step of
the fold and what the transforms and `Query` do with its blocks are one step.
`query` holds the variables of all three.

### A client and one call of it

Five modules of operators (pure functions in the code too), one that drives them and
one that adds the streamed bodies.

**`Endpoint`** (`sameEndpoint`, `checkRedirect`, `classifyUnfollowedRedirect`).
A URL is scheme, host as spelled, port and whether it carries a user; `Fold` is the
case folding of names.

**`NewClient`** (`New`, the options). An option is a record of its name and argument,
each `With...` an operator on the configuration, `New` the fold over the list and the
gates after it. Fields no client holds (`credentialed`, `plaintext`) are kept on the
result for the properties.

**`Queries`** (the option structs of `list.go`, `files.go`, `contracts.go`) and
**`Requests`** (`session.go`, `files.go`, `resolve`). An operation is a record of the
arguments it insists on, method, path segments, body, what it reads, the options it
was given and the query it makes of them, and `IsOperation` says which records are the
operations. `resolve` is what escaping, parsing and
resolving against the base URL make of the segments; the parts of `net/url` are marked
external.

**`Responses`** (`errors.go`). A text the server chose is a sequence of rune classes;
`sanitizeForError`, the parts of `APIError.Error`, and which sentinels a status or a
client-side end matches.

**`ClientCall`** (`newRequest`, `do`, `doJSON`, `decodeBounded`, `postControl`). A
client is made, one call goes out, the server answers, redirects or stays silent, a
timer may fire. `IsOption`, `IsBody` and `PlainPath` say what an option, an error body
and a base path are. `Redirected` is how `net/http` rewrites a request, `AskPolicy` the
policy in force (a caller's own decides as it likes).

**`Transfer`** (`files.go`, `doUpload`, `doDownload`). `writer` is the upload's
goroutine, the pipe one chunk and its two ends; `TakeChunk`, `BodyEnds`, `BodyFails`
are the transport, `WriteChunk` to `CloseWriter` the goroutine, `Returning` the
deferred close of the reading end, which goes with whatever step ends the call.
A download copies byte by byte up to its bound, then probes for one more.

`MCChatTurn`, `MCChatSession`, `MCEventStream`, `MCLookup`, `MCChildrenTree`,
`MCQueryFold` and `MCTransfer` only define constants for TLC. `IdleMonitor` has numeric
constants and needs none.

## 4. The runs

| Run | Question | Bounds |
|---|---|---|
| `chat_turn` | One prompt, one end, balanced start hooks, no unreported loss of the answer; calls run once, within the budget, are answered; approvals need consent; no yield after a break: with hooks, tools, posts and the caller failing anywhere | 3 reads of any event in any order; 2 goroutines, 2 sessions, 2 responses, 2 items, 1 parked input, 3 calls of 2 names of which one is registered, budget 2, 1 approval |
| `session` | The turn ends only on its own finished or failed response, under either end rule, against older, mirrored, foreign and early events, and ends at all when parked on a call and an approval | the server's fixed set of events, every interleaving; two sets of disturbances per rule |
| `idle_monitor` | Only silence is cut off, all silence is, the report is right, no timer stays | timeout 3, lateness 2, 12 instants |
| `event_stream` | What is handed over, when the hook runs, the bound on a frame, and the contract | 4 frames of 10 kinds, payload bound 4 |
| `lookup` | A quiet end is a whole listing, no request twice; a name resolves to its first bearer and is missing only from a whole listing; a runner picked is the best there is | 5 rows, pages of up to 2, 4 pages, the name nowhere, once or twice; answers of 3 runners, a harness under two spellings |
| `children_tree` | Termination on a cycle, shape, nothing outliving the walk; what was cut off is marked, and no idle answer claims too much | 2 trees: 4 sessions with a cycle, and 5 under depth 2, 3 nodes and pages of 1; 2 tokens; failures and cancellation anywhere |
| `block_fold` | What a caller draws is what was said, once, in order, and credited to nobody wrongly, with two responses overlapping; `Query` returns the whole answer once, behind one end | 5 of 19 events in any order, then an error or a close; flush threshold 3; a caller that leaves after 2 blocks or stays |
| `transfer` | What a client is does not depend on the order of its options; where requests go, what a success and an error say; an upload's body is its content, a download's end is told, nothing hangs | 7 base URLs, every two of 17 options in either order and some of three; 9 clients that call; every operation, with arguments named, missing and dotted; 9 locations, 2 redirects, 13 error bodies; 2 chunks; files of 0 to 3 bytes |
| `session_mirrored`, `block_overlap`, `query_gathered`, `download_cut` | violations, see section 7 | as the passing runs, `query_gathered` with 4 events |

Why the bounds are enough to reach the interesting cases:

* Three reads are an echo, a foreign terminal and this turn's end, or two calls
  within the budget and a third over it or one of them again: the budget of two is
  filled and passed. Tools, hooks, posts and the loop body branch at every one of them.
  Longer sequences, of the events one server sends, are in the runs of `ChatSession`.
* In `ChatSession` `MaxReads` (12) exceeds every number of events the server and
  its noise can publish, so no behaviour is cut by it.
* `MaxTime` 12 is four timeouts: a callback can find the clock paused, re-arm,
  find bytes, re-arm with the remainder and then expire. `Lateness` 2 lets bytes
  land in a callback that is under way. The latest permitted cut-off (timeout
  plus two latenesses, 7) lies well within it.
* The payload bound 4 admits two chunks and their newline and refuses the third;
  the ten frames are one of each kind that `decodeFrame`, the registry and the assembly
  distinguish, a known type whose body misfits and an unknown one among them; four
  frames suffice for a lost one before, between and after events.
* Five rows in pages of one or two need three to five pages, so the cap of four
  is both met and missed; a page can be spoiled with any cursor followed before. The
  miss's list of names is cut by its count (3) and by its length (4). Three runners
  are one that says it runs the harness behind one that says nothing behind one that is
  offline, in every order.
* The first tree of `children_tree` has a cycle of two, a session reached twice, a busy
  leaf behind a stale status, and more nodes allowed than paths; the second has two
  branches racing for the last node and a depth cap in the middle of a chain whose end
  works. Which of them is walked is chosen in the initial state (`world`).
* In `block_fold` the texts lie under, at and over the threshold, with a break at
  the start, in the middle and not at all; a line of reasoning is whole, blank or unfinished;
  five events are two starts, a delta, one end and one more of anything, or for `Query`
  two sections of text around a call or a file, and an end. A delta of four characters
  against a threshold of three leaves a rest, so both rounds of the flush do work.
* In `transfer` a chain of two redirects under a cap of two meets the cap, and can go
  from the default port of http to that of https and ask to come back; every location is of
  a kind the policy tells apart, a host that differs only in case among them. Two chunks
  let an upload be cut before, between and after them. Files of up to three bytes lie
  under, at and over bounds of one and two.

Deadlock is checked in every run: a behaviour that has come to its end stutters
explicitly (`Finished`, `Over`), so a turn, walk, stream or call that is stuck anywhere
else is an error.

Type invariants stand in their modules and are not among the runs' properties; they
are proved instead (section 6).

## 5. Fairness and assumptions

Three specifications state fairness.

* `ChatSession`: weak fairness of `ClientStep` and of `ServerStep`. The driving
  goroutine runs and what it calls returns (every post carries the caller's
  context and the client's timeout; a tool or hook that never returns holds the
  turn in the code too). A server that took the prompt consumes it, starts and,
  with nothing parked, finishes the response. It does not have to raise calls
  or approvals, and nothing has to break the stream. `TurnEnds` excludes, by the
  ghost `lost`, a turn one of whose posts never reached the server: the code
  documents that such a call is not run again, and the read then lasts until the
  caller's deadline.
* `ChildrenTree`: weak fairness of `Work`: some goroutine that can run does, and
  requests come back. Each step consumes part of a finite walk, so no fairness per
  goroutine is needed.
* `Transfer`: weak fairness of `Timeout` and of `WriterStep`: a timer that is set
  fires, and the upload's goroutine goes on, which includes that the caller's reader
  returns. The server and the transport owe nothing: `NothingHangs` must hold of a
  server that never answers. It excludes calls whose caller took the deadline away (a
  client of its own without a timeout) and says of uploads and downloads, which have
  none by default, only that the writer ends when the call has.

Named assumptions, evaluated by TLC in every run and used by the proofs:

* `TrackerAssumption`, `ChatAssumption`, `SessionAssumption`, `ToolAssumption`: the
  constants have their types; `Blank` and `Absent` are no identifiers and differ.
* `FeedAssumption`: what the server of a session publishes is among the events its
  turn's stream may carry.
* `MonitorAssumption`: callbacks are late by less than the timeout. The code's
  default timeout is 45 seconds and the scheduler's lateness milliseconds. It is
  needed: a callback that loads `paused` and is then held for a whole timeout
  across a `suspend` would count the caller's time as the stream's silence.
* `StreamAssumption`, `ListingAssumption`, `LookupAssumption`: types of the constants,
  bounds and sizes positive; an object on the wire says its type once, whole or in its
  first half; canonicalizing a harness twice is canonicalizing it once.
* `SessionsAssumption`: a server has finitely many sessions. The walk is over what it
  lists, and the order `BusyHolds` walks it in needs an end.
* `TreeAssumption`: types and bounds; the options of a world have the defaults of
  `TreeOptions` already applied; and no listing names a child twice. The code
  deduplicates nothing here but ancestors: a child listed twice would be two nodes
  walked alike, which a node named by its path cannot tell apart.
* `SummaryAssumption`: a listing's busy flag is right when it is sent, and the task
  status is right when it is not. `SubtreeBusy` can be no better than that.
* `FoldAssumption`: the events have their types, and an identifier names a response or a
  call, not both; a response runs one model, which its events name or leave out; the
  threshold is positive (`Blocks` applies the default to any other).
* `EndpointAssumption`, `ClientAssumption`: folding a name twice is folding it once;
  the default base URL is plain http on this machine, the default timeouts are positive.
* `ResponseAssumption`, `CallAssumption`, `TransferAssumption`: types, a
  download's bound among them; the model's bound on the requests of a call lies above
  the code's cap; no chunk of content is mistaken for the form around it. A call is one
  of the operations, and no argument of it is what another is escaped to (elements of a
  path are told apart by name, so the escape of the one name with a slash is a name of
  its own). A base path has no escapes, dot segments or empty elements: what `net/url`
  would clean of those is its own. An option is one of the package's, and
  `WithAuthHeader` does not name `Cookie` or `Origin`, which other options set and whose
  outcome does depend on the order. An error body's strings are sequences of runes.
* `ChildrenTree` takes the sessions to stand still during one walk; the code makes
  no promise for one that changes under it.

## 6. What is proved

The proofs hold for every value of the constants that satisfies the assumptions:
any number of goroutines, events, calls, frames, rows, any timeout, any tree, any list
of options. They are checked by TLAPS, and most of the invariants they rest on are
stated in the component's module so that they can be read, and checked by TLC, next to
the properties.

| Module | Theorems |
|---|---|
| `ChatSession_proofs` | `TypeCorrect`, `OnePromptHolds`, `CallRunsOnceHolds`, `RanIsAnsweredHolds`, `RunsWithinBudgetHolds`, `NoYieldAfterBreakHolds`, `AcceptNeedsConsentHolds`, `StartsBalanceEndsHolds`, `EndsOneWayHolds` of `ChatTurn`; `SessionIsATurn`, `SessionTypes`, `AnswerIsOursHolds`, `FailureIsOursHolds` of `ChatSession` |
| `IdleMonitor_proofs` | `MonitorTypes`, `FiresOnSilenceOnlyHolds`, `SilenceIsCutOffHolds`, `EndNamesItsCauseHolds`, `NoTimerAfterStopHolds` |
| `EventStream_proofs` | `HookOnFirstFrameHolds`, `FrameBoundedHolds`, `HandedAsSentHolds`, `KeepsContractHolds`, `StreamTypes` |
| `Lookup_proofs` | `NoRequestTwiceHolds`, `QuietMeansWholeHolds`, `LookupIsWalk`, `NameResolvesHolds`, `RunnerServesHolds` |
| `ChildrenTree_proofs` | `NothingOutlivesHolds`, `ShapeHolds`, `BusyHolds` |
| `BlockFold_proofs` | `FoldTypes`, `ChunksSpoken`, `ThoughtsShown`, `ToolsYieldedOnce`, `AnswerIsSalvaged`, `CreditCertain` of `BlockFold`; `QueryFolds`, `QueryTypes`, `AnswersOnce` of `QueryFold` |
| `Transfer_proofs` | `CredentialsStayHomeHolds`, `NewIsOrderlessHolds`, `SuccessIsTheCallHolds`, `RenderedIsSafeHolds`, `BodyIsContentHolds`, `DownloadToldHolds` |
| `SequenceFacts` | lemmas only: induction up to a bound, what a loop computes, `FoldLeft` and `FlattenSeq` as loops, `Only` |

Loops. Much of the code is a loop over a list, and the model has a fold for it. The
prover takes no induction principle with a predicate as parameter, so `SequenceFacts`
does induction over sets: `PrefixInduction` says that a set holding 0 and, with `k`,
`k + 1` holds every number up to a bound, and `AppendInduction` the same of sequences
that grow at their end. `Iteration` and `FoldMap` show that a function defined by its
own earlier values has values, which the library's `FoldLeft` (a `CHOOSE` of such a
function) and every recursive function needs before anything else can be said of it;
`FoldLoops` then makes the fold a walk from the first element on. Each fold that is
reasoned about (the reassembly of a frame, the look at the runners, the options of
`New`, the reference `resolve` walks, the runes `sanitizeForError` reads and
the words a reader reads) has one lemma of that shape and one for the step.

The arguments:

* **`ChatTurn`.** `TypeOK` alone is not inductive: that `runs[event.call]` is
  defined depends on the event in hand being an item with a call, which
  `EventInHand` says for each `pc`. `OnePrompt` needs `ClaimBook`: the turn is
  unread exactly while unclaimed, and once it has posted it is past `subscribing`.
  The three call properties share `CallBook`: `runs[c]` is 1 for the
  dispatched calls except the one whose tool is about to run, `answers[c]` is 1
  for those except the one in `running`, `ran` or `answering`; the dispatched
  calls are a finite set within the budget. `RunsWithinBudget` then follows
  because the calls run are a subset of the dispatched ones.
  `NoYieldAfterBreak` needs `YieldBook`: `stopped`, which `emit` looks at, is set
  exactly when the loop body has returned false. `AcceptNeedsConsent` needs
  `ConsentBook`: no consent and no verdict is of a delivery later than the one in
  hand, and the one in hand has its verdict only once it is past `resolving`.
  `StartsBalanceEnds` needs `StartBook`: `announced` is the set of responses started.
  `EndsOneWay` needs `EndBook`: nothing is read once the tracker has an end, so an end
  is never followed by another kind of end, an item that calls a tool is none, and a
  caller still there at `done` was last told the cause.
* **`ChatSession`.** `SessionIsATurn` composes the two modules: every step of the session
  is a step of `ChatTurn` or leaves the turn alone, so the theorems above hold of a turn
  in a session. It needs `WireBook`, that the wire carries only what the server builds
  (`Published`), and `FeedAssumption`, that this is within the turn's `Feed`. The other
  two theorems hold under `Told`: the caller named the old response
  (`PriorResponseIDs`), and no sub-agent is mirrored under the lifecycle rule; without
  the second the run `session_mirrored` violates the first. `OursBook` is about the
  wire: of the events an end rule listens to (`Judged`), each that does not name an old
  response names this turn's and tells how it ended (`Honest`), however far the client
  is behind the server. That is kept because the response ends once and publishes its
  end in the same step, and until then nothing `Judged` but old ends is on the wire.
  `TrackTakes`, for any event whatever, says that the tracker takes an end only from an
  event that is `Judged` and names no old response.
* **`IdleMonitor`.** `ClockBook` relates `last` to the instant bytes last arrived
  or the caller last returned, by where the loop is. `JudgeBook` bounds the
  callback's reading of the clock: it exceeds `last` by no more than the callback
  is late or the loop has waited in one Read, so with `Lateness < Timeout` a
  reading of a whole timeout is a wait of a whole timeout. `WatchBook` says that
  until the request is cancelled the timer is armed or the callback under way, and
  how late either can be, from which the bound of `SilenceIsCutOff` follows.
  `EndBook` orders `fired`, `cancelled` and the report.
* **`EventStream`.** `Progress` ties `hooked`, `subscribed`, `skipped` and
  `delivered` to `pc`. Under it each step of the reader is the step of the contract
  with the same name, or a stutter. `FrameBounded` is inductive by itself.
  `HandedAsSent` needs `StreamInv`: the lines on the wire and the frame under
  construction are together one frame the server sent and nothing of another, so what is
  decoded at its blank line is that frame whole; and what was handed over is the
  decodable ones among the frames completed before it. That a frame of several data
  lines decodes to what was sent is a walk through its chunks.
* **`PageWalk` and `Lookup`.** `AnswerShape` says what a possibly spoiled page can look
  like. `AskBook`: the cursor about to be asked with has not been asked with, the asked
  cursors are `Start` and followed ones, and there are as many as pages followed.
  `RowBook`: what was yielded is the rows up to the cursor and the rows of the page
  in hand so far, and a page that can be followed names its own last row as cursor.
  Every step of a lookup is a step of the walk or none (`LookupIsWalk`), so what is
  proved of walks holds of the one a lookup makes; beside it, what was yielded so far
  does not have the name and, unless the message was cut, is what the miss tells of.
  `RunnerServes` is about one answer: after any number of looks `silent` is the first
  runner online that reports no harness, and `chosen` the first that reports the wanted
  one, if there was one so far.
* **`Transfer`.** `SentInv`: the first request of a call goes to the client's URL, and
  every request's URL is `AtHome`, judged against the client's and not against the
  request before it: `checkRedirect` compares with the first of the chain, so the
  relation needs no transitivity, which it does not have. A location at home is
  never less protected than the client's own, whose gate `New` has already passed.
  `BodyBook`: what was sent, what is in the pipe and what the reader still has to give
  make up the form of the whole content, as long as the writer has met no error, and
  the pipe ends without an error only when it met none.
  `DownloadBook`: nothing is written before a download's answer is copied, and never
  more than the file; an answer read in one piece is no download's.
* **The rest of the client.** `SuccessIsTheCall` needs `CallInv`: a request in hand was
  accepted by the argument checks, its path is `resolve`'s, and under the package's
  policy every request of its chain has the call's method and body. Beside it stands what
  each operation asks for (`OperationAsks`, one case per operation), and that
  `resolve` takes plain elements through escaping, joining, splitting and
  the reference's dot segments back to themselves (`ResolveIs`): no element survives the
  checks that the walk would drop. `NewIsOrderless` needs no invariant of the call, only
  that a client unused is `New`'s; `Judged` says of every prefix of the options what the
  configuration has of it, as a set, and `New` looks at the whole list's. `RenderedIsSafe`
  needs that an error tells a body and its rendering (`Tells`), and of the rendering
  `Kept`: until the bound is met, the text written so far spells the words read so far,
  and after it they are those words cut off within one (`Cut`), which reading on does
  not change; the spaces trimmed at both ends are between no words.
* **`ChildrenTree`.** `ShapeBook`: every node walked but the root was placed by its
  parent, at a place the parent has passed. With no child listed twice this makes a
  child about to be placed a new one, so that no goroutine is started over another's
  node. `CountBook`: `visited`, `tokens` and `group` are the numbers of nodes walked,
  fetching and not yet done; a step of one node moves one of these sets by at most one
  element. At `Return` the group is zero, hence nobody is running. `FailBook`: an error
  is recorded exactly when a node is marked. `GrowBook` is what the other two need.
  `PathBook`: a node walked is a path of the server's tree without a repetition; `TreeBook`:
  the nodes of the tree are the root and what the walks placed; `MarkBook`: a node of the
  tree that nobody walks has a mark that says why, and a walk that is done has placed every
  child or marked its node. When the walk has returned and nothing failed, every path
  of the server's tree within the bounds is in the tree, by induction along the path, so the
  shape is the topology's; and with nothing marked, the sessions walked are closed under
  children, hence all there are, so an idle answer is true.
* **`BlockFold`.** The methods of the fold call each other, so what each does is
  stated as a relation between the state before and after, and the relations compose:
  `Extends` and `Grows` for the blocks yielded, `TextPart`, `ThoughtPart` and `ToolPart`
  for who may touch what. `Book` is the inductive invariant. `TextBook`: what was drawn
  and what is pending are together what was said, and the open section's text is what was
  drawn of it and what is pending; `ThoughtBook`: the same of the letters of
  reasoning, whose white space the code trims; `ToolBook`: of each call and each result there is
  at most one block, and what is known of a call without a result is what the call said;
  and only responses that are live were heard in an open section. `Open` says, while events are
  folded, that nothing failed yet and that an end which left no response speaking left none
  live, unless two overlapped: this is what makes the last flush happen. `flushTextChunks`
  draws what is before the last break and keeps the rest (`Shows`).
* **`QueryFold`.** Every step is a step of the fold (`QueryFolds`), so `Book` holds below it.
  `QueryInv`: until the end the accumulated answer is the text of the finished sections of
  the blocks so far, the files are counted and an error was seen if there was one; nothing
  passed on is a text or an end, and at most one end is held; at the end there is exactly one
  of each.

Model-checked only: the liveness properties `TurnEnds` of `ChatSession`, `WalkReturns` of
`ChildrenTree` and `NothingHangs` of `Transfer`, which need `ENABLED` and fairness. The four
properties of section 7 are false of the code and have a run that says so. Nothing is
proved of the operators in `MC` modules, which are values for TLC.

## 7. Findings

Each is a run whose one property states what the repository says and which TLC
refutes with a behaviour of the code.

* `session_mirrored`: under `TurnEndsOnResponseLifecycle` any terminal that is
  not in `PriorResponseIDs` ends the turn (`turn.go:265`), while the comments say
  the terminal naming this turn's response does (`turn.go:256`) and that a
  sub-agent's events are mirrored into an ancestor's stream (`turn.go:128-130`). A
  mirrored `response.completed` ends the turn before its own response finishes.
* `block_overlap`: the flush after the last event is skipped once any response has
  ended (`blockstream.go:149`, `:313`); `blockstream.go:141-147` say it is skipped
  once "the response speaking" has, and `:263` "Per response, not per subscription". With
  two responses live and one ended, text of the other is lost on a drop.
* `query_gathered`: `Query` returns at an error before it sets the text
  (`query.go:46` against `:56`), and the transform that merges text yields the error
  before what it holds (`transform.go:212`); `query.go:36-38` say it returns what it
  gathered alongside any error. Files are returned (`AnswerOnce`), text is not.
* `download_cut`: after a full bound's worth of bytes `doDownload` probes for one more
  and takes any error of that read for the end of the file (`client.go:858`), so a body
  whose connection broke exactly at the bound is a complete download; `client.go:812-814`
  say that reporting a truncated download as a complete one is the failure worth avoiding.

Noted while modelling, without a run of their own:

* `OnResponseEnd` fires for every terminal read (`chat.go:406`), also an older response's;
  `hooks.go:21-22` say once per turn. `StartsBalanceEnds` is what does hold.
* A child refused by the node ceiling is marked `Truncated` without being listed
  (`tree.go:212`), also when it has no children; `tree.go:101-103` say the mark reports
  children not fetched. The error is on the safe side: `BusyIsSound` holds.
* The fold ends at any error (`blockstream.go:134`), so a query breaks the turn's loop at a
  report such as a failed tool; `chat.go:120-124` say of `Send` that the read continues.
* `classifyUnfollowedRedirect` (`client.go:886`) judges a Location by every gate of
  `checkRedirect` but the one against a step from https to http. Nothing is sent
  there; only the error's kind differs.
* The gates of `checkRedirect` compare with the first request, so a chain from http up to
  https and back is followed. `CredentialsStayHome` holds of it, since the first was
  in clear already.
* `ValidationErrors` returns an error for a detail that is a string, though
  `errors.go:483-484` say that it returns nil, nil when there is no detail list.
* `APIError.Error` renders the content type of a body as it came (`errors.go:440-446`),
  though `errors.go:413-414` say every field goes through `sanitizeForError`.
  `RenderedIsSafe` speaks of the headline and the message only.
* A cookie whose name is no token renders as nothing, so `WithSessionCookie` gives a client
  without the credential it was asked for; `CookieText` is how the model has it.
* The upload's goroutine may still be reading the caller's content after `Upload` has
  returned: `NothingHangs` says it ends, not when.
* The cursor a walk begins with (the caller's `After`) is not among the cursors seen, so
  a first page whose last id is that cursor is asked for once more before the walk fails.
* A miss of `ResolveAgent` measures names in bytes against a bound named in runes
  (`maxNamesRunes`), and joins an ellipsis to an empty list when the first name is too long.
* A message item that states a text no delta carried becomes a `TextDone` without any
  `TextChunk`, so `QueryStream.Text`, which yields chunks, gives nothing of an answer that
  `Query` returns.
* `ptr.go:10-11` show `SetModelOverride` taking a pointer whose empty string clears the
  override; it takes a string and refuses an empty one (`session.go:252`).

## 8. What is not covered

* `QueryStream`, and the filters of `transform.go` that hold nothing back; `Client.Close`
  and the redaction of URLs in messages; `ValidationErrors`, a decoder of one field; the
  accessors of `SessionItem`.
* Two hazards have no property. A tool's output post that fails leaves the server waiting
  and the call unrepeatable (`chat.go:487`), which the code documents as deliberate. An
  error that does not end the turn ends the fold (`blockstream.go:125`): a property of it
  needs the turn behind the fold.
* Of blocks, what they say of a provider, a file, a retry or a tool's arguments
  is left out; `format.go`'s display strings are.
* In what is modelled: JSON decoding is reduced to whether a body or a frame decodes, and
  what the fields of events and payloads hold is left out; error texts to their kind. In
  `ChatTurn`, where a post is one step, a post that is refused and one that fails are told
  apart, why it failed is not. `fire` stands for every observing hook, whose arguments
  are left out.
* One client makes one call in `Transfer`. Its configuration does not change once made,
  so calls share no state of this package.
* Registering a tool while a turn runs: the registry has no lock and the comment asks
  that it be filled first.
* `ChatTurn` does not model a tool or a hook that never returns.
* An elicitation delivered twice is asked and answered twice (`chat.go:526`): the
  code keeps no record of answered requests and promises nothing; the model
  counts verdicts per delivery.
* Time is modelled in `IdleMonitor` only; deadlines elsewhere are a step that may come at
  any moment while the deadline is set.
* `types.go`, `ptr.go`, `enums.go` and `internal/api` hold declarations and generated
  code, without a state or a choice.

## 9. Running it

In this directory, for any row of `runs` in `PROJECT.json`:

    tlc -workers 2 -config ChatTurn.cfg MCChatTurn
    tlapm ChatSession_proofs.tla

The largest run is `chat_turn` (six million states, more than a minute), then `block_fold`
(about as long), `transfer` (over a million states, with liveness) and `session`; the
others take seconds, `lookup` a quarter of a minute. The proofs take from half a minute to a
few minutes each from nothing, `BlockFold_proofs` longest.
