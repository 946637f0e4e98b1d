------------------------------ MODULE BlockFold ------------------------------
(***************************************************************************)
(* BlockStream.Blocks (blockstream.go): the events of a session folded     *)
(* into the blocks a caller renders.                                       *)
(*                                                                         *)
(* blockState is a record and each of its methods an operator on it, in    *)
(* the order of the method's statements.  Text is a sequence of            *)
(* characters: a letter, a space, a newline, or the letter that only a     *)
(* finished message item holds.  The events are open: Feed in any order,   *)
(* an error or a close at any point, and a caller that may leave after any *)
(* block.  What a block says of the provider, of a file or of a retry is   *)
(* left out.                                                               *)
(***************************************************************************)
EXTENDS Subsequence, Integers, FiniteSets, SequencesExt, TLC

CONSTANTS
  Responses,   (* Response identifiers.                                      *)
  Model,       (* The agent model each of them runs.                         *)
  Calls,       (* Tool call identifiers.                                     *)
  Blank,       (* The empty string, and nothing in particular.               *)
  Feed,        (* The events of this instance.                               *)
  threshold,   (* BlockStream.TextFlushThreshold, default applied.           *)
  Patience,    (* After how many blocks the caller may leave.                *)
  MaxEvents    (* Bound: the events of one behaviour.                        *)

Characters == {"letter", "space", "newline", "final"}
White      == {"space", "newline"}
Models     == {Model[r] : r \in Responses} \union {Blank}

Speaking == {"response.created", "response.in_progress"}
Terminal == {"response.completed", "response.failed", "response.incomplete",
             "response.cancelled"}
Plain    == {"compaction", "retry", "error", "native", "file"}

ResponseEvents ==
  [kind : Speaking \union {"response.queued"}, response : Responses \union {Blank},
   model : Models]
TerminalEvents == [kind : Terminal, response : Responses \union {Blank}]
TextEvents ==
  [kind : {"text.delta", "reasoning.delta", "summary.delta", "message"},
   text : Seq(Characters)]
CallEvents  == [kind : {"call", "call.output"}, call : Calls \union {Blank}]
PlainEvents == [kind : Plain \union {"reasoning.started", "other"}]

\* An identifier is of one thing, and a response runs one model, which an event about it
\* names or leaves out.
ASSUME FoldAssumption ==
  /\ Responses \intersect Calls = {} /\ Blank \notin Responses \union Calls
  /\ \A e \in Feed : \/ e \in ResponseEvents \/ e \in TerminalEvents \/ e \in TextEvents
                     \/ e \in CallEvents \/ e \in PlainEvents
  /\ \A e \in Feed : e \in ResponseEvents /\ e.response \in Responses =>
                       e.model \in {Model[e.response], Blank}
  /\ threshold \in Nat \ {0}
  /\ Patience \subseteq Nat \ {0}
  /\ MaxEvents \in Nat

VARIABLES
  pc,        (* folding or over.                                             *)
  fold,      (* blockState, and in fold.out what it has yielded.             *)
  patience   (* The number of blocks after which this caller leaves.         *)

(* What the events said. *)
VARIABLES
  events,    (* How many were folded.                                        *)
  spoken,    (* The text of every text delta.                                *)
  thought,   (* The text of every reasoning and summary delta.               *)
  heard,     (* The responses live as the text of this section arrived.      *)
  muddled    (* A terminal was read while another response was live.         *)

ghosts == <<events, spoken, thought, heard, muddled>>
vars   == <<pc, fold, patience, ghosts>>

Kinds == {"ResponseStart", "ResponseEnd", "TextChunk", "TextDone", "ReasoningStart",
          "ReasoningChunk", "ReasoningBlock", "ToolGroup", "ToolResult", "failure"}
         \union Plain

Block == [kind : Kinds, agent : Models, iteration : Nat, text : Seq(Characters),
          of : Responses \union Calls \union {Blank}, known : BOOLEAN]

TypeOK ==
  /\ pc \in {"folding", "over"}
  /\ fold.agent \in Models
  /\ fold.iteration \in 0..MaxEvents
  /\ fold.startedResponses \subseteq Responses
  /\ fold.liveResponses \in [DOMAIN fold.liveResponses -> Models]
  /\ DOMAIN fold.liveResponses \subseteq Responses
  /\ \A t \in {fold.inText, fold.fullText, fold.reasoning, fold.reasoningText, fold.summaryText} :
       t \in Seq(Characters)
  /\ {fold.inReasoning, fold.reasoningChunked, fold.endedResponse, fold.stopped} \subseteq BOOLEAN
  /\ fold.executions \in [DOMAIN fold.executions -> {"call", "result"}]
  /\ DOMAIN fold.executions \subseteq Calls
  /\ fold.seenCalls \union fold.seenResults = DOMAIN fold.executions
  /\ fold.out \in Seq(Block)
  /\ patience \in Patience
  /\ heard \subseteq Responses
  /\ muddled \in BOOLEAN

newBlockState ==
  [agent |-> Blank, iteration |-> 0,
   startedResponses |-> {}, liveResponses |-> <<>>,
   inText |-> <<>>, fullText |-> <<>>,
   inReasoning |-> FALSE, reasoning |-> <<>>, reasoningText |-> <<>>,
   summaryText |-> <<>>, reasoningChunked |-> FALSE,
   endedResponse |-> FALSE,
   executions |-> <<>>, seenCalls |-> {}, seenResults |-> {},
   stopped |-> FALSE, out |-> <<>>]

Init ==
  /\ pc = "folding"
  /\ fold = newBlockState
  /\ patience \in Patience
  /\ events = 0
  /\ spoken = <<>>
  /\ thought = <<>>
  /\ heard = {}
  /\ muddled = FALSE

-----------------------------------------------------------------------------
(* emit, with the context of the moment. *)

emit(s, kind, text, of, known) ==
  IF s.stopped THEN s
  ELSE LET block == [kind |-> kind, agent |-> s.agent, iteration |-> s.iteration,
                     text |-> text, of |-> of, known |-> known]
       IN [s EXCEPT !.out = Append(@, block), !.stopped = Len(s.out) + 1 >= patience]

show(s, kind, text) == emit(s, kind, text, Blank, FALSE)
put(s, kind)        == emit(s, kind, <<>>, Blank, FALSE)

-----------------------------------------------------------------------------
(* Text. *)

\* One round of the loop: whole words, or one long unbroken run.
flushOnce(s) ==
  LET cuts == {i \in 2..Len(s.inText) : s.inText[i] \in White}
      cut  == IF cuts = {} THEN Len(s.inText) ELSE Max(cuts)
  IN  IF Len(s.inText) < threshold THEN s
      ELSE [show(s, "TextChunk", SubSeq(s.inText, 1, cut)) EXCEPT
              !.inText = SubSeq(@, cut + 1, Len(@))]

\* What is behind the last space has none, so that a second round is the last.
flushTextChunks(s) == flushOnce(flushOnce(s))

closeText(s) ==
  LET flushed == IF s.inText = <<>> THEN s
                 ELSE [show(s, "TextChunk", s.inText) EXCEPT !.inText = <<>>]
  IN  IF s.fullText = <<>> THEN flushed
      ELSE [show(flushed, "TextDone", s.fullText) EXCEPT !.fullText = <<>>]

\* The buffered deltas are dropped for the item's own text.
BugFoldMessageDrops(s, text) ==
  IF text = <<>> THEN closeText(s)
  ELSE closeText([s EXCEPT !.inText = <<>>, !.fullText = text])

foldMessage(s, text) ==
  IF text = <<>> THEN closeText(s) ELSE closeText([s EXCEPT !.fullText = text])

-----------------------------------------------------------------------------
(* Reasoning. *)

NotWhite(c) == c \notin White
Letters(t)  == Only(t, Characters \ White)

TrimSpace(t) ==
  LET black == {i \in 1..Len(t) : NotWhite(t[i])}
  IN  IF black = {} THEN <<>> ELSE SubSeq(t, Min(black), Max(black))

beginReasoning(s) ==
  IF s.inReasoning THEN s
  ELSE put([s EXCEPT !.inReasoning = TRUE, !.reasoningChunked = FALSE], "ReasoningStart")

\* The scan for newlines: a line that is not blank is a chunk.
appendCharacter(s, c) ==
  IF c # "newline" THEN [s EXCEPT !.reasoning = Append(@, c)]
  ELSE IF TrimSpace(s.reasoning) = <<>> THEN [s EXCEPT !.reasoning = <<>>]
  ELSE [show(s, "ReasoningChunk", s.reasoning) EXCEPT
          !.reasoning = <<>>, !.reasoningChunked = TRUE]

appendReasoning(s, delta, summary) ==
  LET begun == beginReasoning(s)
      kept  == IF summary THEN [begun EXCEPT !.summaryText = @ \o delta]
                          ELSE [begun EXCEPT !.reasoningText = @ \o delta]
  IN  IF delta = <<>> THEN s ELSE FoldLeft(appendCharacter, kept, delta)

\* The section is reported again as a whole.
BugCloseReasoning(s) ==
  LET rest  == TrimSpace(s.reasoning)
      whole == s.reasoningText \o s.summaryText
      said  == IF rest = <<>> THEN s ELSE show(s, "ReasoningChunk", rest)
      ended == IF whole = <<>> THEN said ELSE show(said, "ReasoningBlock", whole)
  IN  IF ~s.inReasoning THEN s
      ELSE [ended EXCEPT !.inReasoning = FALSE, !.reasoning = <<>>,
              !.reasoningText = <<>>, !.summaryText = <<>>, !.reasoningChunked = FALSE]

closeReasoning(s) ==
  LET rest  == TrimSpace(s.reasoning)
      whole == s.reasoningText \o s.summaryText
      said  == IF rest = <<>> THEN s ELSE show(s, "ReasoningChunk", rest)
      ended == IF s.reasoningChunked \/ rest # <<>> \/ whole = <<>> THEN said
               ELSE show(said, "ReasoningBlock", whole)
  IN  IF ~s.inReasoning THEN s
      ELSE [ended EXCEPT !.inReasoning = FALSE, !.reasoning = <<>>,
              !.reasoningText = <<>>, !.summaryText = <<>>, !.reasoningChunked = FALSE]

appendText(s, delta) ==
  IF delta = <<>> THEN s
  ELSE flushTextChunks([closeReasoning(s) EXCEPT !.inText = @ \o delta, !.fullText = @ \o delta])

-----------------------------------------------------------------------------
(* The two maps. *)

With(f, key, value) == [k \in DOMAIN f \union {key} |-> IF k = key THEN value ELSE f[k]]

Without(f, key) == Restrict(f, DOMAIN f \ {key})

-----------------------------------------------------------------------------
(* Tool calls and their results. *)

Knowing(s, call, from) ==
  IF call \in DOMAIN s.executions THEN s
  ELSE [s EXCEPT !.executions = With(@, call, from)]

emitExecution(s, kind, call) == emit(s, kind, <<>>, call, s.executions[call] = "call")

foldToolCall(s, call) ==
  IF call = Blank THEN s
  ELSE IF call \in s.seenCalls THEN Knowing(s, call, "call")
  ELSE emitExecution(
         closeText(closeReasoning([Knowing(s, call, "call") EXCEPT !.seenCalls = @ \union {call}])),
         "ToolGroup", call)

\* A result is rendered with what it carries itself.
BugFoldToolResult(s, call) ==
  IF call = Blank \/ call \in s.seenResults THEN s
  ELSE emit([Knowing(s, call, "result") EXCEPT !.seenResults = @ \union {call}],
            "ToolResult", <<>>, call, FALSE)

foldToolResult(s, call) ==
  IF call = Blank \/ call \in s.seenResults THEN s
  ELSE emitExecution([Knowing(s, call, "result") EXCEPT !.seenResults = @ \union {call}],
                     "ToolResult", call)

-----------------------------------------------------------------------------
(* Responses. *)

announceResponse(s, response) ==
  IF response = Blank \/ response \in s.startedResponses THEN s
  ELSE emit([s EXCEPT !.startedResponses = @ \union {response}],
            "ResponseStart", <<>>, response, FALSE)

recomputeAttribution(s) ==
  [s EXCEPT !.agent =
     IF Cardinality(DOMAIN s.liveResponses) = 1
     THEN s.liveResponses[CHOOSE r \in DOMAIN s.liveResponses : TRUE] ELSE Blank]

\* What one response ended stays ended for the whole subscription.
BugStartResponse(s, response, model) ==
  IF response = Blank THEN s
  ELSE LET live == IF response \notin DOMAIN s.liveResponses \/ model # Blank
                   THEN With(s.liveResponses, response, model) ELSE s.liveResponses
       IN  announceResponse(recomputeAttribution([s EXCEPT !.liveResponses = live]), response)

startResponse(s, response, model) ==
  IF response = Blank THEN s
  ELSE LET live == IF response \notin DOMAIN s.liveResponses \/ model # Blank
                   THEN With(s.liveResponses, response, model) ELSE s.liveResponses
       IN  announceResponse(
             recomputeAttribution([s EXCEPT !.liveResponses = live, !.endedResponse = FALSE]),
             response)

\* The live set shrinks before the text is flushed.
BugEndResponse(s, response) ==
  LET left   == recomputeAttribution([s EXCEPT !.liveResponses = Without(@, response)])
      closed == emit(closeReasoning(closeText(left)), "ResponseEnd", <<>>, response, FALSE)
  IN  [closed EXCEPT !.endedResponse = TRUE, !.iteration = @ + 1]

endResponse(s, response) ==
  LET closed == emit(closeReasoning(closeText(s)), "ResponseEnd", <<>>, response, FALSE)
  IN  [recomputeAttribution([closed EXCEPT !.liveResponses = Without(@, response)]) EXCEPT
         !.endedResponse = TRUE, !.iteration = @ + 1]

-----------------------------------------------------------------------------
(* fold, and Blocks around it. *)

Fold(s, e) ==
  CASE e.kind \in Speaking            -> startResponse(s, e.response, e.model)
    [] e.kind = "response.queued"     -> announceResponse(s, e.response)
    [] e.kind = "reasoning.started"   -> beginReasoning(s)
    [] e.kind = "reasoning.delta"     -> appendReasoning(s, e.text, FALSE)
    [] e.kind = "summary.delta"       -> appendReasoning(s, e.text, TRUE)
    [] e.kind = "text.delta"          -> appendText(s, e.text)
    [] e.kind = "message"             -> foldMessage(s, e.text)
    [] e.kind = "call"                -> foldToolCall(s, e.call)
    [] e.kind = "call.output"         -> foldToolResult(s, e.call)
    [] e.kind \in Plain               -> put(s, e.kind)
    [] e.kind \in Terminal            -> endResponse(s, e.response)
    [] OTHER                          -> s

Live(s) == DOMAIN s.liveResponses

Listen(e) ==
  /\ events' = events + 1
  /\ spoken' = IF e.kind = "text.delta" THEN spoken \o e.text ELSE spoken
  /\ thought' = IF e.kind \in {"reasoning.delta", "summary.delta"} THEN thought \o e.text
                                                                  ELSE thought
  /\ heard' = IF e.kind # "text.delta" THEN heard
              ELSE Live(fold) \union IF fold.fullText = <<>> THEN {} ELSE heard
  /\ muddled' = (muddled \/ (e.kind \in Terminal /\ Live(fold') # {}))

Receive(e) ==
  /\ pc = "folding" /\ events < MaxEvents
  /\ fold' = Fold(fold, e)
  /\ pc' = IF fold'.stopped THEN "over" ELSE "folding"
  /\ Listen(e)
  /\ UNCHANGED patience

\* Skipped once the response speaking has already ended.
Salvaged(s) == IF s.endedResponse THEN s ELSE closeReasoning(closeText(s))

Fails ==
  /\ pc = "folding"
  /\ fold' = put(Salvaged(fold), "failure")
  /\ pc' = "over"
  /\ UNCHANGED <<patience, ghosts>>

Closes ==
  /\ pc = "folding"
  /\ fold' = Salvaged(fold)
  /\ pc' = "over"
  /\ UNCHANGED <<patience, ghosts>>

Finished == pc = "over" /\ UNCHANGED vars

Next == (\E e \in Feed : Receive(e)) \/ Fails \/ Closes \/ Finished

Spec == Init /\ [][Next]_vars

-----------------------------------------------------------------------------
(***************************************************************************)
(* Properties.                                                             *)
(***************************************************************************)

out == fold.out

\* The text of the blocks of some kinds between two places, end to end.
Said(kinds, i, j) ==
  FlattenSeq([k \in 1..(j - i + 1) |->
                IF out[i + k - 1].kind \in kinds THEN out[i + k - 1].text ELSE <<>>])
All(kinds) == Said(kinds, 1, Len(out))

\* A caller that draws the chunks draws what the deltas said, all of it, once and in
\* order, whatever items, tool calls and ends come between them; and one that draws
\* finished sections draws each text once: a TextDone holds what was streamed since the
\* last one, or the finished item's own statement of it, and never the two together
\* (inText, fullText, foldMessage).
ChunksAreSpoken ==
  /\ ~fold.stopped => All({"TextChunk"}) \o fold.inText = spoken
  /\ \A i \in 1..Len(out) : out[i].kind = "TextDone" =>
       LET before == {0} \union {j \in 1..(i - 1) : out[j].kind = "TextDone"}
           text   == out[i].text
       IN  \/ text = Said({"TextChunk"}, Max(before) + 1, i - 1)
           \/ \E e \in Feed : e.kind = "message" /\ e.text = text

\* Every word of reasoning is drawn once, as it arrives or when its section closes,
\* by a caller that draws both (reasoningChunked).
ThoughtsAreShown ==
  ~fold.stopped =>
    Letters(All({"ReasoningChunk", "ReasoningBlock"}) \o fold.reasoning) = Letters(thought)

\* A call the wire reports twice is one block, and so is its result; a result that
\* follows its call carries what only the call said (executions, seenCalls).
ToolsOnce ==
  \A i, j \in 1..Len(out) : out[i].of \in Calls /\ out[j].of = out[i].of =>
    /\ out[i].kind = out[j].kind => i = j
    /\ out[i].kind = "ToolGroup" /\ out[j].kind = "ToolResult" /\ i < j => out[j].known

\* A sequence that breaks or closes while a response is speaking has first handed
\* over everything it said, and an error is the last thing yielded (Blocks).
AnswerSalvaged ==
  pc = "over" /\ ~fold.stopped /\ Live(fold) # {} /\ ~muddled =>
    /\ fold.inText = <<>> /\ fold.fullText = <<>> /\ ~fold.inReasoning
    /\ \A i \in 1..(Len(out) - 1) : out[i].kind # "failure"

\* Text is credited to an agent only when no other one can have said it: no part of
\* it arrived while another response was live (recomputeAttribution, endResponse).
CreditIsCertain ==
  [][\A i \in (Len(out) + 1)..Len(out') :
       out'[i].kind = "TextChunk" /\ out'[i].agent # Blank =>
         \A r \in heard' : Model[r] = out'[i].agent]_vars

\* What the comments in Blocks and startResponse say: whatever was accumulated is
\* still the answer, unless the response speaking has already ended.
SalvagesSpeaking ==
  pc = "over" /\ ~fold.stopped /\ Live(fold) # {} => fold.inText = <<>>
=============================================================================
