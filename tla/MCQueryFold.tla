---------------------------- MODULE MCQueryFold ----------------------------
(***************************************************************************)
(* Instances of QueryFold for TLC.                                         *)
(***************************************************************************)
EXTENDS QueryFold

CONSTANTS p, q, c1, coder, helper

\* A response and a sub-agent's, which overlap it.
ModelOf == (p :> coder) @@ (q :> helper)

L == "letter"
S == "space"
N == "newline"

Announcement(kind, r, m) == [kind |-> kind, response |-> r, model |-> m]
Delta(kind, t)           == [kind |-> kind, text |-> t]

\* Texts under and over the threshold, with a break and without; lines of reasoning
\* whole, blank and unfinished; an item with the text and one without.
OverlapFeed ==
  {Announcement("response.created", p, coder), Announcement("response.created", q, helper),
   Announcement("response.in_progress", p, Blank), Announcement("response.queued", q, helper),
   [kind |-> "response.completed", response |-> p], [kind |-> "response.cancelled", response |-> q],
   Delta("text.delta", <<L>>), Delta("text.delta", <<L, S, L>>), Delta("text.delta", <<S, L, L, L>>),
   Delta("reasoning.delta", <<L>>), Delta("reasoning.delta", <<L, N, N, S>>),
   Delta("summary.delta", <<N>>), [kind |-> "reasoning.started"],
   Delta("message", <<"final">>), Delta("message", <<>>),
   [kind |-> "call", call |-> c1], [kind |-> "call.output", call |-> c1],
   [kind |-> "file"], [kind |-> "other"]}

OneModel == p :> coder

\* What one turn's answer is made of: deltas, items, a call between them, a file, and
\* ends, of which some are intermediate.
TurnFeed ==
  {Announcement("response.created", p, coder), [kind |-> "response.completed", response |-> p],
   Delta("text.delta", <<L>>), Delta("text.delta", <<L, S, L>>),
   Delta("message", <<"final">>), Delta("message", <<>>),
   [kind |-> "call", call |-> c1], [kind |-> "call.output", call |-> c1],
   [kind |-> "file"]}
=============================================================================
