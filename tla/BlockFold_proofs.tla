-------------------------- MODULE BlockFold_proofs ---------------------------
(***************************************************************************)
(* Proofs about BlockFold and QueryFold, for every set of responses, calls *)
(* and events, every threshold, and a caller that leaves after any block.  *)
(***************************************************************************)
EXTENDS QueryFold, SequenceFacts, FiniteSetTheorems

-----------------------------------------------------------------------------
(* blockState, and what each method makes of it. *)

Text == Seq(Characters)
Ids  == Responses \union Calls \union {Blank}

States ==
  [agent : Models, iteration : Nat,
   startedResponses : SUBSET Responses,
   liveResponses : UNION {[R -> Models] : R \in SUBSET Responses},
   inText : Text, fullText : Text,
   inReasoning : BOOLEAN, reasoning : Text, reasoningText : Text,
   summaryText : Text, reasoningChunked : BOOLEAN,
   endedResponse : BOOLEAN,
   executions : UNION {[C -> {"call", "result"}] : C \in SUBSET Calls},
   seenCalls : SUBSET Calls, seenResults : SUBSET Calls,
   stopped : BOOLEAN, out : Seq(Block)]

\* The block that emit makes of its arguments.
Made(s, kind, text, of, known) ==
  [kind |-> kind, agent |-> s.agent, iteration |-> s.iteration, text |-> text, of |-> of,
   known |-> known]

\* n is s with that block yielded, unless the caller has left.
Yielded(s, n, block) ==
  /\ n \in States
  /\ n = [s EXCEPT !.out = n.out, !.stopped = n.stopped]
  /\ IF s.stopped THEN n = s ELSE n.out = Append(s.out, block)

LEMMA EmitYields ==
  ASSUME NEW s \in States, NEW kind \in Kinds, NEW text \in Text, NEW of \in Ids,
         NEW known \in BOOLEAN
  PROVE  /\ Made(s, kind, text, of, known) \in Block
         /\ Yielded(s, emit(s, kind, text, of, known), Made(s, kind, text, of, known))
<1>1. Made(s, kind, text, of, known) \in Block
  BY DEF Made, Block, States, Ids, Text
<1> DEFINE b == Made(s, kind, text, of, known)
           n == [s EXCEPT !.out = Append(@, b), !.stopped = Len(s.out) + 1 >= patience]
<1>2. emit(s, kind, text, of, known) = IF s.stopped THEN s ELSE n
  BY Zenon DEF emit, Made
<1> HIDE DEF b
<1>3. n.out = Append(s.out, b) /\ n.stopped = (Len(s.out) + 1 >= patience)
  BY DEF States
<1>5. n.out \in Seq(Block) /\ n.stopped \in BOOLEAN
  BY <1>1, <1>3 DEF States, b
<1>6. n = [s EXCEPT !.out = n.out, !.stopped = n.stopped]
  BY <1>3 DEF States
<1>7. n \in States
  <2> DEFINE oo == n.out
             st == n.stopped
  <2> HIDE DEF oo, st
  <2>1. n = [s EXCEPT !.out = oo, !.stopped = st]
    BY <1>6 DEF oo, st
  <2>2. oo \in Seq(Block) /\ st \in BOOLEAN
    BY <1>5 DEF oo, st
  <2> HIDE DEF n
  <2> QED
    BY <2>1, <2>2 DEF States
<1>4. s = [s EXCEPT !.out = s.out, !.stopped = s.stopped]
  BY DEF States
<1> HIDE DEF n
<1> QED
  BY <1>1, <1>2, <1>3, <1>4, <1>6, <1>7 DEF Yielded, b

\* n has the blocks of s, and after them only blocks of these kinds.
Extends(s, n, kinds) ==
  /\ n \in States
  /\ s.stopped => n.stopped /\ n.out = s.out
  /\ Len(s.out) <= Len(n.out)
  /\ \A i \in 1..Len(s.out) : n.out[i] = s.out[i]
  /\ \A i \in (Len(s.out) + 1)..Len(n.out) : n.out[i].kind \in kinds

\* None of them is about an identifier, and all have the context of s.
Grows(s, n, kinds) ==
  /\ Extends(s, n, kinds)
  /\ n.agent = s.agent
  /\ \A i \in (Len(s.out) + 1)..Len(n.out) : n.out[i].of = Blank /\ n.out[i].agent = s.agent

LEMMA GrowsStill ==
  ASSUME NEW s \in States, NEW n \in States, NEW kinds,
         n.out = s.out, n.stopped = s.stopped, n.agent = s.agent
  PROVE  Grows(s, n, kinds)
<1>1. Len(s.out) \in Nat
  BY DEF States
<1> QED
  BY <1>1 DEF Grows, Extends

LEMMA GrowsByOne ==
  ASSUME NEW s \in States, NEW n \in States, NEW kinds, NEW b \in Block,
         b.kind \in kinds, b.of = Blank, b.agent = s.agent, n.agent = s.agent,
         s.stopped => n.stopped /\ n.out = s.out,
         ~s.stopped => n.out = Append(s.out, b)
  PROVE  Grows(s, n, kinds)
<1>1. s.out \in Seq(Block) /\ Len(s.out) \in Nat /\ s.stopped \in BOOLEAN
  BY DEF States
<1>2. CASE s.stopped
  BY <1>1, <1>2 DEF Grows, Extends
<1>3. CASE ~s.stopped
  <2> DEFINE o == s.out
             m == n.out
  <2>1. m = Append(o, b) /\ o \in Seq(Block)
    BY <1>1, <1>3
  <2> HIDE DEF o, m
  <2>2. Len(o) \in Nat /\ Len(m) = Len(o) + 1 /\ m[Len(o) + 1] = b
        /\ \A i \in 1..Len(o) : m[i] = o[i]
    BY <2>1
  <2>3. \A i \in (Len(o) + 1)..Len(m) : m[i] = b
    BY <2>2
  <2> QED
    BY <1>3, <2>2, <2>3 DEF Grows, Extends, o, m
<1> QED
  BY <1>1, <1>2, <1>3

LEMMA GrowsTrans ==
  ASSUME NEW s \in States, NEW m, NEW n, NEW K, NEW L, NEW kinds,
         Grows(s, m, K), Grows(m, n, L), K \subseteq kinds, L \subseteq kinds
  PROVE  Grows(s, n, kinds)
<1>1. Len(s.out) \in Nat /\ Len(m.out) \in Nat /\ Len(n.out) \in Nat
  BY DEF Grows, Extends, States
<1>2. n \in States /\ n.agent = s.agent /\ Len(s.out) <= Len(n.out)
      /\ (s.stopped => n.stopped /\ n.out = s.out)
  BY <1>1 DEF Grows, Extends
<1>3. \A i \in 1..Len(s.out) : n.out[i] = s.out[i]
  BY <1>1 DEF Grows, Extends
<1>4. ASSUME NEW i \in (Len(s.out) + 1)..Len(n.out)
      PROVE  n.out[i].kind \in kinds /\ n.out[i].of = Blank /\ n.out[i].agent = s.agent
  <2>1. CASE i <= Len(m.out)
    BY <1>1, <2>1 DEF Grows, Extends
  <2>2. CASE i > Len(m.out)
    BY <1>1, <2>2 DEF Grows, Extends
  <2> QED
    BY <1>1, <2>1, <2>2
<1> QED
  BY <1>2, <1>3, <1>4 DEF Grows, Extends

\* The fields of the text, of the reasoning, of the tools and of the responses.
TextPart(s)    == <<s.inText, s.fullText>>
ThoughtPart(s) == <<s.inReasoning, s.reasoning, s.reasoningText, s.summaryText,
                    s.reasoningChunked>>
ToolPart(s)    == <<s.executions, s.seenCalls, s.seenResults>>
LivePart(s)    == <<s.agent, s.iteration, s.startedResponses, s.liveResponses,
                    s.endedResponse>>

Others(s, n) == ThoughtPart(n) = ThoughtPart(s) /\ ToolPart(n) = ToolPart(s)
                /\ LivePart(n) = LivePart(s)

\* The front of the pending text yielded as a chunk.
Chunked(s, n) ==
  \E c \in Text :
    /\ n \in States /\ n.fullText = s.fullText /\ Others(s, n)
    /\ s.inText # <<>> /\ s.inText = c \o n.inText
    /\ Made(s, "TextChunk", c, Blank, FALSE) \in Block
    /\ s.stopped => n.stopped /\ n.out = s.out
    /\ ~s.stopped => n.out = Append(s.out, Made(s, "TextChunk", c, Blank, FALSE))

LEMMA ShowChunk ==
  ASSUME NEW s \in States, NEW c \in Text, NEW rest \in Text,
         s.inText # <<>>, s.inText = c \o rest
  PROVE  Chunked(s, [show(s, "TextChunk", c) EXCEPT !.inText = rest])
<1> DEFINE b == Made(s, "TextChunk", c, Blank, FALSE)
           m == emit(s, "TextChunk", c, Blank, FALSE)
           n == [m EXCEPT !.inText = rest]
<1>1. b \in Block /\ Yielded(s, m, b)
  <2>1. "TextChunk" \in Kinds /\ Blank \in Ids /\ FALSE \in BOOLEAN
    BY DEF Kinds, Ids
  <2> QED
    BY <2>1, EmitYields, Zenon
<1> HIDE DEF b, m
<1>2. m \in States /\ m = [s EXCEPT !.out = m.out, !.stopped = m.stopped]
      /\ IF s.stopped THEN m = s ELSE m.out = Append(s.out, b)
  BY <1>1 DEF Yielded
<1>3. n \in States /\ n.inText = rest /\ n.out = m.out /\ n.stopped = m.stopped
  BY <1>2 DEF States, Text
<1>4. n.fullText = s.fullText /\ Others(s, n)
  BY <1>2 DEF Others, ThoughtPart, ToolPart, LivePart, States
<1>5. s.stopped => n.stopped /\ n.out = s.out
  BY <1>2, <1>3
<1>6. ~s.stopped => n.out = Append(s.out, b)
  BY <1>2, <1>3
<1> HIDE DEF n
<1>7. Chunked(s, n)
  BY <1>1, <1>3, <1>4, <1>5, <1>6 DEF Chunked, b
<1> QED
  BY <1>7 DEF n, m, show

LEMMA FlushOnceChunks ==
  ASSUME NEW s \in States
  PROVE  flushOnce(s) = s \/ Chunked(s, flushOnce(s))
<1> DEFINE t    == s.inText
           cuts == {i \in 2..Len(t) : t[i] \in White}
           cut  == IF cuts = {} THEN Len(t) ELSE Max(cuts)
           c    == SubSeq(t, 1, cut)
           rest == SubSeq(t, cut + 1, Len(t))
<1> SUFFICES ASSUME Len(t) >= threshold PROVE Chunked(s, flushOnce(s))
  <2>1. Len(t) \in Nat /\ threshold \in Nat
    BY FoldAssumption DEF States, Text
  <2>2. Len(t) < threshold => flushOnce(s) = s
    BY Zenon DEF flushOnce
  <2> QED
    BY <2>1, <2>2
<1>1. t \in Text /\ t \in Seq(Characters) /\ Len(t) \in Nat /\ Len(t) # 0 /\ ~(Len(t) < threshold)
  BY FoldAssumption DEF States, Text
<1>2. cut \in 0..Len(t)
  <2>1. CASE cuts = {}
    BY <1>1, <2>1
  <2>2. CASE cuts # {}
    <3>1. cuts \in SUBSET (0..Len(t))
      BY <1>1
    <3>2. Max(cuts) \in cuts
      <4> HIDE DEF cuts
      <4> QED
        BY <1>1, <2>2, <3>1, LastExists
    <3> QED
      BY <1>1, <2>2, <3>2
  <2> QED
    BY <2>1, <2>2
<1>3. c \in Text /\ rest \in Text /\ t = c \o rest
  <2> HIDE DEF cut
  <2> QED
    BY <1>1, <1>2, SplitAt DEF Text
<1>4. Chunked(s, [show(s, "TextChunk", c) EXCEPT !.inText = rest])
  <2> HIDE DEF c, rest
  <2>1. s.inText # <<>> /\ s.inText = c \o rest
    BY <1>1, <1>3
  <2> QED
    BY <1>3, <2>1, ShowChunk
<1>5. show(s, "TextChunk", c).inText = t
  <2> HIDE DEF c
  <2>1. "TextChunk" \in Kinds /\ Blank \in Ids /\ FALSE \in BOOLEAN
    BY DEF Kinds, Ids
  <2>2. Yielded(s, show(s, "TextChunk", c), Made(s, "TextChunk", c, Blank, FALSE))
    BY <1>3, <2>1, EmitYields DEF show
  <2> DEFINE m == show(s, "TextChunk", c)
  <2> HIDE DEF m
  <2>3. m = [s EXCEPT !.out = m.out, !.stopped = m.stopped]
    BY <2>2 DEF Yielded, m
  <2>4. m.inText = s.inText
    BY <2>3 DEF States
  <2> QED
    BY <2>4 DEF m
<1>6. flushOnce(s) = [show(s, "TextChunk", c) EXCEPT !.inText = SubSeq(@, cut + 1, Len(@))]
  BY <1>1, Zenon DEF flushOnce
<1>7. flushOnce(s) = [show(s, "TextChunk", c) EXCEPT !.inText = rest]
  <2> HIDE DEF cut, c
  <2> QED
    BY <1>5, <1>6
<1> QED
  BY <1>4, <1>7

\* The finished section yielded.
Finishes(s, n) ==
  /\ n \in States /\ n.inText = s.inText /\ n.fullText = <<>> /\ Others(s, n)
  /\ Made(s, "TextDone", s.fullText, Blank, FALSE) \in Block
  /\ s.stopped => n.stopped /\ n.out = s.out
  /\ ~s.stopped => n.out = Append(s.out, Made(s, "TextDone", s.fullText, Blank, FALSE))

LEMMA ShowDone ==
  ASSUME NEW s \in States
  PROVE  Finishes(s, [show(s, "TextDone", s.fullText) EXCEPT !.fullText = <<>>])
<1> DEFINE c == s.fullText
           b == Made(s, "TextDone", c, Blank, FALSE)
           m == emit(s, "TextDone", c, Blank, FALSE)
           n == [m EXCEPT !.fullText = <<>>]
<1>1. b \in Block /\ Yielded(s, m, b)
  <2>1. "TextDone" \in Kinds /\ Blank \in Ids /\ FALSE \in BOOLEAN /\ c \in Text
    BY DEF Kinds, Ids, States
  <2> HIDE DEF c
  <2> QED
    BY <2>1, EmitYields, Zenon
<1> HIDE DEF b, m
<1>2. m \in States /\ m = [s EXCEPT !.out = m.out, !.stopped = m.stopped]
      /\ IF s.stopped THEN m = s ELSE m.out = Append(s.out, b)
  BY <1>1 DEF Yielded
<1>3. n \in States /\ n.fullText = <<>> /\ n.out = m.out /\ n.stopped = m.stopped
  <2> DEFINE none == <<>>
  <2>1. none \in Text /\ n = [m EXCEPT !.fullText = none]
    BY DEF Text
  <2> HIDE DEF none
  <2>2. n \in States /\ n.fullText = none /\ n.out = m.out /\ n.stopped = m.stopped
    BY <1>2, <2>1 DEF States
  <2> QED
    BY <2>2 DEF none
<1>4. n.inText = s.inText /\ Others(s, n)
  BY <1>2 DEF Others, ThoughtPart, ToolPart, LivePart, States
<1>5. s.stopped => n.stopped /\ n.out = s.out
  BY <1>2, <1>3
<1>6. ~s.stopped => n.out = Append(s.out, b)
  BY <1>2, <1>3
<1> HIDE DEF n
<1>7. Finishes(s, n)
  BY <1>1, <1>3, <1>4, <1>5, <1>6 DEF Finishes, b
<1> QED
  BY <1>7 DEF n, m, show

\* closeText yields what is pending, and then the section, if there is one.
LEMMA CloseTextSteps ==
  ASSUME NEW s \in States
  PROVE  \E m \in States :
           /\ m.inText = <<>> /\ m.fullText = s.fullText /\ Others(s, m)
           /\ \/ m = s
              \/ Chunked(s, m)
           /\ IF s.fullText = <<>> THEN closeText(s) = m ELSE Finishes(m, closeText(s))
<1> DEFINE m == IF s.inText = <<>> THEN s
                ELSE [show(s, "TextChunk", s.inText) EXCEPT !.inText = <<>>]
<1>1. /\ m \in States /\ m.inText = <<>> /\ m.fullText = s.fullText /\ Others(s, m)
      /\ m = s \/ Chunked(s, m)
  <2>1. CASE s.inText = <<>>
    BY <2>1 DEF Others, ThoughtPart, ToolPart, LivePart
  <2>2. CASE s.inText # <<>>
    <3>1. s.inText \in Text /\ <<>> \in Text /\ s.inText = s.inText \o <<>>
      BY DEF States, Text
    <3> DEFINE n == [show(s, "TextChunk", s.inText) EXCEPT !.inText = <<>>]
    <3>2. Chunked(s, n)
      BY <2>2, <3>1, ShowChunk
    <3> HIDE DEF n
    <3>3. n \in States /\ n.fullText = s.fullText /\ Others(s, n)
      BY <3>2 DEF Chunked
    <3>4. n.inText = <<>>
      <4>1. "TextChunk" \in Kinds /\ Blank \in Ids /\ FALSE \in BOOLEAN
        BY DEF Kinds, Ids
      <4>2. Yielded(s, show(s, "TextChunk", s.inText), Made(s, "TextChunk", s.inText, Blank, FALSE))
        BY <3>1, <4>1, EmitYields DEF show
      <4>3. show(s, "TextChunk", s.inText) \in States
        BY <4>2 DEF Yielded
      <4> QED
        BY <4>3 DEF n, States
    <3>5. m = n
      BY <2>2 DEF n
    <3> QED
      BY <3>2, <3>3, <3>4, <3>5
  <2> QED
    BY <2>1, <2>2
<1>2. closeText(s) = IF s.fullText = <<>> THEN m
                     ELSE [show(m, "TextDone", s.fullText) EXCEPT !.fullText = <<>>]
  BY Zenon DEF closeText
<1> HIDE DEF m
<1>3. s.fullText # <<>> => Finishes(m, closeText(s))
  BY <1>1, <1>2, ShowDone
<1> QED
  BY <1>1, <1>2, <1>3

-----------------------------------------------------------------------------
(* What the blocks between two places say, end to end. *)

Piece(b, kinds) == IF b.kind \in kinds THEN b.text ELSE <<>>

Pieces(o, kinds, i, j) ==
  [k \in 1..(j - i + 1) |-> IF o[i + k - 1].kind \in kinds THEN o[i + k - 1].text ELSE <<>>]

Slice(o, kinds, i, j) == FlattenSeq(Pieces(o, kinds, i, j))

LEMMA PiecesType ==
  ASSUME NEW o \in Seq(Block), NEW kinds, NEW i \in 1..(Len(o) + 1), NEW j \in (i - 1)..Len(o)
  PROVE  /\ Pieces(o, kinds, i, j) \in Seq(Text) /\ Len(Pieces(o, kinds, i, j)) = j - i + 1
         /\ Slice(o, kinds, i, j) \in Text
<1>1. ASSUME NEW k \in 1..(j - i + 1)
      PROVE  (IF o[i + k - 1].kind \in kinds THEN o[i + k - 1].text ELSE <<>>) \in Text
  <2>1. o[i + k - 1] \in Block
    BY ElementOfSeq
  <2>2. o[i + k - 1].text \in Text /\ <<>> \in Text
    BY <2>1 DEF Block, Text
  <2> QED
    BY <2>2, Zenon
<1> DEFINE n == j - i + 1
<1>2. n \in Nat
  OBVIOUS
<1>3. Pieces(o, kinds, i, j) \in [1..n -> Text]
  BY <1>1, Zenon DEF Pieces
<1> HIDE DEF n
<1>4. Pieces(o, kinds, i, j) \in Seq(Text) /\ Len(Pieces(o, kinds, i, j)) = n
  BY <1>2, <1>3
<1> QED
  BY <1>4, FlattenType DEF Slice, Text, n

LEMMA SliceNone ==
  ASSUME NEW o \in Seq(Block), NEW kinds, NEW i \in 1..(Len(o) + 1)
  PROVE  Slice(o, kinds, i, i - 1) = <<>>
<1>1. Len(Pieces(o, kinds, i, i - 1)) = 0 /\ Pieces(o, kinds, i, i - 1) \in Seq(Text)
  BY PiecesType
<1>2. Pieces(o, kinds, i, i - 1) = <<>>
  BY <1>1
<1> QED
  BY <1>2, FlattenNone DEF Slice

LEMMA SliceNext ==
  ASSUME NEW o \in Seq(Block), NEW kinds, NEW i \in 1..(Len(o) + 1), NEW j \in (i - 1)..(Len(o) - 1)
  PROVE  Slice(o, kinds, i, j + 1) = Slice(o, kinds, i, j) \o Piece(o[j + 1], kinds)
<1> DEFINE a == Pieces(o, kinds, i, j)
           b == Pieces(o, kinds, i, j + 1)
           x == Piece(o[j + 1], kinds)
           n == j - i + 1
<1>1. j \in (i - 1)..Len(o) /\ j + 1 \in (i - 1)..Len(o) /\ n \in Nat /\ (j + 1) - i + 1 = n + 1
      /\ i + (n + 1) - 1 = j + 1
  OBVIOUS
<1>2. a \in Seq(Text) /\ Len(a) = n /\ b \in Seq(Text) /\ Len(b) = n + 1
  BY <1>1, PiecesType
<1>3. b[n + 1] = x
  BY <1>1 DEF Pieces, Piece
<1>4. \A k \in 1..n : b[k] = a[k]
  BY <1>1 DEF Pieces
<1> HIDE DEF a, b, x, n
<1>5. x \in Text
  BY <1>1, <1>2, <1>3, ElementOfSeq
<1>6. b = Append(a, x)
  <2>1. Append(a, x) \in Seq(Text) /\ Len(Append(a, x)) = n + 1
    BY <1>2, <1>5, AppendProperties
  <2>2. \A k \in 1..(n + 1) : Append(a, x)[k] = b[k]
    BY <1>1, <1>2, <1>3, <1>4, <1>5
  <2> QED
    BY <1>2, <2>1, <2>2, SeqEqual
<1> QED
  BY <1>2, <1>5, <1>6, FlattenAppend DEF Slice, a, b, x, Text

LEMMA SliceSame ==
  ASSUME NEW o, NEW m, NEW kinds, NEW i \in Int, NEW j \in Int, \A k \in i..j : m[k] = o[k]
  PROVE  Slice(m, kinds, i, j) = Slice(o, kinds, i, j)
<1>1. \A k \in 1..(j - i + 1) : i + k - 1 \in i..j
  OBVIOUS
<1>2. Pieces(m, kinds, i, j) = Pieces(o, kinds, i, j)
  BY <1>1 DEF Pieces
<1> QED
  BY <1>2 DEF Slice

\* Blocks of other kinds add nothing.
LEMMA SliceQuiet ==
  ASSUME NEW o \in Seq(Block), NEW m \in Seq(Block), NEW kinds, NEW i \in 1..(Len(o) + 1),
         Len(o) <= Len(m), \A k \in 1..Len(o) : m[k] = o[k],
         \A k \in (Len(o) + 1)..Len(m) : m[k].kind \notin kinds
  PROVE  Slice(m, kinds, i, Len(m)) = Slice(o, kinds, i, Len(o))
<1> DEFINE d == Len(m) - Len(o)
           T == {k \in 0..d : Slice(m, kinds, i, Len(o) + k) = Slice(o, kinds, i, Len(o))}
<1>1. Len(o) \in Nat /\ Len(m) \in Nat /\ d \in Nat /\ Len(o) + d = Len(m) /\ i \in Int
  OBVIOUS
<1>2. 0 \in T
  <2>1. Slice(m, kinds, i, Len(o)) = Slice(o, kinds, i, Len(o))
    BY <1>1, SliceSame
  <2> QED
    BY <1>1, <2>1
<1>3. ASSUME NEW k \in 0..(d - 1), k \in T PROVE k + 1 \in T
  <2>1. Len(o) + k \in (i - 1)..(Len(m) - 1) /\ i \in 1..(Len(m) + 1)
    BY <1>1
  <2>2. Slice(m, kinds, i, (Len(o) + k) + 1)
          = Slice(m, kinds, i, Len(o) + k) \o Piece(m[(Len(o) + k) + 1], kinds)
    BY <2>1, SliceNext
  <2>3. Piece(m[(Len(o) + k) + 1], kinds) = <<>>
    BY <1>1 DEF Piece
  <2>4. Slice(m, kinds, i, Len(o) + k) \in Text
    BY <1>1, <2>1, PiecesType
  <2>5. Slice(m, kinds, i, Len(o) + k) \o <<>> = Slice(m, kinds, i, Len(o) + k)
    BY <2>4, ConcatEmptySeq DEF Text
  <2>6. Slice(m, kinds, i, (Len(o) + k) + 1) = Slice(o, kinds, i, Len(o))
    BY <1>3, <2>2, <2>3, <2>5
  <2>7. (Len(o) + k) + 1 = Len(o) + (k + 1) /\ k + 1 \in 0..d
    BY <1>1
  <2> QED
    BY <2>6, <2>7
<1> HIDE DEF d, T
<1>4. 0..d \subseteq T
  BY <1>1, <1>2, <1>3, PrefixInduction
<1>5. d \in T
  BY <1>1, <1>4
<1> QED
  BY <1>1, <1>5 DEF T

\* One block more.
LEMMA SliceAppend ==
  ASSUME NEW o \in Seq(Block), NEW b \in Block, NEW kinds, NEW i \in 1..(Len(o) + 1)
  PROVE  Slice(Append(o, b), kinds, i, Len(o) + 1) = Slice(o, kinds, i, Len(o)) \o Piece(b, kinds)
<1> DEFINE m == Append(o, b)
<1>1. /\ m \in Seq(Block) /\ Len(m) = Len(o) + 1 /\ m[Len(o) + 1] = b /\ Len(o) \in Nat
      /\ \A k \in 1..Len(o) : m[k] = o[k]
  BY AppendProperties
<1> HIDE DEF m
<1>2. Len(o) \in (i - 1)..(Len(m) - 1) /\ i \in 1..(Len(m) + 1) /\ i \in Int
  BY <1>1
<1>3. Slice(m, kinds, i, Len(o) + 1) = Slice(m, kinds, i, Len(o)) \o Piece(b, kinds)
  BY <1>1, <1>2, SliceNext
<1>4. Slice(m, kinds, i, Len(o)) = Slice(o, kinds, i, Len(o))
  BY <1>1, <1>2, SliceSame
<1> QED
  BY <1>3, <1>4 DEF m

-----------------------------------------------------------------------------
(* The book of the text. *)

DonesTo(o, n)  == {0} \union {j \in 1..n : o[j].kind = "TextDone"}
LastDone(o, n) == Max(DonesTo(o, n))

Chunks(o) == Slice(o, {"TextChunk"}, 1, Len(o))
Since(o)  == Slice(o, {"TextChunk"}, LastDone(o, Len(o)) + 1, Len(o))

Message(text) == \E e \in Feed : e.kind = "message" /\ e.text = text

\* The second half of ChunksAreSpoken.
Dones(o) ==
  \A i \in 1..Len(o) : o[i].kind = "TextDone" =>
    \/ o[i].text = Slice(o, {"TextChunk"}, LastDone(o, i - 1) + 1, i - 1)
    \/ Message(o[i].text)

\* What was drawn and what is pending are what was said, and the section so far is
\* what was drawn of it and what is pending.
Heard(s, sp) == Dones(s.out) /\ (~s.stopped => Chunks(s.out) \o s.inText = sp)
Section(s)   == ~s.stopped => s.fullText = Since(s.out) \o s.inText

TextBook(s, sp) == Heard(s, sp) /\ Section(s)

LEMMA LastDoneType ==
  ASSUME NEW o, NEW n \in Nat
  PROVE  LastDone(o, n) \in 0..n /\ DonesTo(o, n) \in SUBSET (0..n)
<1>1. DonesTo(o, n) \in SUBSET (0..n) /\ DonesTo(o, n) # {}
  BY DEF DonesTo
<1>2. Max(DonesTo(o, n)) \in DonesTo(o, n)
  BY <1>1, LastExists
<1> QED
  BY <1>1, <1>2 DEF LastDone

LEMMA DonesGrow ==
  ASSUME NEW o \in Seq(Block), NEW m \in Seq(Block), Dones(o),
         Len(o) <= Len(m), \A k \in 1..Len(o) : m[k] = o[k],
         \A k \in (Len(o) + 1)..Len(m) : m[k].kind # "TextDone"
  PROVE  Dones(m)
<1> SUFFICES ASSUME NEW i \in 1..Len(m), m[i].kind = "TextDone"
             PROVE  \/ m[i].text = Slice(m, {"TextChunk"}, LastDone(m, i - 1) + 1, i - 1)
                    \/ Message(m[i].text)
  BY DEF Dones
<1>1. Len(o) \in Nat /\ Len(m) \in Nat
  OBVIOUS
<1>2. i \in 1..Len(o) /\ m[i] = o[i]
  BY <1>1
<1>3. LastDone(m, i - 1) = LastDone(o, i - 1)
  <2>1. \A k \in 1..(i - 1) : m[k] = o[k]
    BY <1>1, <1>2
  <2> QED
    BY <2>1 DEF LastDone, DonesTo
<1>4. i - 1 \in Nat /\ LastDone(o, i - 1) \in 0..(i - 1)
  BY <1>1, <1>2, LastDoneType
<1>5. Slice(m, {"TextChunk"}, LastDone(o, i - 1) + 1, i - 1)
        = Slice(o, {"TextChunk"}, LastDone(o, i - 1) + 1, i - 1)
  BY <1>1, <1>2, <1>4, SliceSame
<1> QED
  BY <1>2, <1>3, <1>5 DEF Dones

LEMMA LastDoneQuiet ==
  ASSUME NEW o \in Seq(Block), NEW m \in Seq(Block),
         Len(o) <= Len(m), \A k \in 1..Len(o) : m[k] = o[k],
         \A k \in (Len(o) + 1)..Len(m) : m[k].kind # "TextDone"
  PROVE  LastDone(m, Len(m)) = LastDone(o, Len(o))
<1>1. Len(o) \in Nat /\ Len(m) \in Nat
  OBVIOUS
<1>2. DonesTo(m, Len(m)) = DonesTo(o, Len(o))
  BY <1>1 DEF DonesTo
<1> QED
  BY <1>2 DEF LastDone

LEMMA TextQuiet ==
  ASSUME NEW s \in States, NEW n, NEW kinds, NEW sp, Extends(s, n, kinds),
         "TextChunk" \notin kinds, "TextDone" \notin kinds, n.inText = s.inText
  PROVE  /\ Heard(s, sp) => Heard(n, sp)
         /\ Section(s) /\ n.fullText = s.fullText => Section(n)
<1> DEFINE o == s.out
           m == n.out
<1>1. /\ o \in Seq(Block) /\ m \in Seq(Block)
      /\ Len(o) \in Nat /\ Len(m) \in Nat /\ Len(o) <= Len(m)
      /\ \A k \in 1..Len(o) : m[k] = o[k]
      /\ \A k \in (Len(o) + 1)..Len(m) :
           m[k].kind # "TextDone" /\ m[k].kind \notin {"TextChunk"}
      /\ s.stopped => n.stopped
  BY DEF Extends, States
<1> HIDE DEF o, m
<1>2. Dones(o) => Dones(m)
  BY <1>1, DonesGrow
<1>3. Chunks(m) = Chunks(o)
  <2>1. 1 \in 1..(Len(o) + 1)
    BY <1>1
  <2> QED
    BY <1>1, <2>1, SliceQuiet DEF Chunks
<1>4. Since(m) = Since(o)
  <2>1. LastDone(m, Len(m)) = LastDone(o, Len(o))
    BY <1>1, LastDoneQuiet
  <2>2. LastDone(o, Len(o)) + 1 \in 1..(Len(o) + 1)
    BY <1>1, LastDoneType
  <2> QED
    BY <1>1, <2>1, <2>2, SliceQuiet DEF Since
<1> QED
  BY <1>1, <1>2, <1>3, <1>4 DEF Heard, Section, o, m

LEMMA TextTypes ==
  ASSUME NEW o \in Seq(Block)
  PROVE  Chunks(o) \in Text /\ Since(o) \in Text
<1> DEFINE d == LastDone(o, Len(o))
<1>1. Len(o) \in Nat /\ d \in 0..Len(o)
  BY LastDoneType
<1> HIDE DEF d
<1>2. d + 1 \in 1..(Len(o) + 1) /\ 1 \in 1..(Len(o) + 1)
      /\ Len(o) \in ((d + 1) - 1)..Len(o) /\ Len(o) \in (1 - 1)..Len(o)
  BY <1>1
<1> QED
  BY <1>1, <1>2, PiecesType DEF Chunks, Since, d

LEMMA TextAssoc == \A x, y, z \in Text : (x \o y) \o z = x \o (y \o z)
<1> TAKE x, y, z \in Text
<1>1. x \in Seq(Characters) /\ y \in Seq(Characters) /\ z \in Seq(Characters)
  BY DEF Text
<1> QED
  BY <1>1, ConcatAssociative

LEMMA TextJoin == \A x, y \in Text : x \o y \in Text
BY ConcatProperties DEF Text

LEMMA TextNil == <<>> \in Text /\ \A x \in Text : x \o <<>> = x /\ <<>> \o x = x
BY ConcatEmptySeq DEF Text

\* A chunk moves what is pending to what is drawn.
LEMMA TextChunk ==
  ASSUME NEW s \in States, NEW n, NEW sp, Chunked(s, n)
  PROVE  /\ Heard(s, sp) => Heard(n, sp)
         /\ Section(s) => Section(n)
<1>1. PICK c \in Text :
        /\ n \in States /\ n.fullText = s.fullText /\ Others(s, n)
        /\ s.inText # <<>> /\ s.inText = c \o n.inText
        /\ Made(s, "TextChunk", c, Blank, FALSE) \in Block
        /\ s.stopped => n.stopped /\ n.out = s.out
        /\ ~s.stopped => n.out = Append(s.out, Made(s, "TextChunk", c, Blank, FALSE))
  BY DEF Chunked
<1>2. CASE s.stopped
  BY <1>1, <1>2 DEF Heard, Section
<1>3. CASE ~s.stopped
  <2> DEFINE o == s.out
             b == Made(s, "TextChunk", c, Blank, FALSE)
             m == Append(o, b)
             t == n.inText
  <2>1. o \in Seq(Block) /\ b \in Block /\ b.kind = "TextChunk" /\ b.text = c /\ n.out = m
        /\ c \in Text /\ t \in Text /\ s.inText = c \o t
    BY <1>1, <1>3 DEF States, Made
  <2> HIDE DEF o, b, t
  <2>2. /\ m \in Seq(Block) /\ Len(m) = Len(o) + 1 /\ Len(o) \in Nat /\ m[Len(o) + 1] = b
        /\ \A k \in 1..Len(o) : m[k] = o[k]
    BY <2>1, AppendProperties
  <2>3. \A k \in (Len(o) + 1)..Len(m) : m[k].kind # "TextDone"
    BY <2>1, <2>2
  <2>4. Piece(b, {"TextChunk"}) = c
    BY <2>1 DEF Piece
  <2>5. Dones(o) => Dones(m)
    <3> HIDE DEF m
    <3> QED
      BY <2>1, <2>2, <2>3, DonesGrow
  <2>6. LastDone(m, Len(m)) = LastDone(o, Len(o))
    <3> HIDE DEF m
    <3> QED
      BY <2>1, <2>2, <2>3, LastDoneQuiet
  <2>7. \A i \in 1..(Len(o) + 1) :
          Slice(m, {"TextChunk"}, i, Len(m)) = Slice(o, {"TextChunk"}, i, Len(o)) \o c
    <3> TAKE i \in 1..(Len(o) + 1)
    <3>1. Slice(m, {"TextChunk"}, i, Len(o) + 1)
            = Slice(o, {"TextChunk"}, i, Len(o)) \o Piece(b, {"TextChunk"})
      BY <2>1, SliceAppend, Zenon
    <3> HIDE DEF m
    <3> QED
      BY <2>2, <2>4, <3>1
  <2>8. Chunks(m) = Chunks(o) \o c /\ Since(m) = Since(o) \o c
    <3>1. 1 \in 1..(Len(o) + 1) /\ LastDone(o, Len(o)) + 1 \in 1..(Len(o) + 1)
      BY <2>2, LastDoneType
    <3> HIDE DEF m
    <3> QED
      BY <2>6, <2>7, <3>1, Zenon DEF Chunks, Since
  <2>9. (Chunks(o) \o c) \o t = Chunks(o) \o (c \o t) /\ (Since(o) \o c) \o t = Since(o) \o (c \o t)
    <3>1. Chunks(o) \in Text /\ Since(o) \in Text
      BY <2>1, TextTypes
    <3>2. c \in Text /\ t \in Text
      BY <2>1
    <3>3. (Chunks(o) \o c) \o t = Chunks(o) \o (c \o t)
      BY <3>1, <3>2, TextAssoc, Zenon
    <3>4. (Since(o) \o c) \o t = Since(o) \o (c \o t)
      BY <3>1, <3>2, TextAssoc, Zenon
    <3> QED
      BY <3>3, <3>4
  <2>10. n.out = m /\ s.out = o /\ n.inText = t /\ s.inText = c \o t /\ n.fullText = s.fullText
    BY <1>1, <2>1 DEF o, t
  <2> HIDE DEF m
  <2> QED
    BY <1>3, <2>5, <2>7, <2>8, <2>9, <2>10 DEF Heard, Section
<1> QED
  BY <1>2, <1>3 DEF States

\* A section is finished with what was drawn of it, or with a message's own text.
LEMMA TextDone ==
  ASSUME NEW s \in States, NEW n, NEW sp, Finishes(s, n), Heard(s, sp), s.inText = <<>>,
         Section(s) \/ Message(s.fullText)
  PROVE  TextBook(n, sp)
<1>1. CASE s.stopped
  BY <1>1 DEF Heard, Section, TextBook, Finishes
<1>2. CASE ~s.stopped
  <2> DEFINE o == s.out
             c == s.fullText
             b == Made(s, "TextDone", c, Blank, FALSE)
             m == Append(o, b)
  <2>1. o \in Seq(Block) /\ b \in Block /\ b.kind = "TextDone" /\ b.text = c /\ n.out = m
        /\ n.inText = <<>> /\ n.fullText = <<>> /\ c \in Text
    BY <1>2 DEF States, Made, Finishes
  <2>2. (c = Since(o) \o <<>> \/ Message(c)) /\ Dones(o) /\ Chunks(o) \o <<>> = sp
    BY <1>2 DEF Section, Heard
  <2> HIDE DEF o, b, c
  <2>3. /\ m \in Seq(Block) /\ Len(m) = Len(o) + 1 /\ Len(o) \in Nat /\ m[Len(o) + 1] = b
        /\ \A k \in 1..Len(o) : m[k] = o[k]
    BY <2>1, AppendProperties
  <2> HIDE DEF m
  <2>4. c = Since(o) \/ Message(c)
    BY <2>1, <2>2, TextTypes, ConcatEmptySeq DEF Text
  <2>5. Dones(m)
    <3> SUFFICES ASSUME NEW i \in 1..Len(m), m[i].kind = "TextDone"
                 PROVE  \/ m[i].text = Slice(m, {"TextChunk"}, LastDone(m, i - 1) + 1, i - 1)
                        \/ Message(m[i].text)
      BY DEF Dones
    <3>1. i - 1 \in Nat /\ LastDone(m, i - 1) = LastDone(o, i - 1)
          /\ LastDone(o, i - 1) \in 0..(i - 1)
      <4>1. i - 1 \in Nat /\ \A k \in 1..(i - 1) : m[k] = o[k]
        BY <2>3
      <4>2. LastDone(m, i - 1) = LastDone(o, i - 1)
        BY <4>1 DEF LastDone, DonesTo
      <4> QED
        BY <4>1, <4>2, LastDoneType
    <3>2. Slice(m, {"TextChunk"}, LastDone(o, i - 1) + 1, i - 1)
            = Slice(o, {"TextChunk"}, LastDone(o, i - 1) + 1, i - 1)
      BY <2>3, <3>1, SliceSame
    <3>3. CASE i = Len(o) + 1
      <4>1. i - 1 = Len(o) /\ m[i].text = c
        BY <2>1, <2>3, <3>3
      <4> QED
        BY <2>4, <3>1, <3>2, <4>1 DEF Since
    <3>4. CASE i # Len(o) + 1
      <4>1. i \in 1..Len(o) /\ m[i] = o[i]
        BY <2>3, <3>4
      <4> QED
        BY <2>2, <3>1, <3>2, <4>1 DEF Dones
    <3> QED
      BY <3>3, <3>4
  <2>6. Chunks(m) = Chunks(o)
    <3>1. 1 \in 1..(Len(o) + 1) /\ \A k \in (Len(o) + 1)..Len(m) : m[k].kind \notin {"TextChunk"}
      BY <2>1, <2>3
    <3>2. Len(o) <= Len(m)
      BY <2>3
    <3> QED
      BY <2>1, <2>3, <3>1, <3>2, SliceQuiet DEF Chunks
  <2>7. Since(m) = <<>>
    <3>1. LastDone(m, Len(m)) = Len(m)
      <4>1. DonesTo(m, Len(m)) \in SUBSET (0..Len(m)) /\ Len(m) \in DonesTo(m, Len(m))
            /\ Len(m) \in Nat
        BY <2>1, <2>3, LastDoneType DEF DonesTo
      <4>2. \A y \in DonesTo(m, Len(m)) : y <= Len(m)
        BY <4>1
      <4> QED
        BY <4>1, <4>2, LastIs DEF LastDone
    <3>2. Len(m) + 1 \in 1..(Len(m) + 1) /\ (Len(m) + 1) - 1 = Len(m)
      BY <2>3
    <3> QED
      BY <2>3, <3>1, <3>2, SliceNone DEF Since
  <2>8. <<>> \o <<>> = <<>>
    BY ConcatEmptySeq, EmptySeq
  <2> QED
    BY <1>2, <2>1, <2>2, <2>5, <2>6, <2>7, <2>8 DEF TextBook, Heard, Section
<1> QED
  BY <1>1, <1>2 DEF States

-----------------------------------------------------------------------------
(* The letters of a text. *)

LEMMA LettersType == \A x \in Text : Letters(x) \in Text
BY OnlyType DEF Letters, Text

LEMMA LettersNil == Letters(<<>>) = <<>>
BY OnlyNil DEF Letters

LEMMA LettersConcat == \A x, y \in Text : Letters(x \o y) = Letters(x) \o Letters(y)
BY OnlyConcat DEF Letters, Text

LEMMA LettersAppend ==
  ASSUME NEW x \in Text, NEW c \in Characters
  PROVE  Letters(Append(x, c)) = IF c \in White THEN Letters(x) ELSE Append(Letters(x), c)
<1>1. x \in Seq(Characters)
  BY DEF Text
<1>2. Only(Append(x, c), Characters \ White)
        = IF c \in Characters \ White THEN Append(Only(x, Characters \ White), c)
          ELSE Only(x, Characters \ White)
  BY <1>1, OnlyAppend
<1> QED
  BY <1>2 DEF Letters

LEMMA LettersWhite ==
  ASSUME NEW t \in Text, \A i \in 1..Len(t) : t[i] \in White
  PROVE  Letters(t) = <<>>
<1> DEFINE T == {u \in Text : (\A i \in 1..Len(u) : u[i] \in White) => Letters(u) = <<>>}
<1>1. <<>> \in T
  BY LettersNil, TextNil
<1>2. ASSUME NEW u \in Seq(Characters), NEW c \in Characters, u \in T
      PROVE  Append(u, c) \in T
  <2> DEFINE v == Append(u, c)
  <2>1. /\ v \in Text /\ u \in Text /\ Len(v) = Len(u) + 1 /\ Len(u) \in Nat /\ v[Len(u) + 1] = c
        /\ \A i \in 1..Len(u) : v[i] = u[i]
    BY AppendProperties DEF Text
  <2>2. Letters(v) = IF c \in White THEN Letters(u) ELSE Append(Letters(u), c)
    BY <2>1, LettersAppend
  <2> HIDE DEF v
  <2>3. ASSUME \A i \in 1..Len(v) : v[i] \in White PROVE Letters(v) = <<>>
    <3>1. c \in White /\ \A i \in 1..Len(u) : u[i] \in White
      BY <2>1, <2>3
    <3> QED
      BY <1>2, <2>2, <3>1
  <2>4. v \in T
    BY <2>1, <2>3
  <2> QED
    BY <2>4 DEF v
<1> HIDE DEF T
<1>3. Seq(Characters) \subseteq T
  BY <1>1, <1>2, AppendInduction
<1> QED
  BY <1>3 DEF T, Text

\* Trimming takes no letter, and what it leaves empty had none.
LEMMA TrimLetters ==
  ASSUME NEW t \in Text
  PROVE  TrimSpace(t) \in Text /\ Letters(TrimSpace(t)) = Letters(t)
<1> DEFINE black == {i \in 1..Len(t) : NotWhite(t[i])}
<1>1. t \in Seq(Characters) /\ Len(t) \in Nat
  BY DEF Text
<1>2. CASE black = {}
  <2>1. \A i \in 1..Len(t) : t[i] \in White
    BY <1>2 DEF NotWhite
  <2>2. Letters(t) = <<>>
    BY <2>1, LettersWhite
  <2>3. TrimSpace(t) = <<>>
    BY <1>2, Zenon DEF TrimSpace
  <2> QED
    BY <2>2, <2>3, LettersNil, TextNil
<1>3. CASE black # {}
  <2> DEFINE lo == Min(black)
             hi == Max(black)
             a  == SubSeq(t, 1, hi)
             z  == SubSeq(t, hi + 1, Len(t))
             x  == SubSeq(a, 1, lo - 1)
             y  == SubSeq(a, lo, hi)
  <2>1. hi \in black /\ \A i \in black : i <= hi
    <3>1. black \in SUBSET (0..Len(t))
      BY <1>1
    <3> HIDE DEF black
    <3> QED
      BY <1>1, <1>3, <3>1, LastExists
  <2>2. lo \in black /\ \A i \in black : lo <= i
    <3>1. black \subseteq Nat
      BY <1>1
    <3> HIDE DEF black
    <3>2. \E i \in black : \A j \in black : i <= j
      BY <1>3, <3>1, LeastNumber
    <3> QED
      BY <3>2 DEF Min
  <2> HIDE DEF lo, hi
  <2>3. /\ lo \in 1..hi /\ hi \in 1..Len(t)
        /\ \A i \in 1..Len(t) : i < lo \/ i > hi => t[i] \in White
    BY <1>1, <2>1, <2>2 DEF NotWhite
  <2>4. a \in Text /\ z \in Text /\ t = a \o z
    <3>1. hi \in 0..Len(t)
      BY <1>1, <2>3
    <3> QED
      BY <1>1, <3>1, SplitAt DEF Text
  <2>5. Len(a) = hi /\ \A i \in 1..hi : a[i] = t[i]
    BY <1>1, <2>3
  <2>6. Len(z) = Len(t) - hi /\ \A i \in 1..Len(z) : z[i] = t[hi + i]
    BY <1>1, <2>3
  <2>7. Letters(z) = <<>>
    <3>1. \A i \in 1..Len(z) : hi + i \in 1..Len(t) /\ hi + i > hi
      BY <1>1, <2>3, <2>6
    <3>2. \A i \in 1..Len(z) : z[i] \in White
      BY <2>3, <2>6, <3>1
    <3> QED
      BY <2>4, <3>2, LettersWhite
  <2> HIDE DEF a, z
  <2>8. x \in Text /\ y \in Text /\ a = x \o y
    <3>1. lo - 1 \in 0..Len(a) /\ (lo - 1) + 1 = lo /\ a \in Seq(Characters)
      BY <1>1, <2>3, <2>4, <2>5 DEF Text
    <3> QED
      BY <2>5, <3>1, SplitAt DEF Text
  <2>9. Letters(x) = <<>>
    <3>1. a \in Seq(Characters) /\ Len(a) = hi /\ lo - 1 \in 0..Len(a)
      BY <1>1, <2>3, <2>4, <2>5 DEF Text
    <3>2. Len(x) = lo - 1 /\ \A i \in 1..(lo - 1) : x[i] = a[i]
      BY <3>1, <2>3
    <3>3. \A i \in 1..Len(x) : i \in 1..Len(t) /\ i < lo /\ i \in 1..hi
      BY <1>1, <2>3, <3>2
    <3>4. \A i \in 1..Len(x) : x[i] \in White
      BY <2>3, <2>5, <3>2, <3>3
    <3> QED
      BY <2>8, <3>4, LettersWhite
  <2>10. y = SubSeq(t, lo, hi)
    <3>1. Len(y) = hi - lo + 1 /\ \A i \in 1..(hi - lo + 1) : y[i] = t[lo + i - 1]
      BY <1>1, <2>3, <2>4, <2>5 DEF Text
    <3>2. SubSeq(t, lo, hi) \in Seq(Characters) /\ Len(SubSeq(t, lo, hi)) = hi - lo + 1
          /\ \A i \in 1..(hi - lo + 1) : SubSeq(t, lo, hi)[i] = t[lo + i - 1]
      BY <1>1, <2>3
    <3> HIDE DEF y
    <3> QED
      BY <2>8, <3>1, <3>2, SeqEqual DEF Text
  <2>11. TrimSpace(t) = y
    BY <1>3, <2>10, Zenon DEF TrimSpace, lo, hi
  <2> HIDE DEF x, y
  <2>12. Letters(t) = (Letters(x) \o Letters(y)) \o Letters(z)
    <3>1. Letters(a \o z) = Letters(a) \o Letters(z)
      BY <2>4, LettersConcat, Zenon
    <3>2. Letters(x \o y) = Letters(x) \o Letters(y)
      BY <2>8, LettersConcat, Zenon
    <3>3. Letters(t) = Letters(a \o z) /\ Letters(a) = Letters(x \o y)
      BY <2>4, <2>8, Zenon
    <3> QED
      BY <3>1, <3>2, <3>3, Zenon
  <2>13. Letters(t) = Letters(y)
    <3>1. Letters(y) \in Text
      BY <2>8, LettersType
    <3> QED
      BY <2>7, <2>9, <2>12, <3>1, TextNil
  <2> QED
    BY <2>8, <2>11, <2>13
<1> QED
  BY <1>2, <1>3

-----------------------------------------------------------------------------
(* What the methods of the reasoning yield. *)

Thoughts == {"ReasoningChunk", "ReasoningBlock"}
Shown(o) == Slice(o, Thoughts, 1, Len(o))

\* n is s with one block yielded that is about no identifier.
Shows(s, n, kind, text) ==
  LET b == Made(s, kind, text, Blank, FALSE)
  IN  /\ b \in Block /\ n \in States
      /\ n = [s EXCEPT !.out = n.out, !.stopped = n.stopped]
      /\ IF s.stopped THEN n = s ELSE n.out = Append(s.out, b)

LEMMA ShowShows ==
  ASSUME NEW s \in States, NEW kind \in Kinds, NEW text \in Text
  PROVE  Shows(s, show(s, kind, text), kind, text)
<1> DEFINE b == Made(s, kind, text, Blank, FALSE)
           m == emit(s, kind, text, Blank, FALSE)
<1>1. Blank \in Ids /\ FALSE \in BOOLEAN
  BY DEF Ids
<1>2. b \in Block /\ Yielded(s, m, b)
  BY <1>1, EmitYields, Zenon
<1>3. show(s, kind, text) = m
  BY Zenon DEF show
<1> HIDE DEF b, m
<1>4. /\ b \in Block /\ m \in States
      /\ m = [s EXCEPT !.out = m.out, !.stopped = m.stopped]
      /\ IF s.stopped THEN m = s ELSE m.out = Append(s.out, b)
  BY <1>2 DEF Yielded
<1>5. Shows(s, m, kind, text)
  BY <1>4, Zenon DEF Shows, b
<1> QED
  BY <1>3, <1>5

LEMMA PutShows ==
  ASSUME NEW s \in States, NEW kind \in Kinds
  PROVE  Shows(s, put(s, kind), kind, <<>>)
<1>1. Shows(s, show(s, kind, <<>>), kind, <<>>)
  BY ShowShows, TextNil, Zenon
<1>2. put(s, kind) = show(s, kind, <<>>)
  BY Zenon DEF put, show
<1> QED
  BY <1>1, <1>2

LEMMA ShowsGrows ==
  ASSUME NEW s \in States, NEW n, NEW kind, NEW text, Shows(s, n, kind, text)
  PROVE  /\ Grows(s, n, {kind})
         /\ TextPart(n) = TextPart(s) /\ Others(s, n)
<1> DEFINE b == Made(s, kind, text, Blank, FALSE)
<1>1. b \in Block /\ b.kind = kind /\ b.of = Blank /\ b.agent = s.agent
  BY DEF Shows, Made
<1>2. /\ n \in States /\ n = [s EXCEPT !.out = n.out, !.stopped = n.stopped]
      /\ IF s.stopped THEN n = s ELSE n.out = Append(s.out, b)
  BY DEF Shows
<1>3. n.agent = s.agent /\ TextPart(n) = TextPart(s) /\ Others(s, n)
  BY <1>2 DEF States, TextPart, Others, ThoughtPart, ToolPart, LivePart
<1> HIDE DEF b
<1>4. Grows(s, n, {kind})
  BY <1>1, <1>2, <1>3, GrowsByOne
<1> QED
  BY <1>3, <1>4

\* What such a block adds to the reasoning drawn.
LEMMA ShowsShown ==
  ASSUME NEW s \in States, NEW n, NEW kind, NEW text \in Text, Shows(s, n, kind, text), ~n.stopped
  PROVE  ~s.stopped /\ Shown(n.out) = Shown(s.out) \o (IF kind \in Thoughts THEN text ELSE <<>>)
<1> DEFINE b == Made(s, kind, text, Blank, FALSE)
           o == s.out
<1>1. b \in Block /\ b.kind = kind /\ b.text = text /\ o \in Seq(Block)
  BY DEF Shows, Made, States
<1>2. ~s.stopped /\ n.out = Append(o, b)
  BY DEF Shows
<1>3. Piece(b, Thoughts) = IF kind \in Thoughts THEN text ELSE <<>>
  BY <1>1 DEF Piece
<1> HIDE DEF b, o
<1>4. 1 \in 1..(Len(o) + 1) /\ Len(Append(o, b)) = Len(o) + 1
  BY <1>1
<1>5. Shown(n.out) = Shown(o) \o Piece(b, Thoughts)
  BY <1>1, <1>2, <1>4, SliceAppend DEF Shown
<1> QED
  BY <1>2, <1>3, <1>5 DEF o

LEMMA ShownType == \A s \in States : Shown(s.out) \in Text
<1> TAKE s \in States
<1>1. s.out \in Seq(Block) /\ 1 \in 1..(Len(s.out) + 1) /\ Len(s.out) \in (1 - 1)..Len(s.out)
  BY DEF States
<1> QED
  BY <1>1, PiecesType DEF Shown

\* n is what the characters d make of s.
Drawn(s, n, d) ==
  /\ d \in Text
  /\ Grows(s, n, {"ReasoningChunk"})
  /\ TextPart(n) = TextPart(s) /\ ToolPart(n) = ToolPart(s) /\ LivePart(n) = LivePart(s)
  /\ n.inReasoning = s.inReasoning /\ n.reasoningText = s.reasoningText
  /\ n.summaryText = s.summaryText
  /\ ~n.stopped =>
       Letters(Shown(n.out) \o n.reasoning) = Letters((Shown(s.out) \o s.reasoning) \o d)
  /\ ~n.reasoningChunked /\ Letters(n.reasoning) = <<>> =>
       ~s.reasoningChunked /\ Letters(s.reasoning) = <<>> /\ Letters(d) = <<>>

LEMMA DrawnNothing ==
  ASSUME NEW s \in States
  PROVE  Drawn(s, s, <<>>)
<1>1. <<>> \in Text /\ Shown(s.out) \in Text /\ s.reasoning \in Text
  BY TextNil, ShownType DEF States
<1>2. (Shown(s.out) \o s.reasoning) \o <<>> = Shown(s.out) \o s.reasoning
  BY <1>1, TextNil, TextJoin
<1>3. Grows(s, s, {"ReasoningChunk"})
  BY GrowsStill
<1> QED
  BY <1>1, <1>2, <1>3, LettersNil DEF Drawn

LEMMA LettersOne ==
  ASSUME NEW c \in Characters
  PROVE  Append(<<>>, c) \in Text
         /\ Letters(Append(<<>>, c)) = IF c \in White THEN <<>> ELSE Append(<<>>, c)
<1>1. Append(<<>>, c) \in Text
  BY AppendProperties, EmptySeq DEF Text
<1> QED
  BY <1>1, LettersAppend, LettersNil, TextNil

LEMMA DrawnTrans ==
  ASSUME NEW s \in States, NEW m, NEW n, NEW d, NEW e, Drawn(s, m, d), Drawn(m, n, e)
  PROVE  Drawn(s, n, d \o e)
<1>1. /\ d \in Text /\ e \in Text /\ d \o e \in Text
      /\ m \in States /\ n \in States
  BY TextJoin DEF Drawn, Grows, Extends
<1>2. Grows(s, n, {"ReasoningChunk"})
  <2>1. Grows(s, m, {"ReasoningChunk"}) /\ Grows(m, n, {"ReasoningChunk"})
    BY DEF Drawn
  <2> QED
    BY <2>1, GrowsTrans
<1>3. ASSUME ~n.stopped
      PROVE  Letters(Shown(n.out) \o n.reasoning)
               = Letters((Shown(s.out) \o s.reasoning) \o (d \o e))
  <2> DEFINE x == Shown(s.out) \o s.reasoning
             y == Shown(m.out) \o m.reasoning
             z == Shown(n.out) \o n.reasoning
  <2>1. ~m.stopped
    BY <1>3 DEF Drawn, Grows, Extends
  <2>2. Letters(y) = Letters(x \o d) /\ Letters(z) = Letters(y \o e)
    BY <1>3, <2>1 DEF Drawn
  <2>3. x \in Text /\ y \in Text
    <3>1. Shown(s.out) \in Text /\ s.reasoning \in Text /\ Shown(m.out) \in Text
          /\ m.reasoning \in Text
      BY <1>1, ShownType DEF States
    <3> QED
      BY <3>1, TextJoin
  <2> HIDE DEF x, y, z
  <2>4. x \o d \in Text /\ (x \o d) \o e = x \o (d \o e)
    BY <1>1, <2>3, TextJoin, TextAssoc, SMTT(30)
  <2>5. Letters(y \o e) = Letters(y) \o Letters(e)
        /\ Letters((x \o d) \o e) = Letters(x \o d) \o Letters(e)
    BY <1>1, <2>3, <2>4, LettersConcat
  <2>6. Letters(z) = Letters(x \o (d \o e))
    BY <2>2, <2>4, <2>5
  <2> QED
    BY <2>6 DEF x, z
<1>4. ASSUME ~n.reasoningChunked, Letters(n.reasoning) = <<>>
      PROVE  ~s.reasoningChunked /\ Letters(s.reasoning) = <<>> /\ Letters(d \o e) = <<>>
  <2>1. ~m.reasoningChunked /\ Letters(m.reasoning) = <<>> /\ Letters(e) = <<>>
    BY <1>4 DEF Drawn
  <2>2. ~s.reasoningChunked /\ Letters(s.reasoning) = <<>> /\ Letters(d) = <<>>
    BY <2>1 DEF Drawn
  <2>3. Letters(d \o e) = Letters(d) \o Letters(e)
    BY <1>1, LettersConcat, Zenon
  <2>4. <<>> \o <<>> = <<>>
    BY TextNil
  <2> QED
    BY <2>1, <2>2, <2>3, <2>4
<1>5. /\ TextPart(n) = TextPart(s) /\ ToolPart(n) = ToolPart(s) /\ LivePart(n) = LivePart(s)
      /\ n.inReasoning = s.inReasoning /\ n.reasoningText = s.reasoningText
      /\ n.summaryText = s.summaryText
  BY DEF Drawn
<1> QED
  BY <1>1, <1>2, <1>3, <1>4, <1>5 DEF Drawn

LEMMA CharacterDraws ==
  ASSUME NEW s \in States, NEW c \in Characters
  PROVE  Drawn(s, appendCharacter(s, c), Append(<<>>, c))
<1> DEFINE e == Append(<<>>, c)
           r == s.reasoning
           x == Shown(s.out)
           none == <<>>
<1>1. e \in Text /\ r \in Text /\ x \in Text /\ none \in Text /\ r \in Seq(Characters)
  BY LettersOne, ShownType, TextNil DEF States, Text
<1>2. Letters(e) = IF c \in White THEN none ELSE e
  BY LettersOne
<1>3. x \o r \in Text /\ (x \o r) \o e = x \o (r \o e)
  <2> HIDE DEF e, r, x
  <2> QED
    BY <1>1, TextJoin, TextAssoc, SMTT(30)
<1>4. CASE c # "newline"
  <2> DEFINE t == Append(r, c)
             n == [s EXCEPT !.reasoning = t]
  <2>1. t \in Text /\ t = r \o e
    BY <1>1 DEF Text
  <2>2. appendCharacter(s, c) = [s EXCEPT !.reasoning = Append(@, c)]
    BY <1>4, Zenon DEF appendCharacter
  <2>3. appendCharacter(s, c) = n
    BY <2>2
  <2> HIDE DEF t, e, x
  <2>4. /\ n \in States /\ n.out = s.out /\ n.stopped = s.stopped /\ n.reasoning = t
        /\ n.reasoningChunked = s.reasoningChunked
        /\ TextPart(n) = TextPart(s) /\ ToolPart(n) = ToolPart(s) /\ LivePart(n) = LivePart(s)
        /\ n.inReasoning = s.inReasoning /\ n.reasoningText = s.reasoningText
        /\ n.summaryText = s.summaryText
    BY <2>1 DEF States, TextPart, ToolPart, LivePart
  <2>5. n.agent = s.agent
    BY DEF States
  <2> HIDE DEF n, r
  <2>6. Grows(s, n, {"ReasoningChunk"})
    BY <2>4, <2>5, GrowsStill
  <2>7. Letters(t) = Letters(r) \o Letters(e)
    BY <1>1, <2>1, LettersConcat
  <2>8. ASSUME Letters(t) = <<>> PROVE Letters(r) = <<>> /\ Letters(e) = <<>>
    <3>1. Letters(r) \in Seq(Characters) /\ Letters(e) \in Seq(Characters)
      BY <1>1, LettersType DEF Text
    <3>2. Len(Letters(r)) \in Nat /\ Len(Letters(e)) \in Nat
      BY <3>1
    <3>3. Len(Letters(r)) + Len(Letters(e)) = Len(Letters(t))
      BY <2>7, <3>1
    <3>4. Len(Letters(t)) = 0
      BY <2>8
    <3>5. Len(Letters(r)) = 0 /\ Len(Letters(e)) = 0
      BY <3>2, <3>3, <3>4
    <3> QED
      BY <3>1, <3>5
  <2>9. Shown(n.out) \o n.reasoning = (Shown(s.out) \o s.reasoning) \o e
    BY <1>3, <2>1, <2>4 DEF x, r
  <2>10. Drawn(s, n, e)
    BY <1>1, <2>4, <2>6, <2>8, <2>9 DEF Drawn, r
  <2> QED
    BY <2>3, <2>10 DEF e
<1>5. CASE c = "newline"
  <2>1. Letters(e) = <<>> /\ c \in White
    BY <1>2, <1>5 DEF White
  <2>2. CASE TrimSpace(r) = <<>>
    <3> DEFINE n == [s EXCEPT !.reasoning = none]
    <3>1. appendCharacter(s, c) = n
      BY <1>5, <2>2, Zenon DEF appendCharacter
    <3>2. Letters(r) = <<>>
      BY <1>1, <2>2, TrimLetters, LettersNil
    <3> HIDE DEF none, e, x
    <3>3. /\ n \in States /\ n.out = s.out /\ n.stopped = s.stopped /\ n.reasoning = none
          /\ n.reasoningChunked = s.reasoningChunked
          /\ TextPart(n) = TextPart(s) /\ ToolPart(n) = ToolPart(s) /\ LivePart(n) = LivePart(s)
          /\ n.inReasoning = s.inReasoning /\ n.reasoningText = s.reasoningText
          /\ n.summaryText = s.summaryText
      BY <1>1 DEF States, TextPart, ToolPart, LivePart
    <3>4. n.agent = s.agent
      BY DEF States
    <3> HIDE DEF n, r
    <3>5. Grows(s, n, {"ReasoningChunk"})
      BY <3>3, <3>4, GrowsStill
    <3>6. Letters(x \o none) = Letters((x \o r) \o e)
      <4>1. Letters(x \o r) = Letters(x) \o Letters(r)
            /\ Letters((x \o r) \o e) = Letters(x \o r) \o Letters(e)
        BY <1>1, <1>3, LettersConcat
      <4>2. Letters(x) \in Text /\ x \o none = x
        BY <1>1, LettersType, TextNil DEF none
      <4> QED
        BY <2>1, <3>2, <4>1, <4>2, TextNil
    <3>7. Drawn(s, n, e)
      BY <1>1, <2>1, <3>2, <3>3, <3>5, <3>6 DEF Drawn, x, r, none
    <3> QED
      BY <3>1, <3>7 DEF e
  <2>3. CASE TrimSpace(r) # <<>>
    <3> DEFINE m == show(s, "ReasoningChunk", r)
               n == [m EXCEPT !.reasoning = none, !.reasoningChunked = TRUE]
    <3>1. appendCharacter(s, c) = n
      BY <1>5, <2>3, Zenon DEF appendCharacter
    <3>2. "ReasoningChunk" \in Kinds /\ "ReasoningChunk" \in Thoughts
      BY DEF Kinds, Thoughts
    <3>3. Shows(s, m, "ReasoningChunk", r)
      BY <1>1, <3>2, ShowShows
    <3> HIDE DEF none, e, x, m
    <3>4. m \in States /\ Grows(s, m, {"ReasoningChunk"}) /\ TextPart(m) = TextPart(s)
          /\ Others(s, m)
      BY <3>3, ShowsGrows DEF Shows
    <3>5. /\ n \in States /\ n.out = m.out /\ n.stopped = m.stopped /\ n.reasoning = none
          /\ n.reasoningChunked = TRUE /\ n.agent = m.agent
          /\ TextPart(n) = TextPart(m) /\ ToolPart(n) = ToolPart(m) /\ LivePart(n) = LivePart(m)
          /\ n.inReasoning = m.inReasoning /\ n.reasoningText = m.reasoningText
          /\ n.summaryText = m.summaryText
      BY <1>1, <3>4 DEF States, TextPart, ToolPart, LivePart
    <3>6. /\ m.inReasoning = s.inReasoning /\ m.reasoningText = s.reasoningText
          /\ m.summaryText = s.summaryText /\ ToolPart(m) = ToolPart(s) /\ LivePart(m) = LivePart(s)
      BY <3>4 DEF Others, ThoughtPart
    <3> HIDE DEF n, r
    <3>7. Grows(s, n, {"ReasoningChunk"})
      <4>1. Grows(m, n, {"ReasoningChunk"})
        BY <3>4, <3>5, GrowsStill
      <4> QED
        BY <3>4, <4>1, GrowsTrans
    <3>8. ASSUME ~n.stopped PROVE Letters(Shown(n.out) \o n.reasoning) = Letters((x \o r) \o e)
      <4>1. ~m.stopped
        BY <3>5, <3>8
      <4>2. Shown(m.out) = Shown(s.out) \o (IF "ReasoningChunk" \in Thoughts THEN r ELSE <<>>)
        BY <1>1, <3>3, <4>1, ShowsShown
      <4>3. Shown(n.out) = x \o r
        BY <3>2, <3>5, <4>2 DEF x
      <4>4. (x \o r) \o none = x \o r
        BY <1>3, TextNil DEF none
      <4>5. Letters((x \o r) \o e) = Letters(x \o r) \o Letters(e)
        BY <1>1, <1>3, LettersConcat, Zenon
      <4>6. Letters(x \o r) \in Text
        BY <1>3, LettersType
      <4>7. Letters(x \o r) \o Letters(e) = Letters(x \o r)
        BY <2>1, <4>6, TextNil
      <4> QED
        BY <3>5, <4>3, <4>4, <4>5, <4>7
    <3>9. Drawn(s, n, e)
      <4>1. \/ Letters(Shown(n.out) \o n.reasoning) = Letters((Shown(s.out) \o s.reasoning) \o e)
            \/ n.stopped
        BY <3>8 DEF x, r
      <4>2. /\ TextPart(n) = TextPart(s) /\ ToolPart(n) = ToolPart(s) /\ LivePart(n) = LivePart(s)
            /\ n.inReasoning = s.inReasoning /\ n.reasoningText = s.reasoningText
            /\ n.summaryText = s.summaryText
        BY <3>4, <3>5, <3>6
      <4> QED
        BY <1>1, <3>5, <3>7, <4>1, <4>2 DEF Drawn
    <3> QED
      BY <3>1, <3>9 DEF e
  <2> QED
    BY <2>2, <2>3
<1> QED
  BY <1>4, <1>5

LEMMA FoldDraws ==
  ASSUME NEW s \in States, NEW delta \in Text
  PROVE  Drawn(s, FoldLeft(appendCharacter, s, delta), delta)
<1> DEFINE n    == Len(delta)
           step == [p \in States \X (1..n) |-> appendCharacter(p[1], delta[p[2]])]
           Eq(g) == g = [S \in SUBSET DOMAIN delta |->
                           IF S = {} THEN s
                           ELSE appendCharacter(g[S \ {Max(S)}], delta[Max(S)])]
           f    == CHOOSE g : Eq(g)
           T    == {k \in 0..n : Drawn(s, f[1..k], SubSeq(delta, 1, k))}
<1>1. delta \in Seq(Characters) /\ n \in Nat /\ DOMAIN delta = 1..n
  BY DEF Text
<1>2. step \in [States \X (1..n) -> States]
  <2>1. ASSUME NEW p \in States \X (1..n) PROVE appendCharacter(p[1], delta[p[2]]) \in States
    <3>1. p[1] \in States /\ delta[p[2]] \in Characters
      BY <1>1
    <3>2. Drawn(p[1], appendCharacter(p[1], delta[p[2]]), Append(<<>>, delta[p[2]]))
      BY <3>1, CharacterDraws
    <3> QED
      BY <3>2 DEF Drawn, Grows, Extends
  <2> QED
    BY <2>1
<1>3. FoldLeft(appendCharacter, s, delta) = f[DOMAIN delta]
  BY DEF FoldLeft, MapThenFoldSet
<1>4. PICK g : IsFoldMap(g, n, States, s, step)
  <2> HIDE DEF step, n
  <2> QED
    BY <1>1, <1>2, FoldMap
<1>5. Eq(g)
  <2>1. g \in [SUBSET (1..n) -> States]
    BY <1>4 DEF IsFoldMap
  <2>2. ASSUME NEW S \in SUBSET (1..n)
        PROVE  g[S] = IF S = {} THEN s ELSE appendCharacter(g[S \ {Max(S)}], delta[Max(S)])
    <3>1. g[S] = IF S = {} THEN s ELSE step[<<g[S \ {Max(S)}], Max(S)>>]
      BY <1>4 DEF IsFoldMap
    <3>2. CASE S = {}
      BY <3>1, <3>2
    <3>3. CASE S # {}
      <4>1. S \in SUBSET (0..n)
        BY <1>1
      <4>2. Max(S) \in S
        BY <1>1, <3>3, <4>1, LastExists
      <4>3. Max(S) \in 1..n /\ g[S \ {Max(S)}] \in States
        BY <2>1, <4>2
      <4> DEFINE i == Max(S)
                 m == g[S \ {Max(S)}]
      <4>4. step[<<m, i>>] = appendCharacter(m, delta[i])
        <5> HIDE DEF i, m
        <5>1. i \in 1..n /\ m \in States
          BY <4>3 DEF i, m
        <5> QED
          BY <5>1
      <4> QED
        BY <3>1, <3>3, <4>4
    <3> QED
      BY <3>2, <3>3
  <2> HIDE DEF n
  <2> QED
    BY <1>1, <2>1, <2>2
<1>6. Eq(f)
  BY <1>5, Zenon
<1> HIDE DEF f, n, step
<1>7. 0 \in T
  <2>1. f[{}] = s /\ 1..0 = {}
    BY <1>6
  <2>2. SubSeq(delta, 1, 0) = <<>>
    BY <1>1
  <2>3. Drawn(s, f[1..0], SubSeq(delta, 1, 0))
    BY <2>1, <2>2, DrawnNothing, Zenon
  <2>4. 0 \in 0..n
    BY <1>1
  <2> QED
    BY <2>3, <2>4
<1>8. ASSUME NEW k \in 0..(n - 1), k \in T PROVE k + 1 \in T
  <2> DEFINE S == 1..(k + 1)
  <2>1. S \in SUBSET (1..n) /\ S # {} /\ S \in SUBSET (0..n)
    <3>1. k \in Nat /\ k + 1 \in 1..n
      BY <1>1
    <3>2. \A i \in 1..(k + 1) : i \in 1..n /\ i \in 0..n
      BY <1>1
    <3>3. k + 1 \in 1..(k + 1)
      BY <3>1
    <3> QED
      BY <3>2, <3>3
  <2>2. Max(S) = k + 1
    <3>1. k + 1 \in S /\ \A y \in S : y <= k + 1
      BY <1>1
    <3> HIDE DEF S
    <3> QED
      BY <1>1, <2>1, <3>1, LastIs
  <2>3. S \ {k + 1} = 1..k
    BY <1>1
  <2>4. f[S] = appendCharacter(f[S \ {Max(S)}], delta[Max(S)])
    <3> HIDE DEF S
    <3> QED
      BY <1>1, <1>6, <2>1
  <2>5. f[S] = appendCharacter(f[1..k], delta[k + 1])
    BY <2>2, <2>3, <2>4
  <2>6. Drawn(s, f[1..k], SubSeq(delta, 1, k)) /\ f[1..k] \in States
    BY <1>8 DEF Drawn, Grows, Extends
  <2>7. delta[k + 1] \in Characters
    BY <1>1
  <2>8. Drawn(f[1..k], f[S], Append(<<>>, delta[k + 1]))
    BY <2>5, <2>6, <2>7, CharacterDraws
  <2>9. Drawn(s, f[S], SubSeq(delta, 1, k) \o Append(<<>>, delta[k + 1]))
    BY <2>6, <2>8, DrawnTrans
  <2>10. SubSeq(delta, 1, k) \o Append(<<>>, delta[k + 1]) = SubSeq(delta, 1, k + 1)
    BY <1>1
  <2>11. k + 1 \in 0..n
    BY <1>1
  <2>12. Drawn(s, f[1..(k + 1)], SubSeq(delta, 1, k + 1))
    BY <2>9, <2>10, Zenon
  <2> QED
    BY <2>11, <2>12
<1> HIDE DEF T
<1>9. 0..n \subseteq T
  BY <1>1, <1>7, <1>8, PrefixInduction
<1>10. Drawn(s, f[1..n], SubSeq(delta, 1, n))
  <2>1. n \in T
    BY <1>1, <1>9
  <2> QED
    BY <2>1 DEF T
<1>11. SubSeq(delta, 1, n) = delta
  BY <1>1, SubSeqFull
<1> QED
  BY <1>1, <1>3, <1>10, <1>11

\* n is s with blocks of the reasoning yielded, and only its own fields changed.
Mused(s, n) ==
  /\ Grows(s, n, {"ReasoningStart"} \union Thoughts)
  /\ TextPart(n) = TextPart(s) /\ ToolPart(n) = ToolPart(s) /\ LivePart(n) = LivePart(s)

\* Outside a section nothing is kept; in one of which no chunk was drawn, what is kept
\* has no letter but those of the open line.
ThoughtShape(s) ==
  /\ ~s.inReasoning => s.reasoning = <<>> /\ s.reasoningText = <<>> /\ s.summaryText = <<>>
  /\ ~s.reasoningChunked /\ Letters(s.reasoning) = <<>> =>
       Letters(s.reasoningText) = <<>> /\ Letters(s.summaryText) = <<>>

ThoughtBook(s, th) ==
  ThoughtShape(s) /\ (~s.stopped => Letters(Shown(s.out) \o s.reasoning) = Letters(th))

LEMMA MusedTrans ==
  ASSUME NEW s \in States, NEW m, NEW n, Mused(s, m), Mused(m, n)
  PROVE  Mused(s, n)
<1>1. Grows(s, n, {"ReasoningStart"} \union Thoughts)
  BY GrowsTrans DEF Mused
<1> QED
  BY <1>1 DEF Mused

LEMMA ShowsMused ==
  ASSUME NEW s \in States, NEW n, NEW kind \in {"ReasoningStart"} \union Thoughts, NEW text,
         Shows(s, n, kind, text)
  PROVE  Mused(s, n) /\ ThoughtPart(n) = ThoughtPart(s)
<1>1. Grows(s, n, {kind}) /\ TextPart(n) = TextPart(s) /\ Others(s, n)
  BY ShowsGrows
<1>2. Grows(s, n, {"ReasoningStart"} \union Thoughts)
  BY <1>1 DEF Grows, Extends
<1> QED
  BY <1>1, <1>2 DEF Mused, Others

\* Blocks that show no thought change nothing of this.
LEMMA ThoughtQuiet ==
  ASSUME NEW s \in States, NEW n, NEW kinds, NEW th, Extends(s, n, kinds), ThoughtBook(s, th),
         kinds \intersect Thoughts = {}, ThoughtPart(n) = ThoughtPart(s)
  PROVE  ThoughtBook(n, th)
<1> DEFINE o == s.out
           m == n.out
<1>1. /\ o \in Seq(Block) /\ m \in Seq(Block) /\ Len(o) \in Nat /\ Len(o) <= Len(m)
      /\ \A k \in 1..Len(o) : m[k] = o[k]
      /\ \A k \in (Len(o) + 1)..Len(m) : m[k].kind \notin Thoughts
      /\ s.stopped => n.stopped
  BY DEF Extends, States
<1> HIDE DEF o, m
<1>2. 1 \in 1..(Len(o) + 1)
  BY <1>1
<1>3. Shown(m) = Shown(o)
  BY <1>1, <1>2, SliceQuiet DEF Shown
<1>4. n.reasoning = s.reasoning /\ ThoughtShape(n)
  BY DEF ThoughtBook, ThoughtShape, ThoughtPart
<1> QED
  BY <1>1, <1>3, <1>4 DEF ThoughtBook, o, m

LEMMA BeginMuses ==
  ASSUME NEW s \in States
  PROVE  /\ Mused(s, beginReasoning(s)) /\ beginReasoning(s).inReasoning
         /\ \A th : ThoughtBook(s, th) => ThoughtBook(beginReasoning(s), th)
<1>1. CASE s.inReasoning
  <2>1. beginReasoning(s) = s
    BY <1>1, Zenon DEF beginReasoning
  <2>2. Grows(s, s, {"ReasoningStart"} \union Thoughts)
    BY GrowsStill
  <2> QED
    BY <1>1, <2>1, <2>2 DEF Mused
<1>2. CASE ~s.inReasoning
  <2> DEFINE m == [s EXCEPT !.inReasoning = TRUE, !.reasoningChunked = FALSE]
             n == put(m, "ReasoningStart")
  <2>1. beginReasoning(s) = n
    BY <1>2, Zenon DEF beginReasoning
  <2>2. /\ m \in States /\ m.inReasoning = TRUE /\ m.reasoningChunked = FALSE
        /\ m.reasoning = s.reasoning /\ m.reasoningText = s.reasoningText
        /\ m.summaryText = s.summaryText /\ m.out = s.out /\ m.stopped = s.stopped
        /\ m.agent = s.agent
    BY DEF States
  <2>3. TextPart(m) = TextPart(s) /\ ToolPart(m) = ToolPart(s) /\ LivePart(m) = LivePart(s)
    BY DEF States, TextPart, ToolPart, LivePart
  <2>4. Mused(s, m)
    <3> HIDE DEF m
    <3>1. Grows(s, m, {"ReasoningStart"} \union Thoughts)
      BY <2>2, GrowsStill
    <3> QED
      BY <2>3, <3>1 DEF Mused
  <2> HIDE DEF m
  <2>5. Shows(m, n, "ReasoningStart", <<>>)
    <3>1. "ReasoningStart" \in Kinds
      BY DEF Kinds
    <3> QED
      BY <2>2, <3>1, PutShows
  <2> HIDE DEF n
  <2>6. Mused(m, n) /\ ThoughtPart(n) = ThoughtPart(m)
    BY <2>2, <2>5, ShowsMused
  <2>7. Mused(s, n)
    BY <2>4, <2>6, MusedTrans
  <2>8. ASSUME NEW th, ThoughtBook(s, th) PROVE ThoughtBook(n, th)
    <3>1. s.reasoning = <<>> /\ s.reasoningText = <<>> /\ s.summaryText = <<>>
      BY <1>2, <2>8 DEF ThoughtBook, ThoughtShape
    <3>2. ThoughtShape(m)
      BY <2>2, <3>1, LettersNil DEF ThoughtShape
    <3>3. ThoughtBook(m, th)
      BY <2>2, <2>8, <3>2 DEF ThoughtBook
    <3>4. Extends(m, n, {"ReasoningStart"})
      BY <2>2, <2>5, ShowsGrows DEF Grows
    <3>5. {"ReasoningStart"} \intersect Thoughts = {}
      BY DEF Thoughts
    <3> QED
      BY <2>2, <2>6, <3>3, <3>4, <3>5, ThoughtQuiet
  <2>9. n.inReasoning
    BY <2>2, <2>6 DEF ThoughtPart
  <2> QED
    BY <2>1, <2>7, <2>8, <2>9
<1> QED
  BY <1>1, <1>2 DEF States

LEMMA AppendMuses ==
  ASSUME NEW s \in States, NEW delta \in Text, NEW summary \in BOOLEAN
  PROVE  /\ Mused(s, appendReasoning(s, delta, summary))
         /\ \A th \in Text :
              ThoughtBook(s, th) => ThoughtBook(appendReasoning(s, delta, summary), th \o delta)
<1>1. CASE delta = <<>>
  <2>1. appendReasoning(s, delta, summary) = s
    BY <1>1, Zenon DEF appendReasoning
  <2>2. Grows(s, s, {"ReasoningStart"} \union Thoughts)
    BY GrowsStill
  <2>3. \A th \in Text : th \o delta = th
    BY <1>1, TextNil
  <2> QED
    BY <2>1, <2>2, <2>3 DEF Mused
<1>2. CASE delta # <<>>
  <2> DEFINE b == beginReasoning(s)
             k == IF summary THEN [b EXCEPT !.summaryText = @ \o delta]
                  ELSE [b EXCEPT !.reasoningText = @ \o delta]
             n == FoldLeft(appendCharacter, k, delta)
  <2>1. appendReasoning(s, delta, summary) = n
    BY <1>2, Zenon DEF appendReasoning
  <2>2. /\ Mused(s, b) /\ b.inReasoning /\ b \in States
        /\ \A th : ThoughtBook(s, th) => ThoughtBook(b, th)
    BY BeginMuses DEF Mused, Grows, Extends
  <2> HIDE DEF b
  <2>3. b.summaryText \o delta \in Text /\ b.reasoningText \o delta \in Text
    BY <2>2, TextJoin DEF States
  <2> DEFINE u == b.summaryText \o delta
             v == b.reasoningText \o delta
  <2>4. k = IF summary THEN [b EXCEPT !.summaryText = u] ELSE [b EXCEPT !.reasoningText = v]
    OBVIOUS
  <2> HIDE DEF k, n
  <2>5. /\ k \in States /\ k.out = b.out /\ k.stopped = b.stopped /\ k.agent = b.agent
        /\ k.inReasoning = b.inReasoning /\ k.reasoning = b.reasoning
        /\ k.reasoningChunked = b.reasoningChunked
        /\ TextPart(k) = TextPart(b) /\ ToolPart(k) = ToolPart(b) /\ LivePart(k) = LivePart(b)
        /\ k.summaryText = b.summaryText \/ k.summaryText = u
        /\ k.reasoningText = b.reasoningText \/ k.reasoningText = v
    <3> HIDE DEF u, v
    <3>1. u \in Text /\ v \in Text
      BY <2>3 DEF u, v
    <3>2. CASE summary
      <4>1. k = [b EXCEPT !.summaryText = u]
        BY <2>4, <3>2
      <4> QED
        BY <2>2, <3>1, <4>1 DEF States, TextPart, ToolPart, LivePart
    <3>3. CASE ~summary
      <4>1. k = [b EXCEPT !.reasoningText = v]
        BY <2>4, <3>3
      <4> QED
        BY <2>2, <3>1, <4>1 DEF States, TextPart, ToolPart, LivePart
    <3> QED
      BY <3>2, <3>3
  <2>6. Mused(b, k)
    <3>1. Grows(b, k, {"ReasoningStart"} \union Thoughts)
      BY <2>2, <2>5, GrowsStill
    <3> QED
      BY <2>5, <3>1 DEF Mused
  <2>7. Drawn(k, n, delta)
    BY <2>5, FoldDraws DEF n
  <2>8. Mused(k, n)
    <3>1. Grows(k, n, {"ReasoningChunk"})
      BY <2>7 DEF Drawn
    <3>2. Grows(k, n, {"ReasoningStart"} \union Thoughts)
      BY <3>1 DEF Grows, Extends, Thoughts
    <3> QED
      BY <2>7, <3>2 DEF Mused, Drawn
  <2>9. Mused(s, n)
    BY <2>2, <2>5, <2>6, <2>8, MusedTrans
  <2>10. ASSUME NEW th \in Text, ThoughtBook(s, th) PROVE ThoughtBook(n, th \o delta)
    <3>1. ThoughtBook(b, th)
      BY <2>2, <2>10
    <3>2. /\ b.summaryText \in Text /\ b.reasoningText \in Text /\ k.reasoning \in Text
          /\ Shown(k.out) \in Text /\ k.out = b.out /\ k.reasoning = b.reasoning
      BY <2>2, <2>5, ShownType DEF States
    <3>3. ThoughtShape(n)
      <4>1. n.inReasoning
        BY <2>2, <2>5, <2>7 DEF Drawn
      <4>2. ASSUME ~n.reasoningChunked, Letters(n.reasoning) = <<>>
            PROVE  Letters(n.reasoningText) = <<>> /\ Letters(n.summaryText) = <<>>
        <5>1. ~b.reasoningChunked /\ Letters(b.reasoning) = <<>> /\ Letters(delta) = <<>>
          BY <2>5, <2>7, <4>2 DEF Drawn
        <5>2. Letters(b.reasoningText) = <<>> /\ Letters(b.summaryText) = <<>>
          BY <3>1, <5>1 DEF ThoughtBook, ThoughtShape
        <5>3. Letters(u) = Letters(b.summaryText) \o Letters(delta)
          BY <3>2, LettersConcat, Zenon
        <5>4. Letters(v) = Letters(b.reasoningText) \o Letters(delta)
          BY <3>2, LettersConcat, Zenon
        <5>5. Letters(u) = <<>> /\ Letters(v) = <<>>
          BY <5>1, <5>2, <5>3, <5>4, TextNil
        <5>6. n.reasoningText = k.reasoningText /\ n.summaryText = k.summaryText
          BY <2>7 DEF Drawn
        <5> HIDE DEF u, v
        <5> QED
          BY <2>5, <5>2, <5>5, <5>6
      <4> QED
        BY <4>1, <4>2 DEF ThoughtShape
    <3>4. ASSUME ~n.stopped PROVE Letters(Shown(n.out) \o n.reasoning) = Letters(th \o delta)
      <4> DEFINE y == Shown(k.out) \o k.reasoning
      <4>1. ~k.stopped /\ Letters(Shown(n.out) \o n.reasoning) = Letters(y \o delta)
        BY <2>7, <3>4 DEF Drawn, Grows, Extends
      <4>2. Letters(y) = Letters(th)
        BY <2>5, <3>1, <3>2, <4>1 DEF ThoughtBook
      <4>3. y \in Text
        BY <3>2, TextJoin
      <4> HIDE DEF y
      <4>4. Letters(y \o delta) = Letters(y) \o Letters(delta)
            /\ Letters(th \o delta) = Letters(th) \o Letters(delta)
        BY <4>3, LettersConcat
      <4> QED
        BY <4>1, <4>2, <4>4
    <3> QED
      BY <3>3, <3>4 DEF ThoughtBook
  <2> QED
    BY <2>1, <2>9, <2>10
<1> QED
  BY <1>1, <1>2

\* n is s with the text x drawn.
Adds(s, n, x) ==
  /\ x \in Text /\ n \in States
  /\ Mused(s, n) /\ ThoughtPart(n) = ThoughtPart(s)
  /\ ~n.stopped => ~s.stopped /\ Shown(n.out) = Shown(s.out) \o x

LEMMA ShowAdds ==
  ASSUME NEW s \in States, NEW kind \in Thoughts, NEW text \in Text
  PROVE  Adds(s, show(s, kind, text), text)
<1> DEFINE n == show(s, kind, text)
<1>1. kind \in Kinds
  BY DEF Kinds, Thoughts
<1>2. Shows(s, n, kind, text)
  BY <1>1, ShowShows
<1> HIDE DEF n
<1>3. Mused(s, n) /\ ThoughtPart(n) = ThoughtPart(s)
  BY <1>2, ShowsMused
<1>4. ~n.stopped => ~s.stopped /\ Shown(n.out) = Shown(s.out) \o text
  BY <1>2, ShowsShown
<1>5. n \in States
  BY <1>2 DEF Shows
<1> QED
  BY <1>3, <1>4, <1>5 DEF Adds, n

LEMMA StillAdds ==
  ASSUME NEW s \in States
  PROVE  Adds(s, s, <<>>)
<1>1. Grows(s, s, {"ReasoningStart"} \union Thoughts)
  BY GrowsStill
<1>2. Shown(s.out) \in Text
  BY ShownType
<1>3. Shown(s.out) = Shown(s.out) \o <<>>
  BY <1>2, TextNil
<1> QED
  BY <1>1, <1>3, TextNil DEF Adds, Mused

LEMMA CloseMuses ==
  ASSUME NEW s \in States
  PROVE  /\ Mused(s, closeReasoning(s))
         /\ ~closeReasoning(s).inReasoning
         /\ \A th : ThoughtBook(s, th) => ThoughtBook(closeReasoning(s), th)
<1>1. CASE ~s.inReasoning
  <2>1. closeReasoning(s) = s
    BY <1>1, Zenon DEF closeReasoning
  <2>2. Grows(s, s, {"ReasoningStart"} \union Thoughts)
    BY GrowsStill
  <2> QED
    BY <1>1, <2>1, <2>2 DEF Mused
<1>2. CASE s.inReasoning
  <2> DEFINE r == s.reasoning
             rest == TrimSpace(r)
             whole == s.reasoningText \o s.summaryText
             a == IF rest = <<>> THEN s ELSE show(s, "ReasoningChunk", rest)
             quiet == s.reasoningChunked \/ rest # <<>> \/ whole = <<>>
             e == IF quiet THEN a ELSE show(a, "ReasoningBlock", whole)
             x == IF quiet THEN <<>> ELSE whole
             none == <<>>
             n == [e EXCEPT !.inReasoning = FALSE, !.reasoning = none, !.reasoningText = none,
                            !.summaryText = none, !.reasoningChunked = FALSE]
  <2>1. closeReasoning(s) = n
    BY <1>2, Zenon DEF closeReasoning
  <2>2. /\ r \in Text /\ rest \in Text /\ Letters(rest) = Letters(r) /\ whole \in Text
        /\ s.reasoningText \in Text /\ s.summaryText \in Text /\ none \in Text
    <3>1. r \in Text /\ s.reasoningText \in Text /\ s.summaryText \in Text
      BY DEF States
    <3> QED
      BY <3>1, TrimLetters, TextJoin, TextNil
  <2> HIDE DEF r, rest, whole
  <2>3. Adds(s, a, rest)
    <3>1. CASE rest = <<>>
      BY <3>1, StillAdds
    <3>2. CASE rest # <<>>
      <4>1. "ReasoningChunk" \in Thoughts
        BY DEF Thoughts
      <4> QED
        BY <2>2, <3>2, <4>1, ShowAdds
    <3> QED
      BY <3>1, <3>2
  <2> HIDE DEF a
  <2>4. a \in States
    BY <2>3 DEF Adds
  <2>5. Adds(a, e, x)
    <3>1. CASE quiet
      BY <2>4, <3>1, StillAdds
    <3>2. CASE ~quiet
      <4>1. "ReasoningBlock" \in Thoughts
        BY DEF Thoughts
      <4> QED
        BY <2>2, <2>4, <3>2, <4>1, ShowAdds
    <3> QED
      BY <3>1, <3>2
  <2>6. ASSUME ThoughtShape(s) PROVE Letters(x) = <<>>
    <3>1. CASE quiet
      BY <3>1, LettersNil
    <3>2. CASE ~quiet
      <4>1. ~s.reasoningChunked /\ rest = <<>>
        BY <3>2
      <4>2. Letters(s.reasoning) = <<>>
        BY <2>2, <4>1, LettersNil DEF r
      <4>3. Letters(s.reasoningText) = <<>> /\ Letters(s.summaryText) = <<>>
        BY <2>6, <4>1, <4>2 DEF ThoughtShape
      <4>4. Letters(whole) = Letters(s.reasoningText) \o Letters(s.summaryText)
        BY <2>2, LettersConcat, Zenon DEF whole
      <4> QED
        BY <3>2, <4>3, <4>4, TextNil
    <3> QED
      BY <3>1, <3>2
  <2>7. e \in States /\ x \in Text
    BY <2>5 DEF Adds
  <2> HIDE DEF e, none, x
  <2>8. /\ n \in States /\ n.out = e.out /\ n.stopped = e.stopped /\ n.agent = e.agent
        /\ n.inReasoning = FALSE /\ n.reasoning = none /\ n.reasoningText = none
        /\ n.summaryText = none /\ n.reasoningChunked = FALSE
        /\ TextPart(n) = TextPart(e) /\ ToolPart(n) = ToolPart(e) /\ LivePart(n) = LivePart(e)
    BY <2>2, <2>7 DEF States, TextPart, ToolPart, LivePart
  <2> HIDE DEF n
  <2>9. Mused(s, n)
    <3>1. Grows(e, n, {"ReasoningStart"} \union Thoughts)
      BY <2>7, <2>8, GrowsStill
    <3>2. Mused(e, n)
      BY <2>8, <3>1 DEF Mused
    <3>3. Mused(s, a) /\ Mused(a, e)
      BY <2>3, <2>5 DEF Adds
    <3> QED
      BY <2>4, <2>7, <3>2, <3>3, MusedTrans
  <2>10. ASSUME NEW th, ThoughtBook(s, th) PROVE ThoughtBook(n, th)
    <3>1. ThoughtShape(n)
      BY <2>8, LettersNil DEF ThoughtShape, none
    <3>2. ASSUME ~n.stopped PROVE Letters(Shown(n.out) \o n.reasoning) = Letters(th)
      <4> DEFINE y == Shown(s.out)
      <4>1. ~e.stopped /\ ~a.stopped /\ ~s.stopped
        BY <2>3, <2>5, <2>8, <3>2 DEF Adds
      <4>2. Shown(a.out) = y \o rest /\ Shown(e.out) = Shown(a.out) \o x
        BY <2>3, <2>5, <4>1 DEF Adds
      <4>3. y \in Text /\ y \o rest \in Text /\ (y \o rest) \o x \in Text
        BY <2>2, <2>7, ShownType, TextJoin
      <4> HIDE DEF y
      <4>4. Shown(n.out) \o n.reasoning = (y \o rest) \o x
        BY <2>8, <4>2, <4>3, TextNil DEF none
      <4>5. Letters(x) = <<>>
        BY <2>6, <2>10 DEF ThoughtBook
      <4>6. Letters((y \o rest) \o x) = Letters(y \o rest) \o Letters(x)
        BY <2>7, <4>3, LettersConcat, Zenon
      <4>7. Letters(y \o rest) \in Text
        BY <4>3, LettersType
      <4>8. Letters((y \o rest) \o x) = Letters(y \o rest)
        BY <4>5, <4>6, <4>7, TextNil
      <4>9. Letters(y \o rest) = Letters(y) \o Letters(rest)
            /\ Letters(y \o r) = Letters(y) \o Letters(r)
        BY <2>2, <4>3, LettersConcat
      <4>10. Letters(y \o r) = Letters(th)
        BY <2>10, <4>1 DEF ThoughtBook, y, r
      <4> QED
        BY <2>2, <4>4, <4>8, <4>9, <4>10
    <3> QED
      BY <3>1, <3>2 DEF ThoughtBook
  <2> QED
    BY <2>1, <2>8, <2>9, <2>10
<1> QED
  BY <1>1, <1>2 DEF States

-----------------------------------------------------------------------------
(* What the methods of the text yield. *)

Written == {"TextChunk", "TextDone"}

\* n is s with blocks of the text yielded, and only its own fields changed.
Texted(s, n) == Grows(s, n, Written) /\ Others(s, n)

LEMMA TextedTrans ==
  ASSUME NEW s \in States, NEW m, NEW n, Texted(s, m), Texted(m, n)
  PROVE  Texted(s, n)
<1>1. Grows(s, n, Written)
  BY GrowsTrans DEF Texted
<1> QED
  BY <1>1 DEF Texted, Others

LEMMA TextedStill ==
  ASSUME NEW s \in States
  PROVE  Texted(s, s)
BY GrowsStill DEF Texted, Others

LEMMA ChunkedTexted ==
  ASSUME NEW s \in States, NEW n, Chunked(s, n)
  PROVE  Texted(s, n)
<1>1. PICK c \in Text :
        /\ n \in States /\ n.fullText = s.fullText /\ Others(s, n)
        /\ s.inText # <<>> /\ s.inText = c \o n.inText
        /\ Made(s, "TextChunk", c, Blank, FALSE) \in Block
        /\ s.stopped => n.stopped /\ n.out = s.out
        /\ ~s.stopped => n.out = Append(s.out, Made(s, "TextChunk", c, Blank, FALSE))
  BY DEF Chunked
<1> DEFINE b == Made(s, "TextChunk", c, Blank, FALSE)
<1>2. b \in Block /\ b.kind \in Written /\ b.of = Blank /\ b.agent = s.agent /\ n.agent = s.agent
  BY <1>1 DEF Made, Written, Others, LivePart
<1> HIDE DEF b
<1>3. (s.stopped => n.stopped /\ n.out = s.out) /\ (~s.stopped => n.out = Append(s.out, b))
  BY <1>1 DEF b
<1>4. Grows(s, n, Written)
  BY <1>1, <1>2, <1>3, GrowsByOne
<1> QED
  BY <1>1, <1>4 DEF Texted

LEMMA FinishesTexted ==
  ASSUME NEW s \in States, NEW n, Finishes(s, n)
  PROVE  Texted(s, n)
<1> DEFINE b == Made(s, "TextDone", s.fullText, Blank, FALSE)
<1>1. b \in Block /\ b.kind \in Written /\ b.of = Blank /\ b.agent = s.agent /\ n.agent = s.agent
  BY DEF Finishes, Made, Written, Others, LivePart
<1> HIDE DEF b
<1>2. /\ n \in States /\ Others(s, n)
      /\ (s.stopped => n.stopped /\ n.out = s.out) /\ (~s.stopped => n.out = Append(s.out, b))
  BY DEF Finishes, b
<1>3. Grows(s, n, Written)
  BY <1>1, <1>2, GrowsByOne
<1> QED
  BY <1>2, <1>3 DEF Texted

\* Closing the text leaves none; a section is finished with what was heard or with the
\* text of a message.
LEMMA CloseTexts ==
  ASSUME NEW s \in States
  PROVE  /\ Texted(s, closeText(s))
         /\ closeText(s).inText = <<>> /\ closeText(s).fullText = <<>>
         /\ \A sp : Heard(s, sp) /\ (Section(s) \/ (s.fullText # <<>> /\ Message(s.fullText))) =>
              TextBook(closeText(s), sp)
<1> DEFINE n == closeText(s)
<1>1. PICK m \in States :
        /\ m.inText = <<>> /\ m.fullText = s.fullText /\ Others(s, m)
        /\ \/ m = s
           \/ Chunked(s, m)
        /\ IF s.fullText = <<>> THEN n = m ELSE Finishes(m, n)
  BY CloseTextSteps
<1> HIDE DEF n
<1>2. Texted(s, m)
  BY <1>1, TextedStill, ChunkedTexted
<1>3. ASSUME NEW sp, Heard(s, sp) PROVE Heard(m, sp) /\ (Section(s) => Section(m))
  BY <1>1, <1>3, TextChunk
<1>4. CASE s.fullText = <<>>
  <2>1. n = m
    BY <1>1, <1>4
  <2> QED
    BY <1>1, <1>2, <1>3, <1>4, <2>1 DEF TextBook, n
<1>5. CASE s.fullText # <<>>
  <2>1. Finishes(m, n)
    BY <1>1, <1>5
  <2>2. Texted(m, n) /\ n.inText = <<>> /\ n.fullText = <<>>
    BY <1>1, <2>1, FinishesTexted DEF Finishes
  <2>3. ASSUME NEW sp, Heard(s, sp), Section(s) \/ Message(s.fullText) PROVE TextBook(n, sp)
    <3>1. Heard(m, sp) /\ (Section(m) \/ Message(m.fullText))
      BY <1>1, <1>3, <2>3
    <3> QED
      BY <1>1, <2>1, <3>1, TextDone
  <2> QED
    BY <1>2, <2>2, <2>3, TextedTrans DEF n
<1> QED
  BY <1>4, <1>5

LEMMA FlushTexts ==
  ASSUME NEW s \in States
  PROVE  /\ Texted(s, flushTextChunks(s))
         /\ flushTextChunks(s).fullText = s.fullText
         /\ s.inText = <<>> => flushTextChunks(s).inText = <<>>
         /\ \A sp : TextBook(s, sp) => TextBook(flushTextChunks(s), sp)
<1> DEFINE m == flushOnce(s)
           n == flushOnce(m)
<1>1. ASSUME NEW u \in States
      PROVE  /\ Texted(u, flushOnce(u)) /\ flushOnce(u) \in States
             /\ flushOnce(u).fullText = u.fullText
             /\ u.inText = <<>> => flushOnce(u).inText = <<>>
             /\ \A sp : TextBook(u, sp) => TextBook(flushOnce(u), sp)
  <2> DEFINE v == flushOnce(u)
  <2>1. v = u \/ Chunked(u, v)
    BY FlushOnceChunks
  <2> HIDE DEF v
  <2>2. CASE v = u
    BY <2>2, TextedStill DEF v
  <2>3. CASE Chunked(u, v)
    <3>1. Texted(u, v) /\ v \in States /\ v.fullText = u.fullText /\ u.inText # <<>>
      BY <2>3, ChunkedTexted DEF Chunked
    <3>2. \A sp : TextBook(u, sp) => TextBook(v, sp)
      BY <2>3, TextChunk DEF TextBook
    <3> QED
      BY <3>1, <3>2 DEF v
  <2> QED
    BY <2>1, <2>2, <2>3
<1>2. flushTextChunks(s) = n
  BY Zenon DEF flushTextChunks
<1>3. /\ Texted(s, m) /\ m \in States /\ m.fullText = s.fullText
      /\ s.inText = <<>> => m.inText = <<>>
      /\ \A sp : TextBook(s, sp) => TextBook(m, sp)
  BY <1>1, Zenon
<1>4. /\ Texted(m, n) /\ n \in States /\ n.fullText = m.fullText
      /\ m.inText = <<>> => n.inText = <<>>
      /\ \A sp : TextBook(m, sp) => TextBook(n, sp)
  BY <1>1, <1>3, Zenon
<1> HIDE DEF m, n
<1>5. Texted(s, n)
  BY <1>3, <1>4, TextedTrans
<1> QED
  BY <1>2, <1>3, <1>4, <1>5

\* A delta joins what is pending and the section.
LEMMA JoinText ==
  ASSUME NEW s \in States, NEW delta \in Text
  PROVE  LET n == [s EXCEPT !.inText = @ \o delta, !.fullText = @ \o delta]
         IN  /\ n \in States /\ n.out = s.out /\ n.stopped = s.stopped /\ Others(s, n)
             /\ n.agent = s.agent
             /\ n.inText = s.inText \o delta /\ n.fullText = s.fullText \o delta
             /\ \A sp \in Text : TextBook(s, sp) => TextBook(n, sp \o delta)
<1> DEFINE x == s.inText
           y == s.fullText
           u == x \o delta
           v == y \o delta
           n == [s EXCEPT !.inText = u, !.fullText = v]
<1>1. x \in Text /\ y \in Text /\ u \in Text /\ v \in Text
  BY TextJoin DEF States
<1>2. [s EXCEPT !.inText = @ \o delta, !.fullText = @ \o delta] = n
  OBVIOUS
<1> HIDE DEF u, v
<1>3. /\ n \in States /\ n.out = s.out /\ n.stopped = s.stopped /\ Others(s, n)
      /\ n.agent = s.agent /\ n.inText = u /\ n.fullText = v
  BY <1>1 DEF States, Others, ThoughtPart, ToolPart, LivePart
<1> HIDE DEF n
<1>4. ASSUME NEW sp \in Text, TextBook(s, sp) PROVE TextBook(n, sp \o delta)
  <2> DEFINE c == Chunks(s.out)
             d == Since(s.out)
  <2>1. c \in Text /\ d \in Text
    BY TextTypes DEF States
  <2> HIDE DEF x, y, c, d
  <2>2. (c \o x) \o delta = c \o (x \o delta)
    <3>1. c \in Text /\ x \in Text /\ delta \in Text
      BY <1>1, <2>1
    <3> QED
      BY <3>1, TextAssoc, Zenon
  <2>3. (d \o x) \o delta = d \o (x \o delta)
    <3>1. d \in Text /\ x \in Text /\ delta \in Text
      BY <1>1, <2>1
    <3> QED
      BY <3>1, TextAssoc, Zenon
  <2> QED
    BY <1>3, <1>4, <2>2, <2>3 DEF TextBook, Heard, Section, u, v, x, y, c, d
<1> QED
  BY <1>2, <1>3, <1>4 DEF u, v

-----------------------------------------------------------------------------
(* One event folded. *)

Musings  == {"ReasoningStart"} \union Thoughts
Speeches == Written \union Musings

\* Blocks of the text and of the reasoning, and no change outside their fields.
Speaks(s, n) ==
  Grows(s, n, Speeches) /\ ToolPart(n) = ToolPart(s) /\ LivePart(n) = LivePart(s)

\* The books are kept: nothing more was said or thought.
Keeps(s, n) ==
  /\ \A sp : TextBook(s, sp) => TextBook(n, sp)
  /\ \A th : ThoughtBook(s, th) => ThoughtBook(n, th)

\* With no text pending, no text is drawn.
Dry(s, n) ==
  s.inText = <<>> =>
    n.inText = <<>> /\ \A i \in (Len(s.out) + 1)..Len(n.out) : n.out[i].kind # "TextChunk"

LEMMA SpeaksStill ==
  ASSUME NEW s \in States
  PROVE  Speaks(s, s) /\ Keeps(s, s) /\ Dry(s, s)
<1>1. Grows(s, s, Speeches)
  BY GrowsStill
<1>2. Len(s.out) \in Nat
  BY DEF States
<1> QED
  BY <1>1, <1>2 DEF Speaks, Keeps, Dry

LEMMA SpeaksTrans ==
  ASSUME NEW s \in States, NEW m, NEW n, Speaks(s, m), Speaks(m, n)
  PROVE  /\ Speaks(s, n)
         /\ Keeps(s, m) /\ Keeps(m, n) => Keeps(s, n)
         /\ Dry(s, m) /\ Dry(m, n) => Dry(s, n)
<1>1. Grows(s, n, Speeches)
  BY GrowsTrans DEF Speaks
<1>2. Speaks(s, n)
  BY <1>1 DEF Speaks
<1>3. ASSUME Dry(s, m), Dry(m, n), s.inText = <<>>,
             NEW i \in (Len(s.out) + 1)..Len(n.out)
      PROVE  n.inText = <<>> /\ n.out[i].kind # "TextChunk"
  <2>1. Len(s.out) \in Nat /\ Len(m.out) \in Nat /\ Len(n.out) \in Nat
    BY DEF Speaks, Grows, Extends, States
  <2>2. m.inText = <<>> /\ n.inText = <<>>
    BY <1>3 DEF Dry
  <2>3. CASE i <= Len(m.out)
    <3>1. i \in (Len(s.out) + 1)..Len(m.out) /\ i \in 1..Len(m.out)
      BY <2>1, <2>3
    <3>2. n.out[i] = m.out[i]
      BY <3>1 DEF Speaks, Grows, Extends
    <3> QED
      BY <1>3, <2>2, <3>1, <3>2 DEF Dry
  <2>4. CASE i > Len(m.out)
    <3>1. i \in (Len(m.out) + 1)..Len(n.out)
      BY <2>1, <2>4
    <3> QED
      BY <1>3, <2>2, <3>1 DEF Dry
  <2> QED
    BY <2>1, <2>3, <2>4
<1>4. ASSUME Dry(s, m), Dry(m, n) PROVE Dry(s, n)
  <2>1. s.inText = <<>> => n.inText = <<>>
    BY <1>4 DEF Dry
  <2> QED
    BY <1>3, <1>4, <2>1 DEF Dry
<1> QED
  BY <1>2, <1>4 DEF Keeps

\* Blocks of other kinds, with the text and the reasoning as they were.
LEMMA QuietKeeps ==
  ASSUME NEW s \in States, NEW n, NEW kinds, Extends(s, n, kinds),
         kinds \intersect (Written \union Thoughts) = {},
         TextPart(n) = TextPart(s), ThoughtPart(n) = ThoughtPart(s)
  PROVE  Keeps(s, n) /\ Dry(s, n)
<1>1. "TextChunk" \notin kinds /\ "TextDone" \notin kinds /\ kinds \intersect Thoughts = {}
  BY DEF Written
<1>2. n.inText = s.inText /\ n.fullText = s.fullText
  BY DEF TextPart
<1>3. \A sp : TextBook(s, sp) => TextBook(n, sp)
  BY <1>1, <1>2, TextQuiet DEF TextBook
<1>4. \A th : ThoughtBook(s, th) => ThoughtBook(n, th)
  BY <1>1, ThoughtQuiet
<1>5. Dry(s, n)
  BY <1>1, <1>2 DEF Dry, Extends
<1> QED
  BY <1>3, <1>4, <1>5 DEF Keeps

LEMMA MusedSpeaks ==
  ASSUME NEW s \in States, NEW n, Mused(s, n)
  PROVE  /\ Speaks(s, n) /\ Dry(s, n)
         /\ \A sp : TextBook(s, sp) => TextBook(n, sp)
<1>1. Extends(s, n, Musings)
  BY DEF Mused, Musings, Grows
<1>2. "TextChunk" \notin Musings /\ "TextDone" \notin Musings
  BY DEF Musings, Thoughts
<1>3. n.inText = s.inText /\ n.fullText = s.fullText
  BY DEF Mused, TextPart
<1>4. \A sp : TextBook(s, sp) => TextBook(n, sp)
  BY <1>1, <1>2, <1>3, TextQuiet DEF TextBook
<1>5. Dry(s, n)
  BY <1>1, <1>2, <1>3 DEF Dry, Extends
<1>6. Grows(s, n, Speeches)
  BY DEF Mused, Grows, Extends, Musings, Speeches
<1> QED
  BY <1>4, <1>5, <1>6 DEF Speaks, Mused

LEMMA TextedSpeaks ==
  ASSUME NEW s \in States, NEW n, Texted(s, n)
  PROVE  /\ Speaks(s, n)
         /\ \A th : ThoughtBook(s, th) => ThoughtBook(n, th)
<1>1. Extends(s, n, Written) /\ ThoughtPart(n) = ThoughtPart(s)
  BY DEF Texted, Grows, Others
<1>2. Written \intersect Thoughts = {}
  BY DEF Written, Thoughts
<1>3. \A th : ThoughtBook(s, th) => ThoughtBook(n, th)
  BY <1>1, <1>2, ThoughtQuiet
<1>4. Grows(s, n, Speeches)
  BY DEF Texted, Grows, Extends, Speeches
<1> QED
  BY <1>3, <1>4 DEF Speaks, Texted, Others

LEMMA CloseTextDry ==
  ASSUME NEW s \in States
  PROVE  Dry(s, closeText(s))
<1> DEFINE n == closeText(s)
<1> SUFFICES ASSUME s.inText = <<>>
             PROVE  \A i \in (Len(s.out) + 1)..Len(n.out) : n.out[i].kind # "TextChunk"
  BY CloseTexts DEF Dry
<1>1. PICK m \in States :
        /\ m.inText = <<>> /\ m.fullText = s.fullText /\ Others(s, m)
        /\ \/ m = s
           \/ Chunked(s, m)
        /\ IF s.fullText = <<>> THEN n = m ELSE Finishes(m, n)
  BY CloseTextSteps
<1> HIDE DEF n
<1>2. m = s
  BY <1>1 DEF Chunked
<1>3. CASE s.fullText = <<>>
  BY <1>1, <1>2, <1>3 DEF States
<1>4. CASE s.fullText # <<>>
  <2> DEFINE b == Made(s, "TextDone", s.fullText, Blank, FALSE)
             o == s.out
  <2>1. b \in Block /\ b.kind = "TextDone" /\ o \in Seq(Block)
        /\ (n.out = o \/ n.out = Append(o, b))
    BY <1>1, <1>2, <1>4 DEF Finishes, Made, States
  <2> HIDE DEF b, o
  <2>2. Len(o) \in Nat /\ Len(Append(o, b)) = Len(o) + 1 /\ Append(o, b)[Len(o) + 1] = b
    BY <2>1
  <2>3. \A i \in (Len(o) + 1)..Len(n.out) : n.out[i].kind # "TextChunk"
    BY <2>1, <2>2
  <2> QED
    BY <2>3 DEF o
<1> QED
  BY <1>3, <1>4

LEMMA CloseTextKeeps ==
  ASSUME NEW s \in States
  PROVE  Speaks(s, closeText(s)) /\ Keeps(s, closeText(s)) /\ Dry(s, closeText(s))
<1>1. \A sp : TextBook(s, sp) => TextBook(closeText(s), sp)
  BY CloseTexts DEF TextBook
<1> QED
  BY <1>1, CloseTexts, CloseTextDry, TextedSpeaks DEF Keeps

LEMMA CloseReasoningKeeps ==
  ASSUME NEW s \in States
  PROVE  /\ Speaks(s, closeReasoning(s)) /\ Keeps(s, closeReasoning(s))
         /\ Dry(s, closeReasoning(s)) /\ TextPart(closeReasoning(s)) = TextPart(s)
<1>1. TextPart(closeReasoning(s)) = TextPart(s)
  BY CloseMuses DEF Mused
<1> QED
  BY <1>1, CloseMuses, MusedSpeaks DEF Keeps

LEMMA BeginKeeps ==
  ASSUME NEW s \in States
  PROVE  /\ Speaks(s, beginReasoning(s)) /\ Keeps(s, beginReasoning(s))
         /\ Dry(s, beginReasoning(s)) /\ TextPart(beginReasoning(s)) = TextPart(s)
<1>1. TextPart(beginReasoning(s)) = TextPart(s)
  BY BeginMuses DEF Mused
<1> QED
  BY <1>1, BeginMuses, MusedSpeaks DEF Keeps

\* Both are closed, in either order.
LEMMA ClosesBoth ==
  ASSUME NEW s \in States
  PROVE  LET m == closeReasoning(closeText(s))
             n == closeText(closeReasoning(s))
         IN  /\ Speaks(s, m) /\ Keeps(s, m) /\ Dry(s, m)
             /\ m.inText = <<>> /\ m.fullText = <<>> /\ ~m.inReasoning
             /\ Speaks(s, n) /\ Keeps(s, n) /\ Dry(s, n)
             /\ n.inText = <<>> /\ n.fullText = <<>>
<1> DEFINE a == closeText(s)
           m == closeReasoning(a)
           b == closeReasoning(s)
           n == closeText(b)
<1>1. Speaks(s, a) /\ Keeps(s, a) /\ Dry(s, a) /\ a.inText = <<>> /\ a.fullText = <<>>
  BY CloseTextKeeps, CloseTexts
<1>2. a \in States
  BY <1>1 DEF Speaks, Grows, Extends
<1>3. Speaks(s, b) /\ Keeps(s, b) /\ Dry(s, b)
  BY CloseReasoningKeeps
<1>4. b \in States
  BY <1>3 DEF Speaks, Grows, Extends
<1> HIDE DEF a, b
<1>5. Speaks(a, m) /\ Keeps(a, m) /\ Dry(a, m) /\ TextPart(m) = TextPart(a) /\ ~m.inReasoning
  BY <1>2, CloseReasoningKeeps, CloseMuses
<1>6. Speaks(b, n) /\ Keeps(b, n) /\ Dry(b, n) /\ n.inText = <<>> /\ n.fullText = <<>>
  BY <1>4, CloseTextKeeps, CloseTexts
<1> HIDE DEF m, n
<1>7. Speaks(s, m) /\ Keeps(s, m) /\ Dry(s, m) /\ m.inText = <<>> /\ m.fullText = <<>>
  BY <1>1, <1>5, SpeaksTrans DEF TextPart
<1>8. Speaks(s, n) /\ Keeps(s, n) /\ Dry(s, n)
  BY <1>3, <1>6, SpeaksTrans
<1> QED
  BY <1>5, <1>6, <1>7, <1>8 DEF a, b, m, n

LEMMA AppendReasoningKeeps ==
  ASSUME NEW s \in States, NEW delta \in Text, NEW summary \in BOOLEAN
  PROVE  LET n == appendReasoning(s, delta, summary)
         IN  /\ Speaks(s, n) /\ Dry(s, n) /\ TextPart(n) = TextPart(s)
             /\ \A sp : TextBook(s, sp) => TextBook(n, sp)
             /\ \A th \in Text : ThoughtBook(s, th) => ThoughtBook(n, th \o delta)
<1> DEFINE n == appendReasoning(s, delta, summary)
<1>1. Mused(s, n) /\ \A th \in Text : ThoughtBook(s, th) => ThoughtBook(n, th \o delta)
  BY AppendMuses
<1> HIDE DEF n
<1>2. TextPart(n) = TextPart(s)
  BY <1>1 DEF Mused
<1> QED
  BY <1>1, <1>2, MusedSpeaks DEF n

LEMMA AppendTextKeeps ==
  ASSUME NEW s \in States, NEW delta \in Text, delta # <<>>
  PROVE  LET n == appendText(s, delta)
         IN  /\ Speaks(s, n) /\ n.fullText = s.fullText \o delta
             /\ \A sp \in Text : TextBook(s, sp) => TextBook(n, sp \o delta)
             /\ \A th : ThoughtBook(s, th) => ThoughtBook(n, th)
<1> DEFINE a == closeReasoning(s)
           b == [a EXCEPT !.inText = @ \o delta, !.fullText = @ \o delta]
           n == flushTextChunks(b)
<1>1. appendText(s, delta) = n
  BY Zenon DEF appendText
<1>2. Speaks(s, a) /\ Keeps(s, a) /\ TextPart(a) = TextPart(s)
  BY CloseReasoningKeeps
<1>3. a \in States /\ a.fullText = s.fullText
  BY <1>2 DEF Speaks, Grows, Extends, TextPart
<1> HIDE DEF a
<1>4. /\ b \in States /\ b.out = a.out /\ b.stopped = a.stopped /\ Others(a, b)
      /\ b.agent = a.agent
      /\ b.inText = a.inText \o delta /\ b.fullText = a.fullText \o delta
      /\ \A sp \in Text : TextBook(a, sp) => TextBook(b, sp \o delta)
  BY <1>3, JoinText
<1> HIDE DEF b
<1>5. Texted(a, b)
  <2>1. Grows(a, b, Written)
    BY <1>3, <1>4, GrowsStill
  <2> QED
    BY <1>4, <2>1 DEF Texted
<1>6. /\ Texted(b, n) /\ n.fullText = b.fullText
      /\ \A sp : TextBook(b, sp) => TextBook(n, sp)
  BY <1>4, FlushTexts
<1> HIDE DEF n
<1>7. Texted(a, n)
  BY <1>3, <1>4, <1>5, <1>6, TextedTrans
<1>8. Speaks(a, n) /\ \A th : ThoughtBook(a, th) => ThoughtBook(n, th)
  BY <1>3, <1>7, TextedSpeaks
<1>9. Speaks(s, n)
  BY <1>2, <1>3, <1>8, SpeaksTrans
<1>10. \A sp \in Text : TextBook(s, sp) => TextBook(n, sp \o delta)
  BY <1>2, <1>4, <1>6 DEF Keeps
<1>11. \A th : ThoughtBook(s, th) => ThoughtBook(n, th)
  BY <1>2, <1>8 DEF Keeps
<1>12. n.fullText = s.fullText \o delta
  BY <1>3, <1>4, <1>6
<1> QED
  BY <1>1, <1>9, <1>10, <1>11, <1>12

LEMMA FoldMessageKeeps ==
  ASSUME NEW s \in States, NEW text \in Text, Message(text)
  PROVE  LET n == foldMessage(s, text)
         IN  /\ Speaks(s, n) /\ Keeps(s, n) /\ Dry(s, n)
             /\ n.inText = <<>> /\ n.fullText = <<>>
<1>1. CASE text = <<>>
  <2>1. foldMessage(s, text) = closeText(s)
    BY <1>1, Zenon DEF foldMessage
  <2> QED
    BY <2>1, CloseTextKeeps, CloseTexts
<1>2. CASE text # <<>>
  <2> DEFINE m == [s EXCEPT !.fullText = text]
             n == closeText(m)
  <2>1. foldMessage(s, text) = n
    BY <1>2, Zenon DEF foldMessage
  <2>2. /\ m \in States /\ m.out = s.out /\ m.stopped = s.stopped /\ m.agent = s.agent
        /\ m.inText = s.inText /\ m.fullText = text
        /\ ThoughtPart(m) = ThoughtPart(s) /\ ToolPart(m) = ToolPart(s) /\ LivePart(m) = LivePart(s)
    BY DEF States, ThoughtPart, ToolPart, LivePart
  <2> HIDE DEF m
  <2>3. Grows(s, m, Speeches)
    BY <2>2, GrowsStill
  <2>4. Speaks(s, m)
    BY <2>2, <2>3 DEF Speaks
  <2>5. Dry(s, m)
    <3>1. Len(s.out) \in Nat
      BY DEF States
    <3> QED
      BY <2>2, <3>1 DEF Dry
  <2>6. \A sp : TextBook(s, sp) => Heard(m, sp)
    BY <2>2 DEF TextBook, Heard
  <2>7. \A th : ThoughtBook(s, th) => ThoughtBook(m, th)
    BY <2>2 DEF ThoughtBook, ThoughtShape, ThoughtPart
  <2>8. /\ Speaks(m, n) /\ Keeps(m, n) /\ Dry(m, n) /\ n.inText = <<>> /\ n.fullText = <<>>
        /\ \A sp : Heard(m, sp) => TextBook(n, sp)
    <3>1. m.fullText # <<>> /\ Message(m.fullText)
      BY <1>2, <2>2
    <3> QED
      BY <2>2, <3>1, CloseTextKeeps, CloseTexts
  <2> HIDE DEF n
  <2>9. Speaks(s, n) /\ Dry(s, n)
    BY <2>2, <2>4, <2>5, <2>8, SpeaksTrans
  <2>10. Keeps(s, n)
    BY <2>6, <2>7, <2>8 DEF Keeps
  <2> QED
    BY <2>1, <2>8, <2>9, <2>10
<1> QED
  BY <1>1, <1>2

\* One block about an identifier.
LEMMA YieldedExtends ==
  ASSUME NEW s \in States, NEW n, NEW b \in Block, Yielded(s, n, b)
  PROVE  /\ Extends(s, n, {b.kind}) /\ n.agent = s.agent
         /\ TextPart(n) = TextPart(s) /\ Others(s, n)
         /\ \A i \in (Len(s.out) + 1)..Len(n.out) : n.out[i] = b
<1>1. /\ n \in States /\ n = [s EXCEPT !.out = n.out, !.stopped = n.stopped]
      /\ IF s.stopped THEN n = s ELSE n.out = Append(s.out, b)
  BY DEF Yielded
<1>2. n.agent = s.agent /\ TextPart(n) = TextPart(s) /\ Others(s, n)
  BY <1>1 DEF States, TextPart, Others, ThoughtPart, ToolPart, LivePart
<1>3. s.out \in Seq(Block) /\ Len(s.out) \in Nat
  BY DEF States
<1>4. CASE s.stopped
  BY <1>1, <1>2, <1>3, <1>4 DEF Extends
<1>5. CASE ~s.stopped
  <2> DEFINE o == s.out
             m == n.out
  <2>1. m = Append(o, b) /\ o \in Seq(Block)
    BY <1>1, <1>3, <1>5
  <2> HIDE DEF o, m
  <2>2. Len(o) \in Nat /\ Len(m) = Len(o) + 1 /\ m[Len(o) + 1] = b
        /\ \A i \in 1..Len(o) : m[i] = o[i]
    BY <2>1
  <2>3. \A i \in (Len(o) + 1)..Len(m) : m[i] = b
    BY <2>2
  <2> QED
    BY <1>1, <1>2, <1>5, <2>2, <2>3 DEF Extends, o, m
<1> QED
  BY <1>3, <1>4, <1>5 DEF States

Told == {"ResponseStart", "ResponseEnd", "ToolGroup", "ToolResult"}

LEMMA YieldedKeeps ==
  ASSUME NEW s \in States, NEW n, NEW b \in Block, Yielded(s, n, b), b.kind \in Told
  PROVE  Keeps(s, n) /\ Dry(s, n)
<1>1. Extends(s, n, {b.kind}) /\ TextPart(n) = TextPart(s) /\ ThoughtPart(n) = ThoughtPart(s)
  BY YieldedExtends DEF Others
<1>2. {b.kind} \intersect (Written \union Thoughts) = {}
  BY DEF Told, Written, Thoughts
<1> QED
  BY <1>1, <1>2, QuietKeeps

\* Nothing yielded, and neither the text nor the reasoning changed.
LEMMA FieldKeeps ==
  ASSUME NEW s \in States, NEW n \in States, n.out = s.out, n.stopped = s.stopped,
         TextPart(n) = TextPart(s), ThoughtPart(n) = ThoughtPart(s)
  PROVE  Extends(s, n, {}) /\ Keeps(s, n) /\ Dry(s, n)
<1>1. Len(s.out) \in Nat
  BY DEF States
<1>2. Extends(s, n, {})
  BY <1>1 DEF Extends
<1>3. {} \intersect (Written \union Thoughts) = {}
  OBVIOUS
<1> QED
  BY <1>2, <1>3, QuietKeeps

-----------------------------------------------------------------------------
(* The book of the tools. *)

\* ToolsOnce of a sequence of blocks.
Once(o) ==
  \A i, j \in 1..Len(o) : o[i].of \in Calls /\ o[j].of = o[i].of =>
    /\ o[i].kind = o[j].kind => i = j
    /\ o[i].kind = "ToolGroup" /\ o[j].kind = "ToolResult" /\ i < j => o[j].known

\* Every block about a call is in the set that would keep it from coming again.
Seen(o, calls, results) ==
  \A i \in 1..Len(o) : o[i].of \in Calls =>
    \/ o[i].kind = "ToolGroup" /\ o[i].of \in calls
    \/ o[i].kind = "ToolResult" /\ o[i].of \in results

\* What is known of a call whose result has not come is what the call itself said.
ToolFields(s) ==
  /\ s.seenCalls \union s.seenResults = DOMAIN s.executions
  /\ \A c \in s.seenCalls \ s.seenResults : s.executions[c] = "call"

ToolBook(s) ==
  ToolFields(s) /\ Seen(s.out, s.seenCalls, s.seenResults) /\ Once(s.out)

LEMMA ToolQuiet ==
  ASSUME NEW s \in States, NEW n, NEW kinds, Extends(s, n, kinds), ToolBook(s),
         ToolPart(n) = ToolPart(s),
         \A i \in (Len(s.out) + 1)..Len(n.out) : n.out[i].of \notin Calls
  PROVE  ToolBook(n)
<1> DEFINE o == s.out
           m == n.out
<1>1. /\ Len(o) \in Nat /\ Len(m) \in Nat /\ \A k \in 1..Len(o) : m[k] = o[k]
      /\ \A k \in (Len(o) + 1)..Len(m) : m[k].of \notin Calls
  BY DEF Extends, States
<1>2. n.executions = s.executions /\ n.seenCalls = s.seenCalls /\ n.seenResults = s.seenResults
  BY DEF ToolPart
<1> HIDE DEF o, m
<1>3. \A i \in 1..Len(m) : m[i].of \in Calls => i \in 1..Len(o) /\ m[i] = o[i]
  BY <1>1
<1>4. Seen(m, n.seenCalls, n.seenResults)
  BY <1>2, <1>3 DEF ToolBook, Seen, o
<1>5. Once(m)
  <2>1. Once(o)
    BY DEF ToolBook, o
  <2> QED
    BY <1>3, <2>1 DEF Once
<1> QED
  BY <1>2, <1>4, <1>5 DEF ToolBook, ToolFields, m

LEMMA SpeaksTools ==
  ASSUME NEW s \in States, NEW n, Speaks(s, n), ToolBook(s)
  PROVE  ToolBook(n)
<1>1. Blank \notin Calls
  BY FoldAssumption
<1>2. Extends(s, n, Speeches) /\ ToolPart(n) = ToolPart(s)
  BY DEF Speaks, Grows
<1>3. \A i \in (Len(s.out) + 1)..Len(n.out) : n.out[i].of \notin Calls
  BY <1>1 DEF Speaks, Grows
<1> QED
  BY <1>2, <1>3, ToolQuiet

\* One block more about a call, of a kind not yet seen of it.
LEMMA ToolEmits ==
  ASSUME NEW s \in States, NEW n, NEW b \in Block, Yielded(s, n, b), ToolFields(s),
         NEW calls, NEW results, Seen(s.out, calls, results), Once(s.out),
         calls \subseteq s.seenCalls, results \subseteq s.seenResults,
         \/ b.kind = "ToolGroup" /\ b.of \in s.seenCalls \ calls
         \/ /\ b.kind = "ToolResult" /\ b.of \in s.seenResults \ results
            /\ b.of \in calls => b.known
  PROVE  ToolBook(n)
<1> DEFINE o == s.out
           m == n.out
<1>1. /\ Extends(s, n, {b.kind}) /\ ToolPart(n) = ToolPart(s)
      /\ \A i \in (Len(s.out) + 1)..Len(n.out) : n.out[i] = b
  BY YieldedExtends DEF Others
<1>2. n.executions = s.executions /\ n.seenCalls = s.seenCalls /\ n.seenResults = s.seenResults
  BY <1>1 DEF ToolPart
<1>3. /\ Len(o) \in Nat /\ Len(m) \in {Len(o), Len(o) + 1} /\ \A k \in 1..Len(o) : m[k] = o[k]
      /\ \A k \in (Len(o) + 1)..Len(m) : m[k] = b
  <2>1. Len(s.out) \in Nat /\ s.out \in Seq(Block)
    BY DEF States
  <2>2. n.out = s.out \/ n.out = Append(s.out, b)
    BY DEF Yielded
  <2>3. Len(Append(s.out, b)) = Len(s.out) + 1
    BY <2>1
  <2> QED
    BY <1>1, <2>1, <2>2, <2>3 DEF Extends
<1> HIDE DEF o, m
<1>4. \A i \in 1..Len(m) : (i \in 1..Len(o) /\ m[i] = o[i]) \/ (i = Len(o) + 1 /\ m[i] = b)
  BY <1>3
<1>5. Seen(o, calls, results) /\ Once(o)
  BY DEF o
<1>6. Seen(m, n.seenCalls, n.seenResults)
  BY <1>2, <1>4, <1>5 DEF Seen
<1>7. ASSUME NEW i \in 1..Len(m), NEW j \in 1..Len(m), m[i].of \in Calls, m[j].of = m[i].of
      PROVE  /\ m[i].kind = m[j].kind => i = j
             /\ m[i].kind = "ToolGroup" /\ m[j].kind = "ToolResult" /\ i < j => m[j].known
  <2>1. CASE i \in 1..Len(o) /\ m[i] = o[i] /\ j \in 1..Len(o) /\ m[j] = o[j]
    BY <1>5, <1>7, <2>1 DEF Once
  <2>2. CASE i \in 1..Len(o) /\ m[i] = o[i] /\ j = Len(o) + 1 /\ m[j] = b
    <3>1. \/ o[i].kind = "ToolGroup" /\ b.of \in calls
          \/ o[i].kind = "ToolResult" /\ b.of \in results
      BY <1>5, <1>7, <2>2 DEF Seen
    <3> QED
      BY <2>2, <3>1
  <2>3. CASE j \in 1..Len(o) /\ m[j] = o[j] /\ i = Len(o) + 1 /\ m[i] = b
    <3>1. \/ o[j].kind = "ToolGroup" /\ b.of \in calls
          \/ o[j].kind = "ToolResult" /\ b.of \in results
      BY <1>5, <1>7, <2>3 DEF Seen
    <3>2. ~(i < j)
      BY <1>3, <2>3
    <3> QED
      BY <2>3, <3>1, <3>2
  <2>4. CASE i = Len(o) + 1 /\ j = Len(o) + 1
    BY <1>3, <2>4
  <2> QED
    BY <1>4, <2>1, <2>2, <2>3, <2>4
<1>8. Once(m)
  BY <1>7 DEF Once
<1> QED
  BY <1>2, <1>6, <1>8 DEF ToolBook, ToolFields, m

-----------------------------------------------------------------------------
(* What a step of the fold may yield. *)

\* No failure, and text only in the context of s.
Steps(s, n) ==
  /\ Extends(s, n, Kinds \ {"failure"})
  /\ \A i \in (Len(s.out) + 1)..Len(n.out) :
       n.out[i].kind = "TextChunk" => n.out[i].agent = s.agent

\* No text is drawn.
Silent(s, n) == \A i \in (Len(s.out) + 1)..Len(n.out) : n.out[i].kind # "TextChunk"

LEMMA SpeaksSteps ==
  ASSUME NEW s \in States, NEW n, Speaks(s, n)
  PROVE  Steps(s, n) /\ n.agent = s.agent
<1>1. Speeches \subseteq Kinds \ {"failure"}
  BY DEF Speeches, Written, Musings, Thoughts, Kinds
<1> QED
  BY <1>1 DEF Speaks, Grows, Extends, Steps

LEMMA YieldedSteps ==
  ASSUME NEW s \in States, NEW n, NEW b \in Block, Yielded(s, n, b), b.kind \in Told
  PROVE  Steps(s, n) /\ n.agent = s.agent
<1>1. Extends(s, n, {b.kind}) /\ n.agent = s.agent
      /\ \A i \in (Len(s.out) + 1)..Len(n.out) : n.out[i] = b
  BY YieldedExtends
<1>2. b.kind # "failure" /\ b.kind # "TextChunk" /\ b.kind \in Kinds
  BY DEF Told, Kinds
<1> QED
  BY <1>1, <1>2 DEF Extends, Steps

LEMMA FieldSteps ==
  ASSUME NEW s \in States, NEW n \in States, n.out = s.out, n.stopped = s.stopped
  PROVE  Steps(s, n)
<1>1. Len(s.out) \in Nat
  BY DEF States
<1> QED
  BY <1>1 DEF Extends, Steps

LEMMA StepsTrans ==
  ASSUME NEW s \in States, NEW m, NEW n, Steps(s, m), Steps(m, n), m.agent = s.agent \/ Silent(m, n)
  PROVE  Steps(s, n)
<1>1. Len(s.out) \in Nat /\ Len(m.out) \in Nat /\ Len(n.out) \in Nat
  BY DEF Steps, Extends, States
<1>2. n \in States /\ Len(s.out) <= Len(n.out) /\ (s.stopped => n.stopped /\ n.out = s.out)
  BY <1>1 DEF Steps, Extends
<1>3. \A i \in 1..Len(s.out) : n.out[i] = s.out[i]
  BY <1>1 DEF Steps, Extends
<1>4. ASSUME NEW i \in (Len(s.out) + 1)..Len(n.out)
      PROVE  /\ n.out[i].kind \in Kinds \ {"failure"}
             /\ n.out[i].kind = "TextChunk" => n.out[i].agent = s.agent
  <2>1. CASE i <= Len(m.out)
    BY <1>1, <2>1 DEF Steps, Extends
  <2>2. CASE i > Len(m.out)
    BY <1>1, <2>2 DEF Steps, Extends, Silent
  <2> QED
    BY <1>1, <2>1, <2>2
<1> QED
  BY <1>2, <1>3, <1>4 DEF Steps, Extends

\* Keeps and Dry go from step to step.
LEMMA KeepsTrans ==
  ASSUME NEW s, NEW m, NEW n, Keeps(s, m), Keeps(m, n)
  PROVE  Keeps(s, n)
BY DEF Keeps

LEMMA DryTrans ==
  ASSUME NEW s \in States, NEW m, NEW n, Steps(s, m), Steps(m, n), Dry(s, m), Dry(m, n)
  PROVE  Dry(s, n)
<1>1. Len(s.out) \in Nat /\ Len(m.out) \in Nat /\ Len(n.out) \in Nat
  BY DEF Steps, Extends, States
<1> SUFFICES ASSUME s.inText = <<>>
             PROVE  /\ n.inText = <<>>
                    /\ \A i \in (Len(s.out) + 1)..Len(n.out) : n.out[i].kind # "TextChunk"
  BY DEF Dry
<1>2. m.inText = <<>> /\ n.inText = <<>>
  BY DEF Dry
<1>3. ASSUME NEW i \in (Len(s.out) + 1)..Len(n.out) PROVE n.out[i].kind # "TextChunk"
  <2>1. CASE i <= Len(m.out)
    <3>1. i \in (Len(s.out) + 1)..Len(m.out) /\ i \in 1..Len(m.out)
      BY <1>1, <2>1
    <3>2. n.out[i] = m.out[i]
      BY <3>1 DEF Steps, Extends
    <3> QED
      BY <3>1, <3>2 DEF Dry
  <2>2. CASE i > Len(m.out)
    <3>1. i \in (Len(m.out) + 1)..Len(n.out)
      BY <1>1, <2>2
    <3> QED
      BY <1>2, <3>1 DEF Dry
  <2> QED
    BY <1>1, <2>1, <2>2
<1> QED
  BY <1>2, <1>3

-----------------------------------------------------------------------------
(* Tool calls and their results. *)

LEMMA Executions ==
  ASSUME NEW s \in States
  PROVE  /\ DOMAIN s.executions \subseteq Calls
         /\ s.executions \in [DOMAIN s.executions -> {"call", "result"}]
<1>1. s.executions \in UNION {[C -> {"call", "result"}] : C \in SUBSET Calls}
  BY DEF States
<1> DEFINE x == s.executions
<1>2. PICK C \in SUBSET Calls : x \in [C -> {"call", "result"}]
  BY <1>1
<1> HIDE DEF x
<1>3. DOMAIN x = C
  BY <1>2
<1> QED
  BY <1>2, <1>3 DEF x

LEMMA KnowingIs ==
  ASSUME NEW s \in States, NEW call \in Calls, NEW from \in {"call", "result"}
  PROVE  LET k == Knowing(s, call, from)
         IN  /\ k \in States /\ k = [s EXCEPT !.executions = k.executions]
             /\ DOMAIN k.executions = DOMAIN s.executions \union {call}
             /\ \A c \in DOMAIN s.executions : k.executions[c] = s.executions[c]
             /\ call \notin DOMAIN s.executions => k.executions[call] = from
<1>1. /\ DOMAIN s.executions \subseteq Calls
      /\ s.executions \in [DOMAIN s.executions -> {"call", "result"}]
  BY Executions
<1>2. CASE call \in DOMAIN s.executions
  <2>1. Knowing(s, call, from) = s
    BY <1>2, Zenon DEF Knowing
  <2>2. s = [s EXCEPT !.executions = s.executions]
    BY DEF States
  <2> QED
    BY <1>2, <2>1, <2>2
<1>3. CASE call \notin DOMAIN s.executions
  <2> DEFINE D == DOMAIN s.executions
             x == s.executions
             g == With(x, call, from)
             k == [s EXCEPT !.executions = g]
  <2>1. Knowing(s, call, from) = [s EXCEPT !.executions = With(@, call, from)]
    BY <1>3, Zenon DEF Knowing
  <2>2. Knowing(s, call, from) = k
    BY <2>1
  <2>3. x \in [D -> {"call", "result"}] /\ D \subseteq Calls
    BY <1>1
  <2> HIDE DEF D, x
  <2>4. /\ g \in [D \union {call} -> {"call", "result"}] /\ g[call] = from
        /\ \A y \in D : y # call => g[y] = x[y]
    <3> DEFINE R == {"call", "result"}
    <3>1. x \in [D -> R] /\ from \in R
      BY <2>3
    <3> HIDE DEF R
    <3>2. g \in [D \union {call} -> R] /\ g[call] = from /\ \A y \in D : y # call => g[y] = x[y]
      BY <3>1 DEF With
    <3> QED
      BY <3>2 DEF R
  <2> HIDE DEF g
  <2>5. D \union {call} \in SUBSET Calls
    BY <2>3
  <2>6. g \in UNION {[C -> {"call", "result"}] : C \in SUBSET Calls}
    BY <2>4, <2>5
  <2>7. k \in States /\ k.executions = g
    BY <2>6 DEF States
  <2>8. DOMAIN g = D \union {call}
    BY <2>4
  <2>9. call \notin D
    BY <1>3 DEF D
  <2> QED
    BY <2>2, <2>4, <2>7, <2>8, <2>9 DEF D, x
<1> QED
  BY <1>2, <1>3

\* emitExecution is the block that says what is known of the call.
LEMMA ExecutionYields ==
  ASSUME NEW s \in States, NEW kind \in {"ToolGroup", "ToolResult"}, NEW call \in Calls
  PROVE  LET b == Made(s, kind, <<>>, call, s.executions[call] = "call")
         IN  /\ b \in Block /\ b.kind = kind /\ b.of = call
             /\ b.known = (s.executions[call] = "call")
             /\ Yielded(s, emitExecution(s, kind, call), b)
<1> DEFINE known == s.executions[call] = "call"
           b == Made(s, kind, <<>>, call, known)
<1>1. kind \in Kinds /\ call \in Ids /\ known \in BOOLEAN /\ <<>> \in Text
  BY TextNil DEF Kinds, Ids
<1>2. emitExecution(s, kind, call) = emit(s, kind, <<>>, call, known)
  BY Zenon DEF emitExecution
<1> HIDE DEF known
<1>3. b \in Block /\ Yielded(s, emit(s, kind, <<>>, call, known), b)
  BY <1>1, EmitYields, Zenon
<1>4. b.kind = kind /\ b.of = call /\ b.known = known
  BY DEF Made
<1> QED
  BY <1>2, <1>3, <1>4 DEF known

\* The event's step of the fold: what it yields, and the books.
Folded(s, n) ==
  /\ Steps(s, n) /\ Keeps(s, n) /\ Dry(s, n)
  /\ ToolBook(s) => ToolBook(n)

LEMMA FoldedTrans ==
  ASSUME NEW s \in States, NEW m, NEW n, Folded(s, m), Folded(m, n),
         m.agent = s.agent \/ Silent(m, n)
  PROVE  Folded(s, n)
<1>1. Steps(s, n) /\ Keeps(s, n) /\ Dry(s, n)
  BY StepsTrans, KeepsTrans, DryTrans DEF Folded
<1> QED
  BY <1>1 DEF Folded

LEMMA SpeaksFolded ==
  ASSUME NEW s \in States, NEW n, Speaks(s, n), Keeps(s, n), Dry(s, n)
  PROVE  Folded(s, n) /\ n.agent = s.agent /\ LivePart(n) = LivePart(s)
BY SpeaksSteps, SpeaksTools DEF Folded, Speaks

LEMMA FoldToolCallFolded ==
  ASSUME NEW s \in States, NEW call \in Calls \union {Blank}
  PROVE  LET n == foldToolCall(s, call)
         IN  /\ Folded(s, n) /\ LivePart(n) = LivePart(s)
             /\ TextPart(n) = TextPart(s) \/ (n.inText = <<>> /\ n.fullText = <<>>)
<1>1. CASE call = Blank
  <2>1. foldToolCall(s, call) = s
    BY <1>1, Zenon DEF foldToolCall
  <2> QED
    BY <2>1, SpeaksStill, SpeaksFolded
<1>2. CASE call # Blank
  <2> DEFINE w == Knowing(s, call, "call")
             f == w.executions
  <2>1. /\ call \in Calls
        /\ w \in States /\ w = [s EXCEPT !.executions = f]
        /\ DOMAIN f = DOMAIN s.executions \union {call}
        /\ \A c \in DOMAIN s.executions : f[c] = s.executions[c]
        /\ call \notin DOMAIN s.executions => f[call] = "call"
    BY <1>2, KnowingIs
  <2>2. DOMAIN s.executions \subseteq Calls /\ s.seenCalls \subseteq Calls
    BY Executions DEF States
  <2>3. CASE call \in s.seenCalls
    <3>1. foldToolCall(s, call) = w
      BY <1>2, <2>3, Zenon DEF foldToolCall
    <3> HIDE DEF w, f
    <3>2. /\ w.out = s.out /\ w.stopped = s.stopped /\ TextPart(w) = TextPart(s)
          /\ ThoughtPart(w) = ThoughtPart(s) /\ LivePart(w) = LivePart(s)
          /\ w.executions = f /\ w.seenCalls = s.seenCalls /\ w.seenResults = s.seenResults
      BY <2>1 DEF States, TextPart, ThoughtPart, LivePart
    <3>3. Steps(s, w) /\ Keeps(s, w) /\ Dry(s, w)
      BY <2>1, <3>2, FieldSteps, FieldKeeps
    <3>4. ASSUME ToolBook(s) PROVE ToolBook(w)
      <4>1. call \in DOMAIN s.executions
        BY <2>3, <3>4 DEF ToolBook, ToolFields
      <4>2. ToolFields(w)
        BY <2>1, <3>2, <3>4, <4>1 DEF ToolBook, ToolFields
      <4> QED
        BY <3>2, <3>4, <4>2 DEF ToolBook
    <3> QED
      BY <3>1, <3>2, <3>3, <3>4 DEF Folded
  <2>4. CASE call \notin s.seenCalls
    <3> DEFINE calls == s.seenCalls \union {call}
               k == [w EXCEPT !.seenCalls = calls]
               m == closeText(closeReasoning(k))
               n == emitExecution(m, "ToolGroup", call)
    <3>1. w.seenCalls = s.seenCalls
      BY <2>1 DEF States
    <3>2. [w EXCEPT !.seenCalls = @ \union {call}] = k
      BY <3>1
    <3>3. foldToolCall(s, call)
            = emitExecution(
                closeText(closeReasoning([Knowing(s, call, "call") EXCEPT
                                            !.seenCalls = @ \union {call}])),
                "ToolGroup", call)
      BY <1>2, <2>4, Zenon DEF foldToolCall
    <3>4. foldToolCall(s, call) = n
      BY <3>2, <3>3
    <3>5. calls \in SUBSET Calls
      BY <2>1, <2>2
    <3> HIDE DEF w, calls, f
    <3>6. /\ k \in States /\ k.out = s.out /\ k.stopped = s.stopped /\ TextPart(k) = TextPart(s)
          /\ ThoughtPart(k) = ThoughtPart(s) /\ LivePart(k) = LivePart(s)
          /\ k.executions = f /\ k.seenCalls = calls /\ k.seenResults = s.seenResults
          /\ k.agent = s.agent
      BY <2>1, <3>5 DEF States, TextPart, ThoughtPart, LivePart
    <3> HIDE DEF k
    <3>7. Steps(s, k) /\ Keeps(s, k) /\ Dry(s, k)
      BY <3>6, FieldSteps, FieldKeeps
    <3>8. /\ Speaks(k, m) /\ Keeps(k, m) /\ Dry(k, m)
          /\ m.inText = <<>> /\ m.fullText = <<>> /\ m \in States
      BY <3>6, ClosesBoth DEF Speaks, Grows, Extends
    <3> HIDE DEF m
    <3>9. Steps(k, m) /\ m.agent = k.agent
      BY <3>6, <3>8, SpeaksSteps
    <3> DEFINE b == Made(m, "ToolGroup", <<>>, call, m.executions[call] = "call")
    <3>10. b \in Block /\ b.kind = "ToolGroup" /\ b.of = call /\ Yielded(m, n, b)
      BY <2>1, <3>8, ExecutionYields
    <3> HIDE DEF n, b
    <3>11. /\ Steps(m, n) /\ Keeps(m, n) /\ Dry(m, n)
           /\ TextPart(n) = TextPart(m) /\ LivePart(n) = LivePart(m)
      BY <3>8, <3>10, YieldedSteps, YieldedKeeps, YieldedExtends DEF Told, Others
    <3>12. Steps(s, n) /\ Keeps(s, n) /\ Dry(s, n)
      <4>1. Steps(s, m) /\ m.agent = s.agent
        BY <3>6, <3>7, <3>9, StepsTrans
      <4>2. Dry(s, m) /\ Keeps(s, m)
        BY <3>7, <3>8, <3>9, DryTrans, KeepsTrans
      <4> QED
        BY <3>11, <4>1, <4>2, StepsTrans, DryTrans, KeepsTrans
    <3>13. LivePart(n) = LivePart(s) /\ n.inText = <<>> /\ n.fullText = <<>>
      BY <3>6, <3>8, <3>11 DEF Speaks, TextPart
    <3>14. ASSUME ToolBook(s) PROVE ToolBook(n)
      <4>1. call \in DOMAIN s.executions => call \in s.seenResults
        BY <2>4, <3>14 DEF ToolBook, ToolFields
      <4>2. calls \union s.seenResults = DOMAIN f
        BY <2>1, <3>14 DEF ToolBook, ToolFields, calls
      <4>3. \A c \in calls \ s.seenResults : f[c] = "call"
        <5> TAKE c \in calls \ s.seenResults
        <5>1. CASE c = call
          BY <2>1, <4>1, <5>1
        <5>2. CASE c # call
          <6>1. c \in s.seenCalls \ s.seenResults /\ c \in DOMAIN s.executions
            BY <3>14, <5>2 DEF ToolBook, ToolFields, calls
          <6> QED
            BY <2>1, <3>14, <6>1 DEF ToolBook, ToolFields
        <5> QED
          BY <5>1, <5>2
      <4>4. ToolFields(k)
        BY <3>6, <4>2, <4>3 DEF ToolFields
      <4>5. Seen(k.out, s.seenCalls, s.seenResults) /\ Once(k.out)
        BY <3>6, <3>14 DEF ToolBook
      <4>6. m.executions = k.executions /\ m.seenCalls = k.seenCalls
            /\ m.seenResults = k.seenResults
        BY <3>8 DEF Speaks, ToolPart
      <4>7. ToolFields(m)
        BY <4>4, <4>6 DEF ToolFields
      <4>8. Seen(m.out, s.seenCalls, s.seenResults) /\ Once(m.out)
        <5>1. /\ Len(k.out) \in Nat /\ \A i \in 1..Len(k.out) : m.out[i] = k.out[i]
              /\ \A i \in (Len(k.out) + 1)..Len(m.out) : m.out[i].of \notin Calls
              /\ Len(m.out) \in Nat
          <6>1. Blank \notin Calls
            BY FoldAssumption
          <6> QED
            BY <3>6, <3>8, <6>1 DEF Speaks, Grows, Extends, States
        <5>2. \A i \in 1..Len(m.out) : m.out[i].of \in Calls =>
                i \in 1..Len(k.out) /\ m.out[i] = k.out[i]
          BY <5>1
        <5>3. Seen(m.out, s.seenCalls, s.seenResults)
          <6>1. \A i \in 1..Len(k.out) : k.out[i].of \in Calls =>
                  \/ k.out[i].kind = "ToolGroup" /\ k.out[i].of \in s.seenCalls
                  \/ k.out[i].kind = "ToolResult" /\ k.out[i].of \in s.seenResults
            BY <4>5, SMTT(30) DEF Seen
          <6> SUFFICES ASSUME NEW i \in 1..Len(m.out), m.out[i].of \in Calls
                       PROVE  \/ m.out[i].kind = "ToolGroup" /\ m.out[i].of \in s.seenCalls
                              \/ m.out[i].kind = "ToolResult" /\ m.out[i].of \in s.seenResults
            BY Zenon DEF Seen
          <6>2. i \in 1..Len(k.out) /\ m.out[i] = k.out[i]
            BY <5>2, Zenon
          <6>3. k.out[i].of \in Calls
            BY <6>2, Zenon
          <6>4. \/ k.out[i].kind = "ToolGroup" /\ k.out[i].of \in s.seenCalls
                \/ k.out[i].kind = "ToolResult" /\ k.out[i].of \in s.seenResults
            BY <6>1, <6>2, <6>3, Zenon
          <6> QED
            BY <6>2, <6>4
        <5>4. Once(m.out)
          <6> SUFFICES ASSUME NEW i \in 1..Len(m.out), NEW j \in 1..Len(m.out),
                              m.out[i].of \in Calls, m.out[j].of = m.out[i].of
                       PROVE  /\ m.out[i].kind = m.out[j].kind => i = j
                              /\ m.out[i].kind = "ToolGroup" /\ m.out[j].kind = "ToolResult"
                                   /\ i < j => m.out[j].known
            BY Zenon DEF Once
          <6>1. /\ i \in 1..Len(k.out) /\ m.out[i] = k.out[i]
                /\ j \in 1..Len(k.out) /\ m.out[j] = k.out[j]
            BY <5>2, Zenon
          <6>2. k.out[i].of \in Calls /\ k.out[j].of = k.out[i].of
            BY <6>1, Zenon
          <6>3. /\ k.out[i].kind = k.out[j].kind => i = j
                /\ k.out[i].kind = "ToolGroup" /\ k.out[j].kind = "ToolResult"
                     /\ i < j => k.out[j].known
            BY <4>5, <6>1, <6>2, Zenon DEF Once
          <6> QED
            BY <6>1, <6>3, Zenon
        <5> QED
          BY <5>3, <5>4
      <4>9. call \in m.seenCalls \ s.seenCalls /\ s.seenCalls \subseteq m.seenCalls
            /\ s.seenResults \subseteq m.seenResults
        BY <2>4, <3>6, <4>6 DEF calls
      <4> QED
        BY <3>8, <3>10, <4>7, <4>8, <4>9, ToolEmits
    <3> QED
      BY <3>4, <3>12, <3>13, <3>14 DEF Folded
  <2> QED
    BY <2>3, <2>4
<1> QED
  BY <1>1, <1>2

LEMMA FoldToolResultFolded ==
  ASSUME NEW s \in States, NEW call \in Calls \union {Blank}
  PROVE  LET n == foldToolResult(s, call)
         IN  Folded(s, n) /\ LivePart(n) = LivePart(s) /\ TextPart(n) = TextPart(s)
<1>1. CASE call = Blank \/ call \in s.seenResults
  <2>1. foldToolResult(s, call) = s
    BY <1>1, Zenon DEF foldToolResult
  <2> QED
    BY <2>1, SpeaksStill, SpeaksFolded
<1>2. CASE call # Blank /\ call \notin s.seenResults
  <2> DEFINE w == Knowing(s, call, "result")
             f == w.executions
             results == s.seenResults \union {call}
             k == [w EXCEPT !.seenResults = results]
             n == emitExecution(k, "ToolResult", call)
  <2>1. /\ call \in Calls
        /\ w \in States /\ w = [s EXCEPT !.executions = f]
        /\ DOMAIN f = DOMAIN s.executions \union {call}
        /\ \A c \in DOMAIN s.executions : f[c] = s.executions[c]
    BY <1>2, KnowingIs
  <2>2. DOMAIN s.executions \subseteq Calls /\ s.seenResults \subseteq Calls
    BY Executions DEF States
  <2>3. w.seenResults = s.seenResults
    BY <2>1 DEF States
  <2>4. [w EXCEPT !.seenResults = @ \union {call}] = k
    BY <2>3
  <2>5. foldToolResult(s, call)
          = emitExecution([Knowing(s, call, "result") EXCEPT !.seenResults = @ \union {call}],
                          "ToolResult", call)
    BY <1>2, Zenon DEF foldToolResult
  <2>6. foldToolResult(s, call) = n
    BY <2>4, <2>5
  <2>7. results \in SUBSET Calls
    BY <2>1, <2>2
  <2> HIDE DEF w, results, f
  <2>8. /\ k \in States /\ k.out = s.out /\ k.stopped = s.stopped /\ TextPart(k) = TextPart(s)
        /\ ThoughtPart(k) = ThoughtPart(s) /\ LivePart(k) = LivePart(s)
        /\ k.executions = f /\ k.seenCalls = s.seenCalls /\ k.seenResults = results
        /\ k.agent = s.agent
    BY <2>1, <2>7 DEF States, TextPart, ThoughtPart, LivePart
  <2> HIDE DEF k
  <2>9. Steps(s, k) /\ Keeps(s, k) /\ Dry(s, k)
    BY <2>8, FieldSteps, FieldKeeps
  <2> DEFINE b == Made(k, "ToolResult", <<>>, call, k.executions[call] = "call")
  <2>10. /\ b \in Block /\ b.kind = "ToolResult" /\ b.of = call
         /\ b.known = (k.executions[call] = "call") /\ Yielded(k, n, b)
    BY <2>1, <2>8, ExecutionYields
  <2> HIDE DEF n, b
  <2>11. /\ Steps(k, n) /\ Keeps(k, n) /\ Dry(k, n)
         /\ TextPart(n) = TextPart(k) /\ LivePart(n) = LivePart(k)
    BY <2>8, <2>10, YieldedSteps, YieldedKeeps, YieldedExtends DEF Told, Others
  <2>12. Steps(s, n) /\ Keeps(s, n) /\ Dry(s, n)
    BY <2>8, <2>9, <2>11, StepsTrans, DryTrans, KeepsTrans
  <2>13. ASSUME ToolBook(s) PROVE ToolBook(n)
    <3>1. s.seenCalls \union results = DOMAIN f
      BY <2>1, <2>13 DEF ToolBook, ToolFields, results
    <3>2. \A c \in s.seenCalls \ s.seenResults : f[c] = "call"
      BY <2>1, <2>13 DEF ToolBook, ToolFields
    <3>3. ToolFields(k)
      BY <2>8, <3>1, <3>2 DEF ToolFields, results
    <3>4. Seen(k.out, s.seenCalls, s.seenResults) /\ Once(k.out)
      BY <2>8, <2>13 DEF ToolBook
    <3>5. /\ call \in k.seenResults \ s.seenResults /\ s.seenCalls \subseteq k.seenCalls
          /\ s.seenResults \subseteq k.seenResults
          /\ call \in s.seenCalls => b.known
      BY <1>2, <2>8, <2>10, <3>2 DEF results
    <3> QED
      BY <2>8, <2>10, <3>3, <3>4, <3>5, ToolEmits
  <2> QED
    BY <2>6, <2>8, <2>11, <2>12, <2>13 DEF Folded
<1> QED
  BY <1>1, <1>2

-----------------------------------------------------------------------------
(* Responses. *)

\* Every live response runs its own model, or none that was named, and text is credited
\* to one only while it is the only one.
Attributed(s) ==
  /\ IsFiniteSet(Live(s))
  /\ \A r \in Live(s) : s.liveResponses[r] \in {Model[r], Blank}
  /\ s.agent # Blank => \E r \in Responses : Live(s) = {r} /\ s.agent = Model[r]

LEMMA LiveType ==
  ASSUME NEW s \in States
  PROVE  Live(s) \subseteq Responses /\ s.liveResponses \in [Live(s) -> Models]
<1>1. s.liveResponses \in UNION {[R -> Models] : R \in SUBSET Responses}
  BY DEF States
<1> DEFINE x == s.liveResponses
<1>2. PICK R \in SUBSET Responses : x \in [R -> Models]
  BY <1>1
<1> HIDE DEF x
<1>3. DOMAIN x = R
  BY <1>2
<1> QED
  BY <1>2, <1>3 DEF x, Live

\* The fields an attribution reads, and those it leaves alone.
LEMMA RecomputeAttributes ==
  ASSUME NEW s \in States, IsFiniteSet(Live(s)),
         \A r \in Live(s) : s.liveResponses[r] \in {Model[r], Blank}
  PROVE  LET n == recomputeAttribution(s)
         IN  n \in States /\ n = [s EXCEPT !.agent = n.agent] /\ Attributed(n)
<1> DEFINE D == DOMAIN s.liveResponses
           c == CHOOSE r \in D : TRUE
           a == IF Cardinality(D) = 1 THEN s.liveResponses[c] ELSE Blank
           n == [s EXCEPT !.agent = a]
<1>1. recomputeAttribution(s) = n
  BY Zenon DEF recomputeAttribution
<1>2. D = Live(s) /\ D \subseteq Responses /\ s.liveResponses \in [D -> Models]
  BY LiveType DEF Live
<1>3. Blank \in Models
  BY DEF Models
<1>4. a \in Models /\ (a # Blank => \E r \in Responses : D = {r} /\ a = Model[r])
  <2>1. CASE Cardinality(D) = 1
    <3>1. PICK r : D = {r}
      BY <1>2, <2>1, FS_Singleton
    <3>2. c = r
      BY <3>1
    <3>3. r \in Responses /\ s.liveResponses[r] \in Models
      BY <1>2, <3>1
    <3>4. a = s.liveResponses[r]
      BY <2>1, <3>2
    <3>5. s.liveResponses[r] \in {Model[r], Blank}
      BY <1>2, <3>1
    <3> QED
      BY <3>1, <3>3, <3>4, <3>5
  <2>2. CASE Cardinality(D) # 1
    BY <1>3, <2>2
  <2> QED
    BY <2>1, <2>2
<1> HIDE DEF a, D
<1>5. n \in States /\ n.agent = a /\ n.liveResponses = s.liveResponses
  BY <1>4 DEF States
<1>6. Live(n) = D
  BY <1>5 DEF Live, D
<1> HIDE DEF n
<1>7. Attributed(n)
  BY <1>2, <1>4, <1>5, <1>6 DEF Attributed
<1>8. n = [s EXCEPT !.agent = n.agent]
  BY <1>5 DEF n
<1> QED
  BY <1>1, <1>5, <1>7, <1>8

\* What a step leaves of the fields of the responses.
LiveFields(s) == <<s.agent, s.iteration, s.liveResponses, s.endedResponse>>

LEMMA LiveSame ==
  ASSUME NEW s, NEW n, LivePart(n) = LivePart(s)
  PROVE  LiveFields(n) = LiveFields(s)
BY DEF LivePart, LiveFields

LEMMA AttributedSame ==
  ASSUME NEW s, NEW n, LiveFields(n) = LiveFields(s), Attributed(s)
  PROVE  Attributed(n)
BY DEF LiveFields, Attributed, Live

\* A block about a response is about no call.
LEMMA ResponseYields ==
  ASSUME NEW s \in States, NEW kind \in {"ResponseStart", "ResponseEnd"},
         NEW response \in Responses \union {Blank}
  PROVE  LET n == emit(s, kind, <<>>, response, FALSE)
         IN  /\ Folded(s, n) /\ Silent(s, n) /\ n \in States
             /\ TextPart(n) = TextPart(s) /\ Others(s, n)
<1> DEFINE b == Made(s, kind, <<>>, response, FALSE)
           n == emit(s, kind, <<>>, response, FALSE)
<1>1. kind \in Kinds /\ response \in Ids /\ FALSE \in BOOLEAN /\ <<>> \in Text
  BY TextNil DEF Kinds, Ids
<1>2. b \in Block /\ Yielded(s, n, b)
  BY <1>1, EmitYields, Zenon
<1>3. b.kind = kind /\ b.of = response /\ kind \in Told
  BY DEF Made, Told
<1> HIDE DEF b, n
<1>4. /\ Extends(s, n, {b.kind}) /\ TextPart(n) = TextPart(s) /\ Others(s, n)
      /\ \A i \in (Len(s.out) + 1)..Len(n.out) : n.out[i] = b
      /\ Steps(s, n) /\ Keeps(s, n) /\ Dry(s, n)
  BY <1>2, <1>3, YieldedExtends, YieldedSteps, YieldedKeeps
<1>5. response \notin Calls
  BY FoldAssumption
<1>6. ToolBook(s) => ToolBook(n)
  BY <1>3, <1>4, <1>5, ToolQuiet DEF Others
<1>7. Silent(s, n)
  BY <1>3, <1>4 DEF Silent
<1> QED
  BY <1>4, <1>6, <1>7 DEF Folded, n, Extends

LEMMA FieldFolded ==
  ASSUME NEW s \in States, NEW n \in States, n.out = s.out, n.stopped = s.stopped,
         TextPart(n) = TextPart(s), ThoughtPart(n) = ThoughtPart(s), ToolPart(n) = ToolPart(s)
  PROVE  Folded(s, n)
<1>1. Steps(s, n) /\ Keeps(s, n) /\ Dry(s, n)
  BY FieldSteps, FieldKeeps
<1>2. n.executions = s.executions /\ n.seenCalls = s.seenCalls /\ n.seenResults = s.seenResults
  BY DEF ToolPart
<1>3. ToolBook(s) => ToolBook(n)
  BY <1>2 DEF ToolBook, ToolFields
<1> QED
  BY <1>1, <1>3 DEF Folded

LEMMA AnnounceFolded ==
  ASSUME NEW s \in States, NEW response \in Responses \union {Blank}
  PROVE  LET n == announceResponse(s, response)
         IN  /\ Folded(s, n) /\ Silent(s, n) /\ n \in States
             /\ LiveFields(n) = LiveFields(s) /\ TextPart(n) = TextPart(s)
<1>1. CASE response = Blank \/ response \in s.startedResponses
  <2>1. announceResponse(s, response) = s
    BY <1>1, Zenon DEF announceResponse
  <2>2. Len(s.out) \in Nat
    BY DEF States
  <2>3. Silent(s, s)
    BY <2>2 DEF Silent
  <2> QED
    BY <2>1, <2>3, SpeaksStill, SpeaksFolded
<1>2. CASE ~(response = Blank \/ response \in s.startedResponses)
  <2> DEFINE started == s.startedResponses \union {response}
             k == [s EXCEPT !.startedResponses = started]
             n == emit(k, "ResponseStart", <<>>, response, FALSE)
  <2>1. announceResponse(s, response) = n
    BY <1>2, Zenon DEF announceResponse
  <2>2. started \in SUBSET Responses
    BY <1>2 DEF States
  <2> HIDE DEF started
  <2>3. /\ k \in States /\ k.out = s.out /\ k.stopped = s.stopped /\ TextPart(k) = TextPart(s)
        /\ ThoughtPart(k) = ThoughtPart(s) /\ ToolPart(k) = ToolPart(s)
        /\ LiveFields(k) = LiveFields(s) /\ k.agent = s.agent
    BY <2>2 DEF States, TextPart, ThoughtPart, ToolPart, LiveFields
  <2> HIDE DEF k
  <2>4. Folded(s, k)
    BY <2>3, FieldFolded
  <2>5. Folded(k, n) /\ Silent(k, n) /\ n \in States /\ TextPart(n) = TextPart(k) /\ Others(k, n)
    BY <2>3, ResponseYields
  <2> HIDE DEF n
  <2>6. Folded(s, n)
    BY <2>3, <2>4, <2>5, FoldedTrans
  <2>7. LiveFields(n) = LiveFields(s) /\ TextPart(n) = TextPart(s)
    BY <2>3, <2>5, LiveSame DEF Others
  <2>8. Silent(s, n)
    BY <2>3, <2>5 DEF Silent
  <2> QED
    BY <2>1, <2>5, <2>6, <2>7, <2>8
<1> QED
  BY <1>1, <1>2

LEMMA StartResponseFolded ==
  ASSUME NEW s \in States, NEW response \in Responses \union {Blank}, NEW model \in Models,
         response # Blank => model \in {Model[response], Blank}, Attributed(s)
  PROVE  LET n == startResponse(s, response, model)
         IN  /\ Folded(s, n) /\ Attributed(n) /\ TextPart(n) = TextPart(s)
             /\ Live(s) \subseteq Live(n) /\ n.iteration = s.iteration
             /\ n.endedResponse => s.endedResponse /\ Live(n) = Live(s)
<1>1. CASE response = Blank
  <2>1. startResponse(s, response, model) = s
    BY <1>1, Zenon DEF startResponse
  <2> QED
    BY <2>1, SpeaksStill, SpeaksFolded
<1>2. CASE response # Blank
  <2> DEFINE x == s.liveResponses
             D == DOMAIN x
             live == IF response \notin D \/ model # Blank THEN With(x, response, model) ELSE x
             k == [s EXCEPT !.liveResponses = live, !.endedResponse = FALSE]
             m == recomputeAttribution(k)
             n == announceResponse(m, response)
  <2>1. startResponse(s, response, model) = n
    BY <1>2, Zenon DEF startResponse
  <2>2. /\ D = Live(s) /\ D \subseteq Responses /\ x \in [D -> Models] /\ response \in Responses
        /\ IsFiniteSet(D) /\ \A r \in D : x[r] \in {Model[r], Blank}
    BY <1>2, LiveType DEF Live, Attributed
  <2>3. model \in {Model[response], Blank}
    BY <1>2
  <2> HIDE DEF x, D
  <2>4. /\ live \in UNION {[R -> Models] : R \in SUBSET Responses}
        /\ IsFiniteSet(DOMAIN live) /\ D \subseteq DOMAIN live
        /\ \A r \in DOMAIN live : live[r] \in {Model[r], Blank}
    <3>1. CASE response \notin D \/ model # Blank
      <4> DEFINE E == D \union {response}
                 g == With(x, response, model)
      <4>1. live = g
        BY <3>1
      <4>2. DOMAIN x = D
        BY DEF D
      <4>3. g = [r \in D \union {response} |-> IF r = response THEN model ELSE x[r]]
        BY <4>2 DEF With
      <4>4. \A r \in E : (IF r = response THEN model ELSE x[r]) \in Models
        BY <2>2
      <4>5. \A r \in E : (IF r = response THEN model ELSE x[r]) \in {Model[r], Blank}
        BY <2>2, <2>3
      <4>6. E \in SUBSET Responses /\ D \subseteq E
        BY <2>2
      <4>7. IsFiniteSet(E)
        BY <2>2, FS_AddElement
      <4>8. g = [r \in E |-> IF r = response THEN model ELSE x[r]]
        BY <4>3
      <4> HIDE DEF E, g
      <4>9. g \in [E -> Models] /\ DOMAIN g = E /\ \A r \in E : g[r] \in {Model[r], Blank}
        BY <4>4, <4>5, <4>8
      <4>10. g \in UNION {[R -> Models] : R \in SUBSET Responses}
        BY <4>6, <4>9
      <4> QED
        BY <4>1, <4>6, <4>7, <4>9, <4>10
    <3>2. CASE ~(response \notin D \/ model # Blank)
      <4>1. live = x /\ DOMAIN x = D
        BY <3>2 DEF D
      <4>2. x \in UNION {[R -> Models] : R \in SUBSET Responses}
        BY <2>2
      <4> QED
        BY <2>2, <4>1, <4>2
    <3> QED
      BY <3>1, <3>2
  <2> HIDE DEF live
  <2>5. /\ k \in States /\ k.out = s.out /\ k.stopped = s.stopped /\ TextPart(k) = TextPart(s)
        /\ ThoughtPart(k) = ThoughtPart(s) /\ ToolPart(k) = ToolPart(s) /\ k.agent = s.agent
        /\ k.liveResponses = live /\ k.endedResponse = FALSE /\ k.iteration = s.iteration
    BY <2>4 DEF States, TextPart, ThoughtPart, ToolPart
  <2> HIDE DEF k
  <2>6. Live(k) = DOMAIN live
    BY <2>5 DEF Live
  <2>7. m \in States /\ m = [k EXCEPT !.agent = m.agent] /\ Attributed(m)
    BY <2>4, <2>5, <2>6, RecomputeAttributes
  <2> HIDE DEF m
  <2>8. /\ m.out = k.out /\ m.stopped = k.stopped /\ TextPart(m) = TextPart(k)
        /\ ThoughtPart(m) = ThoughtPart(k) /\ ToolPart(m) = ToolPart(k)
        /\ m.liveResponses = k.liveResponses /\ m.endedResponse = k.endedResponse
        /\ m.iteration = k.iteration
    BY <2>5, <2>7 DEF States, TextPart, ThoughtPart, ToolPart
  <2>9. Folded(s, m)
    BY <2>5, <2>7, <2>8, FieldFolded
  <2>10. /\ Folded(m, n) /\ Silent(m, n) /\ n \in States
         /\ LiveFields(n) = LiveFields(m) /\ TextPart(n) = TextPart(m)
    BY <2>7, AnnounceFolded
  <2> HIDE DEF n
  <2>11. Folded(s, n)
    BY <2>9, <2>10, FoldedTrans
  <2>12. /\ Attributed(n) /\ n.iteration = s.iteration /\ n.endedResponse = FALSE
         /\ Live(n) = DOMAIN live /\ TextPart(n) = TextPart(s)
    BY <2>5, <2>7, <2>8, <2>10, AttributedSame DEF LiveFields, Live
  <2>13. Live(s) \subseteq Live(n)
    BY <2>2, <2>4, <2>12
  <2> QED
    BY <2>1, <2>11, <2>12, <2>13
<1> QED
  BY <1>1, <1>2

LEMMA EndResponseFolded ==
  ASSUME NEW s \in States, NEW response \in Responses \union {Blank}, Attributed(s)
  PROVE  LET n == endResponse(s, response)
         IN  /\ Folded(s, n) /\ Attributed(n) /\ n.inText = <<>> /\ n.fullText = <<>>
             /\ n.iteration = s.iteration + 1
<1> DEFINE a == closeReasoning(closeText(s))
           b == emit(a, "ResponseEnd", <<>>, response, FALSE)
           live == Without(b.liveResponses, response)
           k == [b EXCEPT !.liveResponses = live]
           m == recomputeAttribution(k)
           n == [m EXCEPT !.endedResponse = TRUE, !.iteration = @ + 1]
<1>1. endResponse(s, response) = n
  BY Zenon DEF endResponse
<1>2. Speaks(s, a) /\ Keeps(s, a) /\ Dry(s, a) /\ a.inText = <<>> /\ a.fullText = <<>>
  BY ClosesBoth
<1>3. a \in States /\ Folded(s, a) /\ a.agent = s.agent /\ LivePart(a) = LivePart(s)
  BY <1>2, SpeaksFolded DEF Speaks, Grows, Extends
<1> HIDE DEF a
<1>4. Folded(a, b) /\ b \in States /\ TextPart(b) = TextPart(a) /\ Others(a, b)
  BY <1>3, ResponseYields
<1> HIDE DEF b
<1>5. LiveFields(b) = LiveFields(s) /\ Attributed(b) /\ b.agent = s.agent
  BY <1>3, <1>4, LiveSame, AttributedSame DEF Others, LiveFields
<1>6. Folded(s, b)
  BY <1>3, <1>4, FoldedTrans
<1>7. /\ live \in UNION {[R -> Models] : R \in SUBSET Responses}
      /\ IsFiniteSet(DOMAIN live)
      /\ \A r \in DOMAIN live : live[r] \in {Model[r], Blank}
  <2> DEFINE x == b.liveResponses
             E == DOMAIN x \ {response}
  <2>1. /\ DOMAIN x = Live(b) /\ Live(b) \subseteq Responses /\ x \in [Live(b) -> Models]
        /\ IsFiniteSet(Live(b)) /\ \A r \in Live(b) : x[r] \in {Model[r], Blank}
    BY <1>4, <1>5, LiveType DEF Live, Attributed
  <2>2. live = [r \in E |-> x[r]]
    BY DEF Without, Restrict
  <2>3. E \in SUBSET Responses /\ E \subseteq Live(b)
    BY <2>1
  <2>4. IsFiniteSet(E)
    BY <2>1, <2>3, FS_Subset
  <2> HIDE DEF live, E, x
  <2>5. live \in [E -> Models] /\ DOMAIN live = E /\ \A r \in E : live[r] = x[r]
    BY <2>1, <2>2, <2>3
  <2>6. live \in UNION {[R -> Models] : R \in SUBSET Responses}
    BY <2>3, <2>5
  <2> QED
    BY <2>1, <2>3, <2>4, <2>5, <2>6
<1> HIDE DEF live
<1>8. /\ k \in States /\ k.out = b.out /\ k.stopped = b.stopped /\ TextPart(k) = TextPart(b)
      /\ ThoughtPart(k) = ThoughtPart(b) /\ ToolPart(k) = ToolPart(b) /\ k.agent = b.agent
      /\ k.liveResponses = live /\ k.iteration = b.iteration
  BY <1>4, <1>7 DEF States, TextPart, ThoughtPart, ToolPart
<1> HIDE DEF k
<1>9. Live(k) = DOMAIN live
  BY <1>8 DEF Live
<1>10. m \in States /\ m = [k EXCEPT !.agent = m.agent] /\ Attributed(m)
  BY <1>7, <1>8, <1>9, RecomputeAttributes
<1> HIDE DEF m
<1>11. /\ m.out = k.out /\ m.stopped = k.stopped /\ TextPart(m) = TextPart(k)
       /\ ThoughtPart(m) = ThoughtPart(k) /\ ToolPart(m) = ToolPart(k)
       /\ m.liveResponses = k.liveResponses /\ m.iteration = k.iteration
  BY <1>8, <1>10 DEF States, TextPart, ThoughtPart, ToolPart
<1>12. /\ n \in States /\ n.out = m.out /\ n.stopped = m.stopped /\ TextPart(n) = TextPart(m)
       /\ ThoughtPart(n) = ThoughtPart(m) /\ ToolPart(n) = ToolPart(m) /\ n.agent = m.agent
       /\ n.liveResponses = m.liveResponses /\ n.iteration = m.iteration + 1
  <2> DEFINE it == m.iteration + 1
  <2>1. it \in Nat
    BY <1>10 DEF States
  <2>2. n = [m EXCEPT !.endedResponse = TRUE, !.iteration = it]
    OBVIOUS
  <2> HIDE DEF it, n
  <2>3. /\ n \in States /\ n.out = m.out /\ n.stopped = m.stopped /\ n.agent = m.agent
        /\ n.liveResponses = m.liveResponses /\ n.iteration = it
    BY <1>10, <2>1, <2>2 DEF States
  <2>4. /\ TextPart(n) = TextPart(m) /\ ThoughtPart(n) = ThoughtPart(m)
        /\ ToolPart(n) = ToolPart(m)
    BY <1>10, <2>2 DEF States, TextPart, ThoughtPart, ToolPart
  <2> QED
    BY <2>3, <2>4 DEF it
<1> HIDE DEF n
<1>13. Folded(b, n)
  BY <1>4, <1>8, <1>11, <1>12, FieldFolded
<1>14. Folded(s, n)
  BY <1>5, <1>6, <1>13, FoldedTrans
<1>15. Attributed(n)
  BY <1>10, <1>12 DEF Attributed, Live
<1>16. n.inText = <<>> /\ n.fullText = <<>>
  BY <1>2, <1>4, <1>8, <1>11, <1>12 DEF TextPart
<1>17. n.iteration = s.iteration + 1
  BY <1>5, <1>8, <1>11, <1>12 DEF LiveFields
<1> QED
  BY <1>1, <1>14, <1>15, <1>16, <1>17

-----------------------------------------------------------------------------
(* The inductive invariant, and the steps. *)

\* The books balance, text is pending only within a section, and only what is live was
\* heard in one.
Book(s, sp, th, hd) ==
  /\ s \in States /\ sp \in Text /\ th \in Text /\ hd \subseteq Responses
  /\ TextBook(s, sp) /\ ThoughtBook(s, th) /\ ToolBook(s) /\ Attributed(s)
  /\ s.inText # <<>> => s.fullText # <<>>
  /\ s.fullText # <<>> => hd \subseteq Live(s)

\* While events are folded no failure was yielded, and an end that left no response
\* speaking left none live, or two overlapped.
NoFailure(o)    == \A i \in 1..Len(o) : o[i].kind # "failure"
Spoke(s, mu)    == s.endedResponse /\ Live(s) # {} => mu
Open(s, mu)     == Spoke(s, mu) /\ NoFailure(s.out)

\* CreditIsCertain, of one step.
Credits(s, n, hd) ==
  \A i \in (Len(s.out) + 1)..Len(n.out) :
    n.out[i].kind = "TextChunk" /\ n.out[i].agent # Blank =>
      \A r \in hd : Model[r] = n.out[i].agent

LEMMA BookKept ==
  ASSUME NEW s, NEW n, NEW sp, NEW th, NEW hd, Book(s, sp, th, hd), Folded(s, n), Attributed(n),
         \/ TextPart(n) = TextPart(s) /\ Live(s) \subseteq Live(n)
         \/ n.inText = <<>> /\ n.fullText = <<>>
  PROVE  Book(n, sp, th, hd)
<1>1. n \in States
  BY DEF Folded, Steps, Extends
<1>2. TextBook(n, sp) /\ ThoughtBook(n, th) /\ ToolBook(n)
  BY DEF Book, Folded, Keeps
<1>3. n.inText # <<>> => n.fullText # <<>>
  BY DEF Book, TextPart
<1>4. n.fullText # <<>> => hd \subseteq Live(n)
  BY DEF Book, TextPart
<1> QED
  BY <1>1, <1>2, <1>3, <1>4 DEF Book

LEMMA OneLive ==
  ASSUME NEW s, NEW n, NEW hd, Attributed(s), Steps(s, n), hd \subseteq Live(s)
  PROVE  Credits(s, n, hd)
<1> SUFFICES ASSUME NEW i \in (Len(s.out) + 1)..Len(n.out),
                    n.out[i].kind = "TextChunk", n.out[i].agent # Blank, NEW r \in hd
             PROVE  Model[r] = n.out[i].agent
  BY DEF Credits
<1>1. n.out[i].agent = s.agent
  BY DEF Steps
<1>2. PICK q \in Responses : Live(s) = {q} /\ s.agent = Model[q]
  BY <1>1 DEF Attributed
<1> QED
  BY <1>1, <1>2

LEMMA CreditKept ==
  ASSUME NEW s, NEW n, NEW sp, NEW th, NEW hd, Book(s, sp, th, hd), Folded(s, n)
  PROVE  Credits(s, n, hd)
<1>1. CASE s.inText = <<>>
  BY <1>1 DEF Folded, Dry, Credits
<1>2. CASE s.inText # <<>>
  BY <1>2, OneLive DEF Book, Folded
<1> QED
  BY <1>1, <1>2

LEMMA FailureKept ==
  ASSUME NEW s \in States, NEW n, Steps(s, n), NoFailure(s.out)
  PROVE  NoFailure(n.out)
<1>1. Len(s.out) \in Nat /\ Len(n.out) \in Nat
  BY DEF Steps, Extends, States
<1> SUFFICES ASSUME NEW i \in 1..Len(n.out) PROVE n.out[i].kind # "failure"
  BY DEF NoFailure
<1>2. CASE i <= Len(s.out)
  BY <1>1, <1>2 DEF Steps, Extends, NoFailure
<1>3. CASE i > Len(s.out)
  BY <1>1, <1>3 DEF Steps, Extends
<1> QED
  BY <1>1, <1>2, <1>3

\* What the ghosts of Listen become.
Spoken(sp, e)  == IF e.kind = "text.delta" THEN sp \o e.text ELSE sp
Thought(th, e) ==
  IF e.kind \in {"reasoning.delta", "summary.delta"} THEN th \o e.text ELSE th
Hears(s, hd, e) ==
  IF e.kind # "text.delta" THEN hd
  ELSE Live(s) \union IF s.fullText = <<>> THEN {} ELSE hd
Muddles(n, mu, e) == mu \/ (e.kind \in Terminal /\ Live(n) # {})

\* One event leads from book to book.
Turns(s, n, sp, th, hd, mu, e) ==
  /\ Book(n, Spoken(sp, e), Thought(th, e), Hears(s, hd, e))
  /\ Steps(s, n)
  /\ Credits(s, n, Hears(s, hd, e))
  /\ Spoke(s, mu) => Spoke(n, Muddles(n, mu, e))
  /\ n.iteration \in {s.iteration, s.iteration + 1}

\* An event that is neither of the text nor of the reasoning, or that adds to neither.
LEMMA PlainTurn ==
  ASSUME NEW s, NEW n, NEW sp, NEW th, NEW hd, NEW mu, NEW e, Book(s, sp, th, hd),
         Folded(s, n), Attributed(n),
         \/ TextPart(n) = TextPart(s) /\ Live(s) \subseteq Live(n)
         \/ n.inText = <<>> /\ n.fullText = <<>>,
         e.kind \notin {"text.delta", "reasoning.delta", "summary.delta"},
         Spoke(s, mu) => Spoke(n, Muddles(n, mu, e)),
         n.iteration \in {s.iteration, s.iteration + 1}
  PROVE  Turns(s, n, sp, th, hd, mu, e)
<1>1. Spoken(sp, e) = sp /\ Thought(th, e) = th /\ Hears(s, hd, e) = hd
  BY DEF Spoken, Thought, Hears
<1>2. Book(n, sp, th, hd) /\ Credits(s, n, hd)
  BY BookKept, CreditKept
<1> QED
  BY <1>1, <1>2 DEF Turns, Folded

\* The responses are as they were.
LEMMA LiveTurn ==
  ASSUME NEW s, NEW n, NEW mu, NEW e, LiveFields(n) = LiveFields(s), Attributed(s)
  PROVE  /\ Attributed(n) /\ Live(s) = Live(n)
         /\ Spoke(s, mu) => Spoke(n, Muddles(n, mu, e))
         /\ n.iteration = s.iteration
<1>1. Attributed(n)
  BY AttributedSame
<1>2. n.liveResponses = s.liveResponses /\ n.endedResponse = s.endedResponse
      /\ n.iteration = s.iteration
  BY DEF LiveFields
<1> QED
  BY <1>1, <1>2 DEF Live, Spoke, Muddles

LEMMA FeedType ==
  ASSUME NEW e \in Feed
  PROVE  /\ e.kind \in Speaking \union {"response.queued"} =>
              /\ e.response \in Responses \union {Blank} /\ e.model \in Models
              /\ e.response # Blank => e.model \in {Model[e.response], Blank}
         /\ e.kind \in Terminal => e.response \in Responses \union {Blank}
         /\ e.kind \in {"text.delta", "reasoning.delta", "summary.delta", "message"} =>
              e.text \in Text
         /\ e.kind \in {"call", "call.output"} => e.call \in Calls \union {Blank}
         /\ e.kind \in Speaking \union Terminal \union Plain
              \union {"response.queued", "text.delta", "reasoning.delta", "summary.delta",
                      "message", "call", "call.output", "reasoning.started", "other"}
<1>1. \/ e \in ResponseEvents \/ e \in TerminalEvents \/ e \in TextEvents
      \/ e \in CallEvents \/ e \in PlainEvents
  BY FoldAssumption
<1>2. CASE e \in ResponseEvents
  <2>1. e.response \in Responses => e.model \in {Model[e.response], Blank}
    BY <1>2, FoldAssumption
  <2> QED
    BY <1>2, <2>1 DEF ResponseEvents, Speaking, Terminal
<1>3. CASE e \in TerminalEvents
  BY <1>3 DEF TerminalEvents, Speaking, Terminal
<1>4. CASE e \in TextEvents
  BY <1>4 DEF TextEvents, Speaking, Terminal, Text
<1>5. CASE e \in CallEvents
  BY <1>5 DEF CallEvents, Speaking, Terminal
<1>6. CASE e \in PlainEvents
  BY <1>6 DEF PlainEvents, Speaking, Terminal, Plain
<1> QED
  BY <1>1, <1>2, <1>3, <1>4, <1>5, <1>6

LEMMA FoldIs ==
  ASSUME NEW s, NEW e
  PROVE  /\ e.kind \in Speaking => Fold(s, e) = startResponse(s, e.response, e.model)
         /\ e.kind = "response.queued" => Fold(s, e) = announceResponse(s, e.response)
         /\ e.kind = "reasoning.started" => Fold(s, e) = beginReasoning(s)
         /\ e.kind = "reasoning.delta" => Fold(s, e) = appendReasoning(s, e.text, FALSE)
         /\ e.kind = "summary.delta" => Fold(s, e) = appendReasoning(s, e.text, TRUE)
         /\ e.kind = "text.delta" => Fold(s, e) = appendText(s, e.text)
         /\ e.kind = "message" => Fold(s, e) = foldMessage(s, e.text)
         /\ e.kind = "call" => Fold(s, e) = foldToolCall(s, e.call)
         /\ e.kind = "call.output" => Fold(s, e) = foldToolResult(s, e.call)
         /\ e.kind \in Plain => Fold(s, e) = put(s, e.kind)
         /\ e.kind \in Terminal => Fold(s, e) = endResponse(s, e.response)
         /\ e.kind = "other" => Fold(s, e) = s
BY DEF Fold, Speaking, Plain, Terminal

LEMMA PutFolded ==
  ASSUME NEW s \in States, NEW kind \in Plain
  PROVE  LET n == put(s, kind)
         IN  Folded(s, n) /\ LivePart(n) = LivePart(s) /\ TextPart(n) = TextPart(s)
<1> DEFINE n == put(s, kind)
<1>1. kind \in Kinds \ {"failure"} /\ kind # "TextChunk"
      /\ {kind} \intersect (Written \union Thoughts) = {}
  BY DEF Kinds, Plain, Written, Thoughts
<1>2. Shows(s, n, kind, <<>>)
  BY <1>1, PutShows
<1> HIDE DEF n
<1>3. Grows(s, n, {kind}) /\ TextPart(n) = TextPart(s) /\ Others(s, n)
  BY <1>2, ShowsGrows
<1>4. Keeps(s, n) /\ Dry(s, n)
  BY <1>1, <1>3, QuietKeeps DEF Grows, Others
<1>5. Steps(s, n)
  BY <1>1, <1>3 DEF Grows, Extends, Steps
<1>6. Blank \notin Calls
  BY FoldAssumption
<1>7. ToolBook(s) => ToolBook(n)
  BY <1>3, <1>6, ToolQuiet DEF Grows, Others
<1> QED
  BY <1>3, <1>4, <1>5, <1>7 DEF Folded, Others, n

LEMMA ReasoningTurn ==
  ASSUME NEW s, NEW sp, NEW th, NEW hd, NEW mu, NEW e \in Feed, Book(s, sp, th, hd),
         e.kind \in {"reasoning.delta", "summary.delta"}, NEW summary \in BOOLEAN
  PROVE  Turns(s, appendReasoning(s, e.text, summary), sp, th, hd, mu, e)
<1> DEFINE d == e.text
           n == appendReasoning(s, d, summary)
<1>1. d \in Text
  BY FeedType
<1>2. s \in States /\ Attributed(s)
  BY DEF Book
<1>3. Spoken(sp, e) = sp /\ Thought(th, e) = th \o d /\ Hears(s, hd, e) = hd
  BY DEF Spoken, Thought, Hears
<1> HIDE DEF d
<1>4. /\ Speaks(s, n) /\ Dry(s, n) /\ TextPart(n) = TextPart(s)
      /\ \A x : TextBook(s, x) => TextBook(n, x)
      /\ \A x \in Text : ThoughtBook(s, x) => ThoughtBook(n, x \o d)
  BY <1>1, <1>2, AppendReasoningKeeps
<1> HIDE DEF n
<1>5. Steps(s, n) /\ (ToolBook(s) => ToolBook(n)) /\ LivePart(n) = LivePart(s) /\ n \in States
  BY <1>2, <1>4, SpeaksSteps, SpeaksTools DEF Speaks, Grows, Extends
<1>6. /\ Attributed(n) /\ Live(s) = Live(n)
      /\ Spoke(s, mu) => Spoke(n, Muddles(n, mu, e))
      /\ n.iteration = s.iteration
  BY <1>2, <1>5, LiveSame, LiveTurn
<1>7. th \o d \in Text
  BY <1>1, TextJoin DEF Book
<1>8. Book(n, sp, th \o d, hd)
  BY <1>4, <1>5, <1>6, <1>7 DEF Book, TextPart
<1>9. Credits(s, n, hd)
  <2>1. CASE s.inText = <<>>
    BY <1>4, <2>1 DEF Dry, Credits
  <2>2. CASE s.inText # <<>>
    BY <1>5, <2>2, OneLive DEF Book
  <2> QED
    BY <2>1, <2>2
<1> QED
  BY <1>3, <1>5, <1>6, <1>8, <1>9 DEF Turns, n, d

LEMMA TextTurn ==
  ASSUME NEW s, NEW sp, NEW th, NEW hd, NEW mu, NEW e \in Feed, Book(s, sp, th, hd),
         e.kind = "text.delta"
  PROVE  Turns(s, appendText(s, e.text), sp, th, hd, mu, e)
<1> DEFINE d == e.text
           n == appendText(s, d)
           h == Live(s) \union IF s.fullText = <<>> THEN {} ELSE hd
<1>1. d \in Text
  BY FeedType
<1>2. s \in States /\ Attributed(s)
  BY DEF Book
<1>3. Spoken(sp, e) = sp \o d /\ Thought(th, e) = th /\ Hears(s, hd, e) = h
  BY DEF Spoken, Thought, Hears
<1> HIDE DEF d
<1>4. h \subseteq Live(s) /\ h \subseteq Responses
  BY <1>2, LiveType DEF Book
<1> HIDE DEF h
<1>5. CASE d = <<>>
  <2>1. n = s
    BY <1>5, Zenon DEF appendText
  <2>2. sp \o d = sp
    BY <1>5, TextNil DEF Book
  <2>3. Steps(s, s)
    BY <1>2, FieldSteps
  <2>4. Book(s, sp, th, h)
    BY <1>4 DEF Book
  <2>5. /\ Attributed(s)
        /\ Spoke(s, mu) => Spoke(s, Muddles(s, mu, e))
    BY <1>2, LiveTurn
  <2> HIDE DEF n
  <2>6. Credits(s, s, h)
    BY <1>2, <1>4, <2>3, OneLive
  <2> QED
    BY <1>3, <2>1, <2>2, <2>3, <2>4, <2>5, <2>6 DEF Turns, n, d
<1>6. CASE d # <<>>
  <2>1. /\ Speaks(s, n) /\ n.fullText = s.fullText \o d
        /\ \A x \in Text : TextBook(s, x) => TextBook(n, x \o d)
        /\ \A x : ThoughtBook(s, x) => ThoughtBook(n, x)
    BY <1>1, <1>2, <1>6, AppendTextKeeps
  <2> HIDE DEF n
  <2>2. Steps(s, n) /\ (ToolBook(s) => ToolBook(n)) /\ LivePart(n) = LivePart(s) /\ n \in States
    BY <1>2, <2>1, SpeaksSteps, SpeaksTools DEF Speaks, Grows, Extends
  <2>3. /\ Attributed(n) /\ Live(s) = Live(n)
        /\ Spoke(s, mu) => Spoke(n, Muddles(n, mu, e))
        /\ n.iteration = s.iteration
    BY <1>2, <2>2, LiveSame, LiveTurn
  <2>4. sp \o d \in Text
    BY <1>1, TextJoin DEF Book
  <2>5. n.fullText # <<>>
    <3> DEFINE y == s.fullText
    <3>1. y \in Seq(Characters) /\ d \in Seq(Characters)
      BY <1>1, <1>2 DEF States, Text
    <3> HIDE DEF y
    <3>2. Len(y \o d) = Len(y) + Len(d) /\ Len(y) \in Nat /\ Len(d) \in Nat /\ Len(d) # 0
      BY <1>6, <3>1
    <3>3. y \o d # <<>>
      BY <3>1, <3>2
    <3> QED
      BY <2>1, <3>3 DEF y
  <2>6. Book(n, sp \o d, th, h)
    BY <1>4, <2>1, <2>2, <2>3, <2>4, <2>5 DEF Book
  <2>7. Credits(s, n, h)
    BY <1>2, <1>4, <2>2, OneLive
  <2> QED
    BY <1>3, <2>2, <2>3, <2>6, <2>7 DEF Turns, n, d
<1> QED
  BY <1>5, <1>6

LEMMA FoldTurns ==
  ASSUME NEW s, NEW sp, NEW th, NEW hd, NEW mu, NEW e \in Feed, Book(s, sp, th, hd)
  PROVE  Turns(s, Fold(s, e), sp, th, hd, mu, e)
<1> DEFINE n == Fold(s, e)
           loud == {"text.delta", "reasoning.delta", "summary.delta"}
<1>1. s \in States /\ Attributed(s)
  BY DEF Book
<1>2. CASE e.kind \in Speaking
  <2>1. n = startResponse(s, e.response, e.model)
    BY <1>2, FoldIs
  <2>2. /\ e.response \in Responses \union {Blank} /\ e.model \in Models
        /\ e.response # Blank => e.model \in {Model[e.response], Blank}
    BY <1>2, FeedType
  <2>3. /\ Folded(s, n) /\ Attributed(n) /\ TextPart(n) = TextPart(s)
        /\ Live(s) \subseteq Live(n) /\ n.iteration = s.iteration
        /\ n.endedResponse => s.endedResponse /\ Live(n) = Live(s)
    BY <1>1, <2>1, <2>2, StartResponseFolded
  <2>4. e.kind \notin loud
    BY <1>2 DEF Speaking
  <2> HIDE DEF n
  <2>5. Spoke(s, mu) => Spoke(n, Muddles(n, mu, e))
    BY <2>3 DEF Spoke, Muddles
  <2> QED
    BY <2>3, <2>4, <2>5, PlainTurn DEF n
<1>3. CASE e.kind = "response.queued"
  <2>1. n = announceResponse(s, e.response)
    BY <1>3, FoldIs
  <2>2. e.response \in Responses \union {Blank}
    BY <1>3, FeedType
  <2>3. Folded(s, n) /\ LiveFields(n) = LiveFields(s) /\ TextPart(n) = TextPart(s)
    BY <1>1, <2>1, <2>2, AnnounceFolded
  <2> HIDE DEF n
  <2> QED
    BY <1>1, <1>3, <2>3, LiveTurn, PlainTurn DEF n
<1>4. CASE e.kind = "reasoning.started"
  <2>1. n = beginReasoning(s)
    BY <1>4, FoldIs
  <2>2. Folded(s, n) /\ LivePart(n) = LivePart(s) /\ TextPart(n) = TextPart(s)
    BY <1>1, <2>1, BeginKeeps, SpeaksFolded
  <2> HIDE DEF n
  <2> QED
    BY <1>1, <1>4, <2>2, LiveSame, LiveTurn, PlainTurn DEF n
<1>5. CASE e.kind = "reasoning.delta"
  <2>1. n = appendReasoning(s, e.text, FALSE)
    BY <1>5, FoldIs
  <2>2. e.kind \in {"reasoning.delta", "summary.delta"} /\ FALSE \in BOOLEAN
    BY <1>5
  <2>3. Turns(s, appendReasoning(s, e.text, FALSE), sp, th, hd, mu, e)
    BY <1>5, <2>2, ReasoningTurn, Zenon
  <2> QED
    BY <2>1, <2>3
<1>6. CASE e.kind = "summary.delta"
  <2>1. n = appendReasoning(s, e.text, TRUE)
    BY <1>6, FoldIs
  <2>2. e.kind \in {"reasoning.delta", "summary.delta"} /\ TRUE \in BOOLEAN
    BY <1>6
  <2>3. Turns(s, appendReasoning(s, e.text, TRUE), sp, th, hd, mu, e)
    BY <1>6, <2>2, ReasoningTurn, Zenon
  <2> QED
    BY <2>1, <2>3
<1>7. CASE e.kind = "text.delta"
  <2>1. n = appendText(s, e.text)
    BY <1>7, FoldIs
  <2>3. Turns(s, appendText(s, e.text), sp, th, hd, mu, e)
    BY <1>7, TextTurn, Zenon
  <2> QED
    BY <2>1, <2>3
<1>8. CASE e.kind = "message"
  <2>1. n = foldMessage(s, e.text)
    BY <1>8, FoldIs
  <2>2. e.text \in Text /\ Message(e.text)
    BY <1>8, FeedType DEF Message
  <2>3. Speaks(s, n) /\ Keeps(s, n) /\ Dry(s, n) /\ n.inText = <<>> /\ n.fullText = <<>>
    BY <1>1, <2>1, <2>2, FoldMessageKeeps
  <2> HIDE DEF n
  <2>4. Folded(s, n) /\ LivePart(n) = LivePart(s)
    BY <1>1, <2>3, SpeaksFolded
  <2> QED
    BY <1>1, <1>8, <2>3, <2>4, LiveSame, LiveTurn, PlainTurn DEF n
<1>9. CASE e.kind = "call"
  <2>1. n = foldToolCall(s, e.call)
    BY <1>9, FoldIs
  <2>2. e.call \in Calls \union {Blank}
    BY <1>9, FeedType
  <2>3. /\ Folded(s, n) /\ LivePart(n) = LivePart(s)
        /\ TextPart(n) = TextPart(s) \/ (n.inText = <<>> /\ n.fullText = <<>>)
    BY <1>1, <2>1, <2>2, FoldToolCallFolded
  <2> HIDE DEF n
  <2> QED
    BY <1>1, <1>9, <2>3, LiveSame, LiveTurn, PlainTurn DEF n
<1>10. CASE e.kind = "call.output"
  <2>1. n = foldToolResult(s, e.call)
    BY <1>10, FoldIs
  <2>2. e.call \in Calls \union {Blank}
    BY <1>10, FeedType
  <2>3. Folded(s, n) /\ LivePart(n) = LivePart(s) /\ TextPart(n) = TextPart(s)
    BY <1>1, <2>1, <2>2, FoldToolResultFolded
  <2> HIDE DEF n
  <2> QED
    BY <1>1, <1>10, <2>3, LiveSame, LiveTurn, PlainTurn DEF n
<1>11. CASE e.kind \in Plain
  <2>1. n = put(s, e.kind)
    BY <1>11, FoldIs
  <2>2. Folded(s, n) /\ LivePart(n) = LivePart(s) /\ TextPart(n) = TextPart(s)
    BY <1>1, <1>11, <2>1, PutFolded
  <2>3. e.kind \notin loud
    BY <1>11 DEF Plain
  <2> HIDE DEF n
  <2> QED
    BY <1>1, <2>2, <2>3, LiveSame, LiveTurn, PlainTurn DEF n
<1>12. CASE e.kind \in Terminal
  <2>1. n = endResponse(s, e.response)
    BY <1>12, FoldIs
  <2>2. e.response \in Responses \union {Blank}
    BY <1>12, FeedType
  <2>3. /\ Folded(s, n) /\ Attributed(n) /\ n.inText = <<>> /\ n.fullText = <<>>
        /\ n.iteration = s.iteration + 1
    BY <1>1, <2>1, <2>2, EndResponseFolded
  <2>4. e.kind \notin loud
    BY <1>12 DEF Terminal
  <2> HIDE DEF n
  <2>5. Spoke(n, Muddles(n, mu, e))
    BY <1>12 DEF Spoke, Muddles
  <2> QED
    BY <2>3, <2>4, <2>5, PlainTurn DEF n
<1>13. CASE e.kind = "other"
  <2>1. n = s
    BY <1>13, FoldIs
  <2>2. Folded(s, n) /\ LivePart(n) = LivePart(s) /\ TextPart(n) = TextPart(s)
    BY <1>1, <2>1, SpeaksStill, SpeaksFolded
  <2> HIDE DEF n
  <2> QED
    BY <1>1, <1>13, <2>2, LiveSame, LiveTurn, PlainTurn DEF n
<1> QED
  BY <1>2, <1>3, <1>4, <1>5, <1>6, <1>7, <1>8, <1>9, <1>10, <1>11, <1>12, <1>13, FeedType

\* n is what s hands over when the sequence breaks or closes: the books still balance, and
\* an open turn has nothing left to say.
Salvages(s, n, sp, th, hd, mu) ==
  /\ Book(n, sp, th, hd) /\ Steps(s, n) /\ Credits(s, n, hd)
  /\ n.iteration = s.iteration
  /\ Live(n) # {} /\ ~mu => n.inText = <<>> /\ n.fullText = <<>> /\ ~n.inReasoning

LEMMA SalvagedTurns ==
  ASSUME NEW s, NEW sp, NEW th, NEW hd, NEW mu, Book(s, sp, th, hd), Spoke(s, mu)
  PROVE  Salvages(s, Salvaged(s), sp, th, hd, mu)
<1> DEFINE n == Salvaged(s)
<1>0. n = Salvaged(s)
  OBVIOUS
<1> HIDE DEF n
<1> SUFFICES Salvages(s, n, sp, th, hd, mu)
  BY <1>0
<1>1. s \in States /\ Attributed(s)
  BY DEF Book
<1>2. CASE s.endedResponse
  <2>1. n = s
    BY <1>0, <1>2, Zenon DEF Salvaged
  <2>2. Steps(s, s) /\ Folded(s, s)
    BY <1>1, FieldSteps, SpeaksStill, SpeaksFolded
  <2> QED
    BY <1>2, <2>1, <2>2, CreditKept DEF Spoke, Salvages
<1>3. CASE ~s.endedResponse
  <2>1. n = closeReasoning(closeText(s))
    BY <1>0, <1>3, Zenon DEF Salvaged
  <2>2. /\ Speaks(s, n) /\ Keeps(s, n) /\ Dry(s, n)
        /\ n.inText = <<>> /\ n.fullText = <<>> /\ ~n.inReasoning
    BY <1>1, <2>1, ClosesBoth
  <2>3. Folded(s, n) /\ LivePart(n) = LivePart(s)
    BY <1>1, <2>2, SpeaksFolded
  <2>4. Attributed(n) /\ n.iteration = s.iteration
    BY <1>1, <2>3, LiveSame, AttributedSame DEF LivePart
  <2>5. Book(n, sp, th, hd) /\ Credits(s, n, hd)
    BY <2>2, <2>3, <2>4, BookKept, CreditKept
  <2> QED
    BY <2>1, <2>2, <2>3, <2>4, <2>5 DEF Folded, Salvages
<1> QED
  BY <1>2, <1>3

\* The error is one block more, and changes nothing else.
LEMMA FailureTurns ==
  ASSUME NEW s, NEW sp, NEW th, NEW hd, Book(s, sp, th, hd)
  PROVE  LET n == put(s, "failure")
         IN  /\ Book(n, sp, th, hd) /\ Credits(s, n, hd) /\ n.iteration = s.iteration
             /\ Live(n) = Live(s) /\ n.inText = s.inText /\ n.fullText = s.fullText
             /\ n.inReasoning = s.inReasoning /\ n.endedResponse = s.endedResponse
             /\ Extends(s, n, {"failure"})
             /\ Len(n.out) <= Len(s.out) + 1
<1> DEFINE n == put(s, "failure")
<1>1. s \in States /\ Attributed(s) /\ ToolBook(s)
  BY DEF Book
<1>2. Shows(s, n, "failure", <<>>)
  <2>1. "failure" \in Kinds
    BY DEF Kinds
  <2> QED
    BY <1>1, <2>1, PutShows
<1> HIDE DEF n
<1>3. /\ Grows(s, n, {"failure"}) /\ TextPart(n) = TextPart(s) /\ Others(s, n) /\ n \in States
  BY <1>1, <1>2, ShowsGrows DEF Shows
<1>4. Extends(s, n, {"failure"}) /\ {"failure"} \intersect (Written \union Thoughts) = {}
  BY <1>3 DEF Grows, Written, Thoughts
<1>5. Keeps(s, n)
  BY <1>1, <1>3, <1>4, QuietKeeps DEF Others
<1>6. ToolBook(n)
  <2>1. Blank \notin Calls
    BY FoldAssumption
  <2> QED
    BY <1>1, <1>3, <2>1, ToolQuiet DEF Grows, Others
<1>7. Attributed(n) /\ Live(n) = Live(s) /\ n.iteration = s.iteration
      /\ n.endedResponse = s.endedResponse
  BY <1>1, <1>3, LiveSame, AttributedSame DEF Others, LivePart, Live
<1>8. n.inText = s.inText /\ n.fullText = s.fullText /\ n.inReasoning = s.inReasoning
  BY <1>3 DEF TextPart, Others, ThoughtPart
<1>9. Book(n, sp, th, hd)
  BY <1>3, <1>5, <1>6, <1>7, <1>8 DEF Book, Keeps
<1>10. Credits(s, n, hd)
  BY <1>3 DEF Grows, Extends, Credits
<1>11. Len(n.out) <= Len(s.out) + 1
  <2> DEFINE o == s.out
             b == Made(s, "failure", <<>>, Blank, FALSE)
  <2>1. o \in Seq(Block) /\ (n.out = o \/ n.out = Append(o, b)) /\ b \in Block
    BY <1>1, <1>2 DEF Shows, States
  <2> HIDE DEF o, b
  <2>2. Len(o) \in Nat /\ Len(Append(o, b)) = Len(o) + 1
    BY <2>1
  <2>3. Len(n.out) <= Len(o) + 1
    BY <2>1, <2>2
  <2> QED
    BY <2>3 DEF o
<1> QED
  BY <1>4, <1>7, <1>8, <1>9, <1>10, <1>11 DEF n

-----------------------------------------------------------------------------
(* The invariant of the specification. *)

FoldInv ==
  /\ Book(fold, spoken, thought, heard)
  /\ pc \in {"folding", "over"} /\ muddled \in BOOLEAN /\ patience \in Patience
  /\ events \in 0..MaxEvents /\ fold.iteration <= events
  /\ pc = "folding" => Open(fold, muddled)
  /\ AnswerSalvaged

LEMMA NewBlockState == newBlockState \in States
<1> DEFINE none == <<>>
           no == {}
<1>1. none \in Text /\ none \in Seq(Block) /\ no \in SUBSET Responses /\ no \in SUBSET Calls
  BY TextNil
<1>2. Blank \in Models /\ 0 \in Nat
  BY DEF Models
<1>3. none \in [no -> Models] /\ none \in [no -> {"call", "result"}]
  OBVIOUS
<1>4. none \in UNION {[R -> Models] : R \in SUBSET Responses}
      /\ none \in UNION {[C -> {"call", "result"}] : C \in SUBSET Calls}
  BY <1>1, <1>3
<1> DEFINE s == [agent |-> Blank, iteration |-> 0,
                 startedResponses |-> no, liveResponses |-> none,
                 inText |-> none, fullText |-> none,
                 inReasoning |-> FALSE, reasoning |-> none, reasoningText |-> none,
                 summaryText |-> none, reasoningChunked |-> FALSE, endedResponse |-> FALSE,
                 executions |-> none, seenCalls |-> no, seenResults |-> no,
                 stopped |-> FALSE, out |-> none]
<1>5. newBlockState = s
  BY DEF newBlockState
<1> HIDE DEF none, no
<1>6. s \in States
  BY <1>1, <1>2, <1>4 DEF States
<1> QED
  BY <1>5, <1>6

LEMMA FoldInit == Init => FoldInv
<1> SUFFICES ASSUME Init PROVE FoldInv
  OBVIOUS
<1>1. fold \in States
  BY NewBlockState DEF Init
<1>2. /\ fold.out = <<>> /\ fold.inText = <<>> /\ fold.fullText = <<>> /\ fold.reasoning = <<>>
      /\ fold.reasoningText = <<>> /\ fold.summaryText = <<>> /\ fold.agent = Blank
      /\ fold.liveResponses = <<>> /\ fold.executions = <<>> /\ fold.seenCalls = {}
      /\ fold.seenResults = {} /\ fold.iteration = 0
  BY DEF Init, newBlockState
<1>3. spoken = <<>> /\ thought = <<>> /\ heard = {} /\ muddled = FALSE /\ pc = "folding"
      /\ patience \in Patience /\ events = 0
  BY DEF Init
<1>4. Live(fold) = {}
  BY <1>2 DEF Live
<1>5. \A kinds : Slice(<<>>, kinds, 1, 0) = <<>>
  <2> TAKE kinds
  <2>1. <<>> \in Seq(Block) /\ 1 \in 1..(Len(<<>>) + 1) /\ 1 - 1 = 0
    OBVIOUS
  <2> QED
    BY <2>1, SliceNone
<1>6. Len(fold.out) = 0
  BY <1>2
<1>7. TextBook(fold, spoken)
  <2>1. Dones(fold.out)
    BY <1>6 DEF Dones
  <2>2. LastDone(fold.out, 0) = 0
    BY LastDoneType
  <2>3. Chunks(fold.out) = <<>> /\ Since(fold.out) = <<>>
    BY <1>2, <1>5, <1>6, <2>2 DEF Chunks, Since
  <2>4. <<>> \o <<>> = <<>>
    BY TextNil
  <2> QED
    BY <1>2, <1>3, <2>1, <2>3, <2>4 DEF TextBook, Heard, Section
<1>8. ThoughtBook(fold, thought)
  <2>1. Shown(fold.out) = <<>>
    BY <1>2, <1>5, <1>6 DEF Shown
  <2>2. <<>> \o <<>> = <<>>
    BY TextNil
  <2> QED
    BY <1>2, <1>3, <2>1, <2>2, LettersNil DEF ThoughtBook, ThoughtShape
<1>9. ToolBook(fold)
  <2>1. DOMAIN fold.executions = {}
    BY <1>2
  <2> QED
    BY <1>2, <1>6, <2>1 DEF ToolBook, ToolFields, Seen, Once
<1>10. Attributed(fold)
  BY <1>2, <1>4, FS_EmptySet DEF Attributed
<1>11. Book(fold, spoken, thought, heard)
  BY <1>1, <1>2, <1>3, <1>7, <1>8, <1>9, <1>10, TextNil DEF Book
<1>12. Open(fold, muddled)
  BY <1>4, <1>6 DEF Open, Spoke, NoFailure
<1>13. AnswerSalvaged
  BY <1>3 DEF AnswerSalvaged
<1>14. events \in 0..MaxEvents /\ fold.iteration <= events
  BY <1>2, <1>3, FoldAssumption
<1> QED
  BY <1>3, <1>11, <1>12, <1>13, <1>14 DEF FoldInv

\* One step: the invariant, and what it credits.
LEMMA FoldNext ==
  FoldInv /\ [Next]_vars => FoldInv' /\ Credits(fold, fold', heard')
<1> SUFFICES ASSUME FoldInv, [Next]_vars PROVE FoldInv' /\ Credits(fold, fold', heard')
  OBVIOUS
<1>1. fold \in States /\ Len(fold.out) \in Nat /\ fold.iteration \in Nat /\ events \in Nat
      /\ MaxEvents \in Nat
  BY FoldAssumption DEF FoldInv, Book, States
<1>2. ASSUME NEW e \in Feed, Receive(e) PROVE FoldInv' /\ Credits(fold, fold', heard')
  <2>1. /\ pc = "folding" /\ events < MaxEvents /\ fold' = Fold(fold, e)
        /\ pc' = (IF fold'.stopped THEN "over" ELSE "folding")
        /\ events' = events + 1 /\ patience' = patience
    BY <1>2 DEF Receive, Listen
  <2>2. /\ spoken' = Spoken(spoken, e) /\ thought' = Thought(thought, e)
        /\ heard' = Hears(fold, heard, e) /\ muddled' = Muddles(fold', muddled, e)
    BY <1>2 DEF Receive, Listen, Spoken, Thought, Hears, Muddles
  <2>3. Turns(fold, fold', spoken, thought, heard, muddled, e)
    BY <2>1, FoldTurns DEF FoldInv
  <2>4. Book(fold, spoken, thought, heard)' /\ Credits(fold, fold', heard')
    BY <2>2, <2>3 DEF Turns
  <2>5. Open(fold, muddled)'
    BY <1>1, <2>1, <2>2, <2>3, FailureKept DEF Turns, FoldInv, Open
  <2>6. AnswerSalvaged'
    BY <2>1 DEF AnswerSalvaged
  <2>7. muddled' \in BOOLEAN
    BY <2>2 DEF Muddles, FoldInv
  <2>8. events' \in 0..MaxEvents /\ fold'.iteration <= events'
    <3>1. fold'.iteration \in {fold.iteration, fold.iteration + 1} /\ fold.iteration <= events
      BY <2>3 DEF Turns, FoldInv
    <3> QED
      BY <1>1, <2>1, <3>1
  <2>9. pc' \in {"folding", "over"} /\ patience' \in Patience
    BY <2>1 DEF FoldInv
  <2> QED
    BY <2>4, <2>5, <2>6, <2>7, <2>8, <2>9 DEF FoldInv
<1>3. CASE Fails \/ Closes
  <2> DEFINE m == Salvaged(fold)
  <2>1. /\ pc = "folding" /\ pc' = "over" /\ patience' = patience
        /\ events' = events /\ spoken' = spoken /\ thought' = thought /\ heard' = heard
        /\ muddled' = muddled
        /\ fold' = put(m, "failure") \/ fold' = m
    BY <1>3 DEF Fails, Closes, ghosts
  <2>0. m = Salvaged(fold)
    OBVIOUS
  <2> HIDE DEF m
  <2>2. Book(fold, spoken, thought, heard) /\ Open(fold, muddled)
    BY <2>1 DEF FoldInv
  <2>3. /\ Book(m, spoken, thought, heard) /\ Steps(fold, m) /\ Credits(fold, m, heard)
        /\ m.iteration = fold.iteration
        /\ Live(m) # {} /\ ~muddled => m.inText = <<>> /\ m.fullText = <<>> /\ ~m.inReasoning
    <3>1. Spoke(fold, muddled)
      BY <2>2 DEF Open
    <3>2. Book(fold, spoken, thought, heard)
      BY <2>2
    <3> QED
      <4>1. Salvages(fold, Salvaged(fold), spoken, thought, heard, muddled)
        BY <3>1, <3>2, SalvagedTurns
      <4> QED
        BY <2>0, <4>1 DEF Salvages
  <2>4. NoFailure(m.out) /\ m \in States /\ Len(m.out) \in Nat
    BY <1>1, <2>2, <2>3, FailureKept DEF Open, Book, States
  <2>5. CASE fold' = m
    <3>1. AnswerSalvaged'
      <4>1. \A i \in 1..(Len(m.out) - 1) : m.out[i].kind # "failure"
        BY <2>4 DEF NoFailure
      <4> QED
        BY <2>1, <2>3, <2>5, <4>1 DEF AnswerSalvaged, out
    <3>2. Book(fold, spoken, thought, heard)' /\ Credits(fold, fold', heard')
      BY <2>1, <2>3, <2>5
    <3>3. fold'.iteration <= events'
      BY <2>1, <2>3, <2>5 DEF FoldInv
    <3> QED
      BY <2>1, <3>1, <3>2, <3>3 DEF FoldInv
  <2>6. CASE fold' = put(m, "failure")
    <3> DEFINE n == put(m, "failure")
    <3>1. /\ Book(n, spoken, thought, heard) /\ n.iteration = m.iteration
          /\ Live(n) = Live(m) /\ n.inText = m.inText /\ n.fullText = m.fullText
          /\ n.inReasoning = m.inReasoning
          /\ Extends(m, n, {"failure"}) /\ Len(n.out) <= Len(m.out) + 1
      BY <2>3, FailureTurns
    <3>2. fold' = n
      BY <2>6
    <3> HIDE DEF n
    <3>3. Len(n.out) \in Nat
      BY <3>1 DEF Book, States
    <3>4. AnswerSalvaged'
      <4>1. \A i \in 1..(Len(n.out) - 1) : n.out[i].kind # "failure"
        <5> TAKE i \in 1..(Len(n.out) - 1)
        <5>1. i \in 1..Len(m.out)
          BY <2>4, <3>1, <3>3
        <5>2. n.out[i] = m.out[i]
          BY <3>1, <5>1 DEF Extends
        <5> QED
          BY <2>4, <5>1, <5>2 DEF NoFailure
      <4> QED
        BY <2>1, <2>3, <3>1, <3>2, <4>1 DEF AnswerSalvaged, out
    <3>5. Book(fold, spoken, thought, heard)'
      BY <2>1, <3>1, <3>2
    <3>6. Credits(fold, n, heard)
      <4> SUFFICES ASSUME NEW i \in (Len(fold.out) + 1)..Len(n.out),
                          n.out[i].kind = "TextChunk", n.out[i].agent # Blank
                   PROVE  \A r \in heard : Model[r] = n.out[i].agent
        BY DEF Credits
      <4>1. i <= Len(m.out)
        <5>1. CASE i > Len(m.out)
          <6>1. i \in (Len(m.out) + 1)..Len(n.out)
            BY <1>1, <2>4, <3>3, <5>1
          <6> QED
            BY <3>1, <6>1 DEF Extends
        <5> QED
          BY <1>1, <2>4, <3>3, <5>1
      <4>2. i \in (Len(fold.out) + 1)..Len(m.out) /\ i \in 1..Len(m.out)
        BY <1>1, <2>4, <3>3, <4>1
      <4>3. n.out[i] = m.out[i]
        BY <3>1, <4>2 DEF Extends
      <4> QED
        BY <2>3, <4>2, <4>3 DEF Credits
    <3>7. fold'.iteration <= events'
      BY <2>1, <2>3, <3>1, <3>2 DEF FoldInv
    <3> QED
      BY <2>1, <3>2, <3>4, <3>5, <3>6, <3>7 DEF FoldInv
  <2> QED
    BY <2>1, <2>5, <2>6
<1>4. CASE UNCHANGED vars
  <2>1. FoldInv'
    BY <1>4 DEF vars, ghosts, FoldInv, AnswerSalvaged, out
  <2>2. Credits(fold, fold', heard')
    BY <1>1, <1>4 DEF vars, ghosts, Credits
  <2> QED
    BY <2>1, <2>2
<1> QED
  BY <1>2, <1>3, <1>4 DEF Next, Finished

LEMMA FoldAlways == Spec => []FoldInv
<1>1. FoldInv /\ [Next]_vars => FoldInv'
  BY FoldNext
<1> QED
  BY <1>1, FoldInit, PTL DEF Spec

-----------------------------------------------------------------------------
(* The properties. *)

\* TypeOK: the state of the fold (blockState), and what it yields, are of their types.
THEOREM FoldTypes == Spec => []TypeOK
<1>1. FoldInv => TypeOK
  <2> SUFFICES ASSUME FoldInv PROVE TypeOK
    OBVIOUS
  <2>1. /\ fold \in States /\ heard \subseteq Responses /\ pc \in {"folding", "over"}
        /\ muddled \in BOOLEAN /\ patience \in Patience /\ ToolFields(fold)
    BY DEF FoldInv, Book, ToolBook
  <2>2. /\ fold.agent \in Models /\ fold.startedResponses \subseteq Responses
        /\ {fold.inReasoning, fold.reasoningChunked, fold.endedResponse, fold.stopped}
             \subseteq BOOLEAN
        /\ fold.out \in Seq(Block)
    BY <2>1 DEF States
  <2>3. \A t \in {fold.inText, fold.fullText, fold.reasoning, fold.reasoningText,
                  fold.summaryText} : t \in Seq(Characters)
    BY <2>1 DEF States, Text
  <2>4. fold.iteration \in 0..MaxEvents
    BY <2>1, FoldAssumption DEF FoldInv, States
  <2>5. /\ fold.liveResponses \in [DOMAIN fold.liveResponses -> Models]
        /\ DOMAIN fold.liveResponses \subseteq Responses
    BY <2>1, LiveType DEF Live
  <2>6. /\ fold.executions \in [DOMAIN fold.executions -> {"call", "result"}]
        /\ DOMAIN fold.executions \subseteq Calls
    BY <2>1, Executions
  <2> QED
    BY <2>1, <2>2, <2>3, <2>4, <2>5, <2>6 DEF TypeOK, ToolFields
<1> QED
  BY <1>1, FoldAlways, PTL

LEMMA SaidIsSlice == \A kinds, i, j : Said(kinds, i, j) = Slice(out, kinds, i, j)
BY DEF Said, Slice, Pieces

\* ChunksAreSpoken: the chunks yielded are what the text deltas said, and a finished
\* section holds what was streamed since the last one, or a message's own text (appendText,
\* flushTextChunks, closeText, foldMessage).
THEOREM ChunksSpoken == Spec => []ChunksAreSpoken
<1>1. FoldInv => ChunksAreSpoken
  <2> SUFFICES ASSUME FoldInv PROVE ChunksAreSpoken
    OBVIOUS
  <2>1. TextBook(fold, spoken)
    BY DEF FoldInv, Book
  <2>2. All({"TextChunk"}) = Chunks(out)
    BY SaidIsSlice DEF All, Chunks
  <2>3. ~fold.stopped => All({"TextChunk"}) \o fold.inText = spoken
    BY <2>1, <2>2 DEF TextBook, Heard, out
  <2>4. ASSUME NEW i \in 1..Len(out), out[i].kind = "TextDone"
        PROVE  \/ out[i].text = Said({"TextChunk"}, LastDone(out, i - 1) + 1, i - 1)
               \/ \E e \in Feed : e.kind = "message" /\ e.text = out[i].text
    <3>1. Dones(out)
      BY <2>1 DEF TextBook, Heard, out
    <3>2. Said({"TextChunk"}, LastDone(out, i - 1) + 1, i - 1)
            = Slice(out, {"TextChunk"}, LastDone(out, i - 1) + 1, i - 1)
      BY SaidIsSlice
    <3> QED
      BY <2>4, <3>1, <3>2 DEF Dones, Message
  <2> QED
    BY <2>3, <2>4 DEF ChunksAreSpoken, LastDone, DonesTo
<1> QED
  BY <1>1, FoldAlways, PTL

\* ThoughtsAreShown: every letter of the reasoning deltas is drawn once, as a line or with
\* its section (appendReasoning, closeReasoning).
THEOREM ThoughtsShown == Spec => []ThoughtsAreShown
<1>1. FoldInv => ThoughtsAreShown
  <2> SUFFICES ASSUME FoldInv PROVE ThoughtsAreShown
    OBVIOUS
  <2>1. ThoughtBook(fold, thought)
    BY DEF FoldInv, Book
  <2>2. All(Thoughts) = Shown(out)
    BY SaidIsSlice DEF All, Shown
  <2> QED
    BY <2>1, <2>2 DEF ThoughtBook, ThoughtsAreShown, Thoughts, out
<1> QED
  BY <1>1, FoldAlways, PTL

\* ToolsOnce: a call is one block and its result another, and the result of a call seen
\* first carries what the call said (foldToolCall, foldToolResult).
THEOREM ToolsYieldedOnce == Spec => []ToolsOnce
<1>1. FoldInv => ToolsOnce
  BY DEF FoldInv, Book, ToolBook, Once, ToolsOnce, out
<1> QED
  BY <1>1, FoldAlways, PTL

\* AnswerSalvaged: a sequence that breaks or closes while a response speaks has handed over
\* everything it said, and an error is the last block (Blocks).
THEOREM AnswerIsSalvaged == Spec => []AnswerSalvaged
<1>1. FoldInv => AnswerSalvaged
  BY DEF FoldInv
<1> QED
  BY <1>1, FoldAlways, PTL

\* CreditIsCertain: text is credited to an agent only when every response heard in its
\* section runs that agent (recomputeAttribution, startResponse, endResponse).
THEOREM CreditCertain == Spec => CreditIsCertain
<1>1. FoldInv /\ [Next]_vars => Credits(fold, fold', heard')
  BY FoldNext
<1>2. Credits(fold, fold', heard') =>
        \A i \in (Len(out) + 1)..Len(out') :
          out'[i].kind = "TextChunk" /\ out'[i].agent # Blank =>
            \A r \in heard' : Model[r] = out'[i].agent
  BY DEF Credits, out
<1> QED
  BY <1>1, <1>2, FoldAlways, PTL DEF Spec, CreditIsCertain

\* A query is a fold with its transforms, so all of this holds of the blocks it reads.
THEOREM QueryFolds == QuerySpec => Spec
<1>1. QueryInit => Init
  BY DEF QueryInit
<1>2. [QueryNext]_allvars => [Next]_vars
  BY DEF QueryNext, QueryReceives, QueryFails, QueryEnds, allvars, Next
<1> QED
  BY <1>1, <1>2, PTL DEF QuerySpec, Spec

-----------------------------------------------------------------------------
(* The query: what the transforms and the builder hold of the blocks so far. *)

QueryStates ==
  [held : Seq(Block), accumulated : Text, ctx : Block, passed : Seq(Block), answer : Text,
   text : Text, files : Nat, err : BOOLEAN, ended : BOOLEAN]

Answer(o)  == Slice(o, {"TextDone"}, 1, Len(o))
FilesOf(o) == {i \in 1..Len(o) : o[i].kind = "file"}
Broken(o)  == \E i \in 1..Len(o) : o[i].kind = "failure"

\* Nothing that was passed on is a text or an end: those are still held back.
Held(qu) ==
  /\ qu.answer = <<>> /\ ~qu.ended
  /\ Len(qu.held) <= 1 /\ \A i \in 1..Len(qu.held) : qu.held[i].kind = "ResponseEnd"
  /\ \A i \in 1..Len(qu.passed) : qu.passed[i].kind \notin {"TextDone", "ResponseEnd"}

\* The answer so far is accumulated, the files are counted and an error was seen.
Accounted(qu, o) ==
  /\ qu.accumulated = Answer(o)
  /\ qu.files = Cardinality(FilesOf(o))
  /\ qu.err <=> Broken(o)

Gathers(qu, o) == qu \in QueryStates /\ Held(qu) /\ Accounted(qu, o)

\* What the two transforms and the builder make of a block.
LEMMA SkipIs ==
  ASSUME NEW qu \in QueryStates, NEW b \in Block
  PROVE  /\ b.kind = "ResponseEnd" => SkipEnds(qu, b) = [qu EXCEPT !.held = <<b>>]
         /\ b.kind = "failure" =>
              SkipEnds(qu, b) = [qu EXCEPT !.passed = Append(@, b), !.err = TRUE]
         /\ b.kind = "TextDone" =>
              SkipEnds(qu, b)
                = [qu EXCEPT !.held = <<>>, !.accumulated = @ \o b.text, !.ctx = b]
         /\ b.kind = "file" =>
              SkipEnds(qu, b)
                = [qu EXCEPT !.held = <<>>, !.passed = Append(@, b), !.files = @ + 1]
         /\ b.kind \notin {"ResponseEnd", "failure", "TextDone", "file"} =>
              SkipEnds(qu, b) = [qu EXCEPT !.held = <<>>, !.passed = Append(@, b)]
<1>1. CASE b.kind = "ResponseEnd"
  BY <1>1 DEF SkipEnds
<1>2. CASE b.kind = "failure"
  BY <1>2 DEF SkipEnds, MergeText, Take, QueryStates
<1>3. CASE b.kind = "TextDone"
  BY <1>3 DEF SkipEnds, MergeText, QueryStates
<1>4. CASE b.kind = "file"
  BY <1>4 DEF SkipEnds, MergeText, Take, QueryStates
<1>5. CASE b.kind \notin {"ResponseEnd", "failure", "TextDone", "file"}
  BY <1>5 DEF SkipEnds, MergeText, Take, QueryStates
<1> QED
  BY <1>1, <1>2, <1>3, <1>4, <1>5

\* n is qu with that done.
Skipped(qu, n, b) ==
  /\ n \in QueryStates /\ n.answer = qu.answer /\ n.ended = qu.ended
  /\ b.kind = "ResponseEnd" =>
       /\ n.held = <<b>> /\ n.accumulated = qu.accumulated /\ n.ctx = qu.ctx
       /\ n.passed = qu.passed /\ n.files = qu.files /\ n.err = qu.err
  /\ b.kind = "failure" =>
       /\ n.held = qu.held /\ n.accumulated = qu.accumulated /\ n.ctx = qu.ctx
       /\ n.passed = Append(qu.passed, b) /\ n.files = qu.files /\ n.err = TRUE
  /\ b.kind = "TextDone" =>
       /\ n.held = <<>> /\ n.accumulated = qu.accumulated \o b.text /\ n.ctx = b
       /\ n.passed = qu.passed /\ n.files = qu.files /\ n.err = qu.err
  /\ b.kind = "file" =>
       /\ n.held = <<>> /\ n.accumulated = qu.accumulated /\ n.ctx = qu.ctx
       /\ n.passed = Append(qu.passed, b) /\ n.files = qu.files + 1 /\ n.err = qu.err
  /\ b.kind \notin {"ResponseEnd", "failure", "TextDone", "file"} =>
       /\ n.held = <<>> /\ n.accumulated = qu.accumulated /\ n.ctx = qu.ctx
       /\ n.passed = Append(qu.passed, b) /\ n.files = qu.files /\ n.err = qu.err

LEMMA SkipFields ==
  ASSUME NEW qu \in QueryStates, NEW b \in Block
  PROVE  Skipped(qu, SkipEnds(qu, b), b)
<1> DEFINE n == SkipEnds(qu, b)
           p == Append(qu.passed, b)
<1>1. /\ qu.passed \in Seq(Block) /\ b.text \in Text /\ qu.accumulated \in Text
      /\ qu.files \in Nat
  BY DEF QueryStates, Block, Text
<1>3. p \in Seq(Block) /\ <<b>> \in Seq(Block) /\ <<>> \in Seq(Block)
  BY <1>1
<1>4. qu.accumulated \o b.text \in Text
  BY <1>1, TextJoin
<1>6. /\ b.kind = "ResponseEnd" => n = [qu EXCEPT !.held = <<b>>]
      /\ b.kind = "failure" => n = [qu EXCEPT !.passed = p, !.err = TRUE]
      /\ b.kind = "TextDone" =>
           n = [qu EXCEPT !.held = <<>>, !.accumulated = qu.accumulated \o b.text, !.ctx = b]
      /\ b.kind = "file" =>
           n = [qu EXCEPT !.held = <<>>, !.passed = p, !.files = qu.files + 1]
      /\ b.kind \notin {"ResponseEnd", "failure", "TextDone", "file"} =>
           n = [qu EXCEPT !.held = <<>>, !.passed = p]
  <2> HIDE DEF n
  <2> QED
    BY <1>1, SkipIs DEF n
<1> HIDE DEF n, p
<1> DEFINE none == <<>>
           one  == <<b>>
           said == qu.accumulated \o b.text
<1>7. none \in Seq(Block) /\ one \in Seq(Block) /\ said \in Text 
  BY <1>3, <1>4
<1>8. n = [held |-> n.held, accumulated |-> n.accumulated, ctx |-> n.ctx, passed |-> n.passed,
           answer |-> qu.answer, text |-> qu.text, files |-> n.files, err |-> n.err,
           ended |-> qu.ended]
  BY <1>1, <1>6 DEF QueryStates
<1>9. b.kind = "ResponseEnd" =>
        /\ n.held = one /\ n.accumulated = qu.accumulated /\ n.ctx = qu.ctx
        /\ n.passed = qu.passed /\ n.files = qu.files /\ n.err = qu.err
  BY <1>1, <1>6 DEF QueryStates
<1>10. b.kind = "failure" =>
        /\ n.held = qu.held /\ n.accumulated = qu.accumulated /\ n.ctx = qu.ctx
        /\ n.passed = p /\ n.files = qu.files /\ n.err = TRUE
  BY <1>1, <1>6 DEF QueryStates
<1>11. b.kind = "TextDone" =>
        /\ n.held = none /\ n.accumulated = said /\ n.ctx = b
        /\ n.passed = qu.passed /\ n.files = qu.files /\ n.err = qu.err
  BY <1>1, <1>6 DEF QueryStates
<1>12. b.kind = "file" =>
        /\ n.held = none /\ n.accumulated = qu.accumulated /\ n.ctx = qu.ctx
        /\ n.passed = p /\ n.files = qu.files + 1 /\ n.err = qu.err
  BY <1>1, <1>6 DEF QueryStates
<1>13. b.kind \notin {"ResponseEnd", "failure", "TextDone", "file"} =>
        /\ n.held = none /\ n.accumulated = qu.accumulated /\ n.ctx = qu.ctx
        /\ n.passed = p /\ n.files = qu.files /\ n.err = qu.err
  BY <1>1, <1>6 DEF QueryStates
<1> HIDE DEF none, one, said
<1>14. n \in QueryStates
  <2>0. /\ qu.held \in Seq(Block) /\ qu.ctx \in Block /\ qu.err \in BOOLEAN
        /\ qu.files + 1 \in Nat
    BY <1>1 DEF QueryStates
  <2>1. n.held \in Seq(Block) /\ n.passed \in Seq(Block) /\ n.ctx \in Block
    BY <1>1, <1>3, <1>7, <1>9, <1>10, <1>11, <1>12, <1>13, <2>0
  <2>3. n.accumulated \in Text /\ n.err \in BOOLEAN
    BY <1>1, <1>7, <1>9, <1>10, <1>11, <1>12, <1>13, <2>0
  <2>4. n.files \in Nat
    BY <1>1, <1>9, <1>10, <1>11, <1>12, <1>13, <2>0
  <2>2. qu.answer \in Text /\ qu.text \in Text /\ qu.ended \in BOOLEAN
    BY <1>1 DEF QueryStates
  <2> QED
    BY <1>8, <2>1, <2>2, <2>3, <2>4 DEF QueryStates
<1>15. n.answer = qu.answer /\ n.ended = qu.ended
  BY <1>8
<1>16. Skipped(qu, n, b)
  BY <1>9, <1>10, <1>11, <1>12, <1>13, <1>14, <1>15, Zenon DEF Skipped, none, one, said, p
<1> QED
  BY <1>16 DEF n

LEMMA AnswerAppend ==
  ASSUME NEW o \in Seq(Block), NEW b \in Block
  PROVE  /\ Answer(o) \in Text
         /\ Answer(Append(o, b)) = IF b.kind = "TextDone" THEN Answer(o) \o b.text ELSE Answer(o)
<1>1. Len(o) \in Nat /\ Len(Append(o, b)) = Len(o) + 1 /\ 1 \in 1..(Len(o) + 1)
      /\ Len(o) \in (1 - 1)..Len(o)
  OBVIOUS
<1>2. Answer(o) \in Text
  BY <1>1, PiecesType DEF Answer
<1>3. Answer(Append(o, b)) = Answer(o) \o Piece(b, {"TextDone"})
  BY <1>1, SliceAppend DEF Answer
<1>4. Answer(o) \o <<>> = Answer(o)
  BY <1>2, TextNil
<1> QED
  BY <1>2, <1>3, <1>4 DEF Piece

LEMMA FilesAppend ==
  ASSUME NEW o \in Seq(Block), NEW b \in Block
  PROVE  /\ Cardinality(FilesOf(o)) \in Nat
         /\ Cardinality(FilesOf(Append(o, b)))
              = Cardinality(FilesOf(o)) + IF b.kind = "file" THEN 1 ELSE 0
<1> DEFINE n == Len(o)
           m == Append(o, b)
<1>1. n \in Nat /\ Len(m) = n + 1 /\ m[n + 1] = b /\ \A i \in 1..n : m[i] = o[i]
  OBVIOUS
<1>2. IsFiniteSet(FilesOf(o)) /\ n + 1 \notin FilesOf(o)
  <2>1. IsFiniteSet(1..n) /\ FilesOf(o) \subseteq 1..n
    BY <1>1, FS_Interval DEF FilesOf
  <2> QED
    BY <1>1, <2>1, FS_Subset
<1>3. FilesOf(m) = IF b.kind = "file" THEN FilesOf(o) \union {n + 1} ELSE FilesOf(o)
  <2> HIDE DEF m
  <2>1. 1..Len(m) = 1..n \union {n + 1}
    BY <1>1
  <2> HIDE DEF n
  <2> QED
    BY <1>1, <2>1 DEF FilesOf, n
<1>4. Cardinality(FilesOf(o)) \in Nat
  BY <1>2, FS_CardinalityType
<1>5. Cardinality(FilesOf(o) \union {n + 1}) = Cardinality(FilesOf(o)) + 1
  BY <1>2, FS_AddElement
<1> HIDE DEF m, n
<1> QED
  BY <1>3, <1>4, <1>5 DEF m

LEMMA BrokenAppend ==
  ASSUME NEW o \in Seq(Block), NEW b \in Block
  PROVE  Broken(Append(o, b)) <=> Broken(o) \/ b.kind = "failure"
<1> DEFINE n == Len(o)
           m == Append(o, b)
<1>1. n \in Nat /\ Len(m) = n + 1 /\ m[n + 1] = b /\ \A i \in 1..n : m[i] = o[i]
  OBVIOUS
<1> HIDE DEF m
<1>2. 1..Len(m) = 1..n \union {n + 1}
  BY <1>1
<1> QED
  BY <1>1, <1>2 DEF Broken, m

\* One block more.
LEMMA SkipGathers ==
  ASSUME NEW qu, NEW o \in Seq(Block), NEW b \in Block, Gathers(qu, o)
  PROVE  Gathers(SkipEnds(qu, b), Append(o, b))
<1> DEFINE n == SkipEnds(qu, b)
           m == Append(o, b)
           p == Append(qu.passed, b)
<1>1. /\ qu \in QueryStates /\ Held(qu) /\ Accounted(qu, o) /\ qu.passed \in Seq(Block)
      /\ b.text \in Text /\ qu.accumulated \in Text /\ qu.files \in Nat
  BY DEF Gathers, QueryStates, Block, Text
<1>2. /\ Answer(m) = IF b.kind = "TextDone" THEN Answer(o) \o b.text ELSE Answer(o)
      /\ Cardinality(FilesOf(m)) = Cardinality(FilesOf(o)) + IF b.kind = "file" THEN 1 ELSE 0
      /\ Cardinality(FilesOf(o)) \in Nat
      /\ Broken(m) <=> Broken(o) \/ b.kind = "failure"
  BY AnswerAppend, FilesAppend, BrokenAppend
<1>5. b.kind \notin {"TextDone", "ResponseEnd"} =>
        \A i \in 1..Len(p) : p[i].kind \notin {"TextDone", "ResponseEnd"}
  BY <1>1 DEF Held
<1>6. Skipped(qu, n, b)
  BY <1>1, SkipFields
<1> HIDE DEF n, m
<1>15. Held(n)
  <2>1. CASE b.kind = "ResponseEnd"
    <3>1. n.held = <<b>> /\ n.passed = qu.passed
      BY <1>6, <2>1 DEF Skipped
    <3>2. Len(<<b>>) = 1 /\ <<b>>[1] = b
      OBVIOUS
    <3>3. Len(n.held) = 1 /\ n.held[1].kind = "ResponseEnd"
      BY <2>1, <3>1, <3>2
    <3>4. Len(n.held) <= 1 /\ \A i \in 1..Len(n.held) : n.held[i].kind = "ResponseEnd"
      <4>1. \A i \in 1..Len(n.held) : i = 1
        BY <3>3
      <4>2. \A i \in 1..Len(n.held) : n.held[i].kind = "ResponseEnd"
        BY <3>3, <4>1, Zenon
      <4> QED
        BY <3>3, <4>2
    <3> QED
      BY <1>1, <1>6, <3>1, <3>4 DEF Held, Skipped
  <2>2. CASE b.kind = "failure"
    BY <1>1, <1>5, <1>6, <2>2 DEF Held, Skipped, p
  <2>3. CASE b.kind \notin {"ResponseEnd", "failure"}
    <3>1. n.held = <<>> /\ (n.passed = qu.passed \/ (b.kind # "TextDone" /\ n.passed = p))
      BY <1>6, <2>3 DEF Skipped, p
    <3>2. Len(n.held) = 0
      BY <3>1
    <3>3. \A i \in 1..Len(n.passed) : n.passed[i].kind \notin {"TextDone", "ResponseEnd"}
      BY <1>1, <1>5, <2>3, <3>1 DEF Held
    <3> QED
      BY <1>1, <1>6, <3>2, <3>3 DEF Held, Skipped
  <2> QED
    BY <2>1, <2>2, <2>3
<1>16. Accounted(n, m)
  <2>1. n.accumulated = Answer(m)
    BY <1>1, <1>2, <1>6 DEF Accounted, Skipped
  <2>2. n.files = Cardinality(FilesOf(m))
    BY <1>1, <1>2, <1>6 DEF Accounted, Skipped
  <2>3. n.err <=> Broken(m)
    BY <1>1, <1>2, <1>6 DEF Accounted, Skipped
  <2> QED
    BY <2>1, <2>2, <2>3 DEF Accounted
<1> QED
  BY <1>6, <1>15, <1>16 DEF Gathers, Skipped, n, m

\* Every block of a step, one after the other.
LEMMA SkipAll ==
  ASSUME NEW qu, NEW o \in Seq(Block), NEW fresh \in Seq(Block), Gathers(qu, o)
  PROVE  Gathers(FoldLeft(SkipEnds, qu, fresh), o \o fresh)
<1> DEFINE n    == Len(fresh)
           step == [p \in QueryStates \X (1..n) |-> SkipEnds(p[1], fresh[p[2]])]
           Eq(g) == g = [S \in SUBSET DOMAIN fresh |->
                           IF S = {} THEN qu ELSE SkipEnds(g[S \ {Max(S)}], fresh[Max(S)])]
           f    == CHOOSE g : Eq(g)
           T    == {k \in 0..n : Gathers(f[1..k], o \o SubSeq(fresh, 1, k))}
<1>1. n \in Nat /\ DOMAIN fresh = 1..n /\ qu \in QueryStates
  BY DEF Gathers
<1>2. step \in [QueryStates \X (1..n) -> QueryStates]
  <2>1. ASSUME NEW p \in QueryStates \X (1..n) PROVE SkipEnds(p[1], fresh[p[2]]) \in QueryStates
    <3>1. p[1] \in QueryStates /\ fresh[p[2]] \in Block
      BY <1>1
    <3>2. Skipped(p[1], SkipEnds(p[1], fresh[p[2]]), fresh[p[2]])
      BY <3>1, SkipFields
    <3> QED
      BY <3>2 DEF Skipped
  <2> QED
    BY <2>1
<1>3. FoldLeft(SkipEnds, qu, fresh) = f[DOMAIN fresh]
  BY DEF FoldLeft, MapThenFoldSet
<1>4. PICK g : IsFoldMap(g, n, QueryStates, qu, step)
  <2> HIDE DEF step, n
  <2> QED
    BY <1>1, <1>2, FoldMap
<1>5. Eq(g)
  <2>1. g \in [SUBSET (1..n) -> QueryStates]
    BY <1>4 DEF IsFoldMap
  <2>2. ASSUME NEW S \in SUBSET (1..n)
        PROVE  g[S] = IF S = {} THEN qu ELSE SkipEnds(g[S \ {Max(S)}], fresh[Max(S)])
    <3>1. g[S] = IF S = {} THEN qu ELSE step[<<g[S \ {Max(S)}], Max(S)>>]
      BY <1>4 DEF IsFoldMap
    <3>2. CASE S = {}
      BY <3>1, <3>2
    <3>3. CASE S # {}
      <4>1. S \in SUBSET (0..n)
        BY <1>1
      <4>2. Max(S) \in S
        BY <1>1, <3>3, <4>1, LastExists
      <4>3. Max(S) \in 1..n /\ g[S \ {Max(S)}] \in QueryStates
        BY <2>1, <4>2
      <4> DEFINE i == Max(S)
                 m == g[S \ {Max(S)}]
      <4>4. step[<<m, i>>] = SkipEnds(m, fresh[i])
        <5> HIDE DEF i, m
        <5>1. i \in 1..n /\ m \in QueryStates
          BY <4>3 DEF i, m
        <5> QED
          BY <5>1
      <4> QED
        BY <3>1, <3>3, <4>4
    <3> QED
      BY <3>2, <3>3
  <2> HIDE DEF n
  <2> QED
    BY <1>1, <2>1, <2>2
<1>6. Eq(f)
  BY <1>5, Zenon
<1> HIDE DEF f, n, step
<1>7. 0 \in T
  <2>1. f[{}] = qu /\ 1..0 = {}
    BY <1>6
  <2>2. SubSeq(fresh, 1, 0) = <<>> /\ o \o <<>> = o
    BY <1>1
  <2>3. Gathers(f[1..0], o \o SubSeq(fresh, 1, 0))
    BY <2>1, <2>2, Zenon
  <2>4. 0 \in 0..n
    BY <1>1
  <2> QED
    BY <2>3, <2>4
<1>8. ASSUME NEW k \in 0..(n - 1), k \in T PROVE k + 1 \in T
  <2> DEFINE S == 1..(k + 1)
             d == SubSeq(fresh, 1, k)
             b == fresh[k + 1]
  <2>1. S \in SUBSET (1..n) /\ S # {} /\ S \in SUBSET (0..n)
    <3>1. k \in Nat /\ k + 1 \in 1..n
      BY <1>1
    <3>2. \A i \in 1..(k + 1) : i \in 1..n /\ i \in 0..n
      BY <1>1
    <3>3. k + 1 \in 1..(k + 1)
      BY <3>1
    <3> QED
      BY <3>2, <3>3
  <2>2. Max(S) = k + 1
    <3>1. k + 1 \in S /\ \A y \in S : y <= k + 1
      BY <1>1
    <3> HIDE DEF S
    <3> QED
      BY <1>1, <2>1, <3>1, LastIs
  <2>3. S \ {k + 1} = 1..k
    BY <1>1
  <2>4. f[S] = SkipEnds(f[S \ {Max(S)}], fresh[Max(S)])
    <3> HIDE DEF S
    <3> QED
      BY <1>1, <1>6, <2>1
  <2>5. f[S] = SkipEnds(f[1..k], b)
    BY <2>2, <2>3, <2>4
  <2>6. b \in Block /\ d \in Seq(Block) /\ SubSeq(fresh, 1, k + 1) = Append(d, b)
    BY <1>1 DEF n
  <2>7. Gathers(f[1..k], o \o d)
    BY <1>8
  <2> HIDE DEF d, b
  <2>8. o \o d \in Seq(Block) /\ Append(o \o d, b) = o \o Append(d, b)
    <3> DEFINE x == <<b>>
    <3>1. x \in Seq(Block) /\ o \o d \in Seq(Block)
      BY <2>6
    <3>2. Append(o \o d, b) = (o \o d) \o x /\ Append(d, b) = d \o x
      BY <2>6, <3>1, AppendIsConcat
    <3> HIDE DEF x
    <3>3. (o \o d) \o x = o \o (d \o x)
      BY <2>6, <3>1, ConcatAssociative
    <3> QED
      BY <3>1, <3>2, <3>3
  <2>9. Gathers(f[S], Append(o \o d, b))
    BY <2>5, <2>6, <2>7, <2>8, SkipGathers
  <2>10. Gathers(f[1..(k + 1)], o \o SubSeq(fresh, 1, k + 1))
    BY <2>6, <2>8, <2>9, Zenon
  <2>11. k + 1 \in 0..n
    BY <1>1
  <2> QED
    BY <2>10, <2>11
<1> HIDE DEF T
<1>9. 0..n \subseteq T
  BY <1>1, <1>7, <1>8, PrefixInduction
<1>10. Gathers(f[1..n], o \o SubSeq(fresh, 1, n))
  <2>1. n \in T
    BY <1>1, <1>9
  <2> QED
    BY <2>1 DEF T
<1>11. SubSeq(fresh, 1, n) = fresh
  BY <1>1, SubSeqFull DEF n
<1> QED
  BY <1>1, <1>3, <1>10, <1>11

\* The texts that came out of the transforms, and the ends.
TextsOf(p) == {i \in 1..Len(p) : p[i].kind = "TextDone"}
EndsOf(p)  == {i \in 1..Len(p) : p[i].kind = "ResponseEnd"}

\* What a query that came to its end has told of o.
Answered(qu, o) ==
  /\ qu \in QueryStates /\ qu.ended /\ qu.held = <<>>
  /\ qu.files = Cardinality(FilesOf(o)) /\ (qu.err <=> Broken(o))
  /\ qu.text = Answer(o)
  /\ \A i \in EndsOf(qu.passed) : i = Len(qu.passed)
  /\ Answer(o) # <<>> => Cardinality(TextsOf(qu.passed)) = 1

\* What was accumulated becomes the answer, in one block.
Flushed(qu, n) ==
  /\ n \in QueryStates /\ n.accumulated = <<>> /\ n.answer = qu.accumulated
  /\ n.held = qu.held /\ n.files = qu.files /\ n.err = qu.err
  /\ IF qu.accumulated = <<>> THEN n.passed = qu.passed
     ELSE \E b \in Block : b.kind = "TextDone" /\ n.passed = Append(qu.passed, b)

LEMMA FlushIs ==
  ASSUME NEW qu \in QueryStates, NEW at \in Block, qu.answer = <<>>
  PROVE  Flushed(qu, flush(qu, at))
<1> DEFINE said == qu.accumulated
           b == [at EXCEPT !.kind = "TextDone", !.text = said, !.of = Blank]
           none == <<>>
           p == Append(qu.passed, b)
           n == [qu EXCEPT !.accumulated = none, !.passed = p, !.answer = said]
<1>1. qu.passed \in Seq(Block) /\ said \in Text /\ none \in Text /\ none \o said = said
  BY TextNil DEF QueryStates
<1>2. b \in Block /\ b.kind = "TextDone" /\ b.text = said
  <2>1. "TextDone" \in Kinds /\ Blank \in Responses \union Calls \union {Blank}
    BY DEF Kinds
  <2> HIDE DEF said
  <2> QED
    BY <1>1, <2>1 DEF Block, Text
<1>3. CASE qu.accumulated = <<>>
  <2>1. flush(qu, at) = qu
    BY <1>3 DEF flush
  <2> QED
    BY <1>3, <2>1 DEF Flushed
<1>4. CASE qu.accumulated # <<>>
  <2>1. flush(qu, at) = Take([qu EXCEPT !.accumulated = <<>>], b)
    BY <1>4 DEF flush
  <2>2. p \in Seq(Block)
    BY <1>1, <1>2
  <2>3. flush(qu, at) = n
    <3> HIDE DEF b
    <3> DEFINE r == [qu EXCEPT !.accumulated = <<>>]
    <3>1. r.passed = qu.passed /\ r.answer = none
      BY DEF QueryStates
    <3>2. Take(r, b) = [[r EXCEPT !.passed = Append(@, b)] EXCEPT !.answer = @ \o b.text]
      BY <1>2 DEF Take
    <3>3. Take(r, b) = [r EXCEPT !.passed = p, !.answer = said]
      BY <1>1, <1>2, <3>1, <3>2 DEF QueryStates
    <3> QED
      BY <2>1, <3>3
  <2> HIDE DEF b, p, said, none
  <2>4. /\ n.accumulated = none /\ n.answer = said /\ n.passed = p /\ n.held = qu.held
        /\ n.files = qu.files /\ n.err = qu.err
    BY DEF QueryStates
  <2>5. n \in QueryStates
    BY <1>1, <2>2 DEF QueryStates
  <2> HIDE DEF n
  <2> QED
    BY <1>2, <1>4, <2>3, <2>4, <2>5, Zenon DEF Flushed, p, said, none
<1> QED
  BY <1>3, <1>4

LEMMA PassedAppend ==
  ASSUME NEW p \in Seq(Block), NEW b \in Block
  PROVE  /\ Append(p, b) \in Seq(Block) /\ Len(Append(p, b)) = Len(p) + 1 /\ Len(p) \in Nat
         /\ TextsOf(Append(p, b))
              = IF b.kind = "TextDone" THEN TextsOf(p) \union {Len(p) + 1} ELSE TextsOf(p)
         /\ EndsOf(Append(p, b))
              = IF b.kind = "ResponseEnd" THEN EndsOf(p) \union {Len(p) + 1} ELSE EndsOf(p)
<1> DEFINE n == Len(p)
           m == Append(p, b)
<1>1. n \in Nat /\ m \in Seq(Block) /\ Len(m) = n + 1 /\ m[n + 1] = b /\ \A i \in 1..n : m[i] = p[i]
  OBVIOUS
<1> HIDE DEF m
<1>2. 1..Len(m) = 1..n \union {n + 1}
  BY <1>1
<1> HIDE DEF n
<1>3. TextsOf(m) = IF b.kind = "TextDone" THEN TextsOf(p) \union {n + 1} ELSE TextsOf(p)
  BY <1>1, <1>2 DEF TextsOf, n
<1>4. EndsOf(m) = IF b.kind = "ResponseEnd" THEN EndsOf(p) \union {n + 1} ELSE EndsOf(p)
  BY <1>1, <1>2 DEF EndsOf, n
<1> QED
  BY <1>1, <1>3, <1>4 DEF n, m

\* The blocks come to their end.
LEMMA EndAnswers ==
  ASSUME NEW qu, NEW o \in Seq(Block), Gathers(qu, o)
  PROVE  Answered(SequenceEnds(qu), o)
<1> DEFINE OneText(p) == /\ \A i \in EndsOf(p) : i = Len(p)
                         /\ Answer(o) # <<>> => Cardinality(TextsOf(p)) = 1
           Gone(f) == /\ f \in QueryStates /\ f.accumulated = <<>> /\ f.answer = Answer(o)
                      /\ f.files = Cardinality(FilesOf(o)) /\ (f.err <=> Broken(o))
                      /\ OneText(f.passed)
<1>1. qu \in QueryStates /\ qu.answer = <<>> /\ qu.ctx \in Block /\ qu.passed \in Seq(Block)
      /\ Held(qu) /\ Accounted(qu, o)
  BY DEF Gathers, Held, QueryStates
<1>2. TextsOf(qu.passed) = {} /\ EndsOf(qu.passed) = {}
  BY <1>1 DEF Held, TextsOf, EndsOf
<1>3. ASSUME NEW f, Flushed(qu, f)
      PROVE  Gone(f) /\ EndsOf(f.passed) = {}
  <2>1. CASE qu.accumulated = <<>>
    <3>1. f.passed = qu.passed /\ Answer(o) = <<>>
      BY <1>1, <1>3, <2>1 DEF Flushed, Accounted
    <3> QED
      BY <1>1, <1>2, <1>3, <3>1 DEF Flushed, Accounted
  <2>2. CASE qu.accumulated # <<>>
    <3>1. PICK b \in Block : b.kind = "TextDone" /\ f.passed = Append(qu.passed, b)
      BY <1>3, <2>2 DEF Flushed
    <3>2. TextsOf(f.passed) = {Len(qu.passed) + 1} /\ EndsOf(f.passed) = {}
      BY <1>1, <1>2, <3>1, PassedAppend
    <3>3. Cardinality({Len(qu.passed) + 1}) = 1
      BY FS_Singleton
    <3>4. OneText(f.passed)
      BY <3>2, <3>3
    <3> HIDE DEF OneText
    <3> QED
      BY <1>1, <1>3, <3>2, <3>4 DEF Flushed, Accounted
  <2> QED
    BY <2>1, <2>2
<1> DEFINE Left(g) == [g EXCEPT !.held = <<>>, !.text = g.answer, !.ended = TRUE]
<1>4. ASSUME NEW g, Gone(g) PROVE Answered(Left(g), o)
  <2> DEFINE none == <<>>
             said == g.answer
             n    == [g EXCEPT !.held = none, !.text = said, !.ended = TRUE]
  <2>1. none \in Seq(Block) /\ said \in Text /\ g \in QueryStates
    BY <1>4 DEF QueryStates
  <2>2. /\ n.passed = g.passed /\ n.files = g.files /\ n.err = g.err /\ n.text = said
        /\ n.ended = TRUE /\ n.held = none
    BY <2>1 DEF QueryStates
  <2>3. n = Left(g)
    OBVIOUS
  <2> HIDE DEF none, said
  <2>4. n \in QueryStates
    BY <2>1 DEF QueryStates
  <2> HIDE DEF n, Left
  <2>5. Answered(n, o)
    BY <1>4, <2>2, <2>4 DEF Answered, said, none
  <2> QED
    BY <2>3, <2>5
<1>5. ASSUME NEW g, Gone(g), NEW at PROVE flush(g, at) = g
  BY <1>5 DEF flush
<1>6. CASE qu.held = <<>>
  <2> DEFINE f == flush(qu, qu.ctx)
  <2>1. SequenceEnds(qu) = Left(f)
    BY <1>6 DEF SequenceEnds
  <2>2. Flushed(qu, f)
    BY <1>1, FlushIs
  <2> HIDE DEF f, Left, Gone
  <2>3. Gone(f)
    BY <1>3, <2>2
  <2> QED
    BY <1>4, <2>1, <2>3
<1>7. CASE qu.held # <<>>
  <2> DEFINE h == Head(qu.held)
             f == flush(qu, h)
             p == Append(f.passed, h)
             g == [f EXCEPT !.passed = p]
  <2>1. h \in Block /\ h.kind = "ResponseEnd"
    <3>1. qu.held \in Seq(Block) /\ Len(qu.held) \in Nat
      BY <1>1 DEF QueryStates
    <3>2. 1 \in 1..Len(qu.held) /\ h = qu.held[1]
      BY <1>7, <3>1
    <3> QED
      BY <1>1, <3>1, <3>2 DEF Held
  <2>2. MergeText(qu, h) = g
    BY <2>1 DEF MergeText, Take
  <2> HIDE DEF h, f, p
  <2>3. Flushed(qu, f)
    BY <1>1, <2>1, FlushIs DEF f
  <2>4. Gone(f) /\ EndsOf(f.passed) = {}
    BY <1>3, <2>3
  <2>5. f.passed \in Seq(Block)
    BY <2>4 DEF QueryStates
  <2>6. p \in Seq(Block) /\ OneText(p)
    <3>1. /\ p \in Seq(Block) /\ Len(p) = Len(f.passed) + 1 /\ TextsOf(p) = TextsOf(f.passed)
          /\ EndsOf(p) = EndsOf(f.passed) \union {Len(f.passed) + 1}
      BY <2>1, <2>5, PassedAppend DEF p
    <3> QED
      BY <2>4, <3>1
  <2>7. Gone(g)
    <3>1. /\ g.accumulated = f.accumulated /\ g.answer = f.answer /\ g.files = f.files
          /\ g.err = f.err /\ g.passed = p /\ g \in QueryStates
      BY <2>4, <2>6 DEF QueryStates
    <3> HIDE DEF g, OneText
    <3> QED
      BY <2>4, <2>6, <3>1
  <2> HIDE DEF g, Gone
  <2>8. flush(g, g.ctx) = g
    BY <1>5, <2>7
  <2>9. SequenceEnds(qu) = Left(g)
    BY <1>7, <2>2, <2>8 DEF SequenceEnds, h
  <2> HIDE DEF Left
  <2> QED
    BY <1>4, <2>7, <2>9
<1> QED
  BY <1>6, <1>7

-----------------------------------------------------------------------------
(* The steps of a query. *)

\* m has the blocks of s, and perhaps more.
Longer(s, m) ==
  /\ s.out \in Seq(Block) /\ m.out \in Seq(Block)
  /\ Len(s.out) <= Len(m.out) /\ \A i \in 1..Len(s.out) : m.out[i] = s.out[i]

LEMMA LongerTrans ==
  ASSUME NEW s, NEW m, NEW n, Longer(s, m), Longer(m, n)
  PROVE  Longer(s, n)
<1>1. Len(s.out) \in Nat /\ Len(m.out) \in Nat /\ Len(n.out) \in Nat
  BY DEF Longer
<1>2. \A i \in 1..Len(s.out) : i \in 1..Len(m.out)
  BY <1>1 DEF Longer
<1> QED
  BY <1>1, <1>2 DEF Longer

\* A step of the fold takes nothing back.
LEMMA FoldLonger ==
  ASSUME FoldInv, pc = "folding"
  PROVE  /\ \A e \in Feed : Receive(e) => Longer(fold, fold')
         /\ Fails \/ Closes => Longer(fold, fold')
<1>1. Book(fold, spoken, thought, heard) /\ Spoke(fold, muddled) /\ fold \in States
      /\ fold.out \in Seq(Block)
  BY DEF FoldInv, Open, Book, States
<1>2. ASSUME NEW e \in Feed, Receive(e) PROVE Longer(fold, fold')
  <2>1. Turns(fold, Fold(fold, e), spoken, thought, heard, muddled, e)
    BY <1>1, FoldTurns
  <2>2. Extends(fold, fold', Kinds \ {"failure"})
    BY <1>2, <2>1 DEF Receive, Turns, Steps
  <2> QED
    BY <1>1, <2>2 DEF Extends, Longer, States
<1>3. ASSUME Fails \/ Closes PROVE Longer(fold, fold')
  <2> DEFINE m == Salvaged(fold)
  <2>1. Salvages(fold, m, spoken, thought, heard, muddled)
    BY <1>1, SalvagedTurns
  <2>2. Longer(fold, m) /\ Book(m, spoken, thought, heard) /\ m.out \in Seq(Block)
    BY <1>1, <2>1 DEF Salvages, Steps, Extends, Longer, States
  <2>3. fold' = m \/ fold' = put(m, "failure")
    BY <1>3 DEF Fails, Closes
  <2> HIDE DEF m
  <2>4. CASE fold' = put(m, "failure")
    <3> DEFINE n == put(m, "failure")
    <3>1. Extends(m, n, {"failure"})
      BY <2>2, FailureTurns
    <3>2. fold' = n
      BY <2>4
    <3> HIDE DEF n
    <3>3. Longer(m, n)
      BY <2>2, <3>1 DEF Extends, Longer, States
    <3> QED
      BY <2>2, <3>2, <3>3, LongerTrans
  <2> QED
    BY <2>2, <2>3, <2>4
<1> QED
  BY <1>2, <1>3

LEMMA FreshIs ==
  ASSUME Longer(fold, fold')
  PROVE  Fresh \in Seq(Block) /\ out \in Seq(Block) /\ out' = out \o Fresh
<1> DEFINE o == fold.out
           m == fold'.out
<1>1. /\ o \in Seq(Block) /\ m \in Seq(Block) /\ Len(o) \in 0..Len(m)
      /\ \A i \in 1..Len(o) : m[i] = o[i]
  BY DEF Longer
<1>2. Fresh = SubSeq(m, Len(o) + 1, Len(m)) /\ out = o /\ out' = m
  BY DEF Fresh, out
<1> HIDE DEF o, m
<1>3. SubSeq(m, 1, Len(o)) = o
  <2>1. SubSeq(m, 1, Len(o)) \in Seq(Block) /\ Len(SubSeq(m, 1, Len(o))) = Len(o)
        /\ \A i \in 1..Len(o) : SubSeq(m, 1, Len(o))[i] = m[i]
    BY <1>1
  <2> DEFINE a == SubSeq(m, 1, Len(o))
  <2> HIDE DEF a
  <2>2. a \in Seq(Block) /\ Len(a) = Len(o) /\ \A i \in 1..Len(o) : a[i] = o[i]
    BY <1>1, <2>1 DEF a
  <2>3. a = o
    BY <1>1, <2>2, SeqEqual
  <2> QED
    BY <2>3 DEF a
<1>4. SubSeq(m, Len(o) + 1, Len(m)) \in Seq(Block)
      /\ m = SubSeq(m, 1, Len(o)) \o SubSeq(m, Len(o) + 1, Len(m))
  BY <1>1, SplitAt
<1> QED
  BY <1>1, <1>2, <1>3, <1>4

\* A query gathers what was yielded until the blocks come to their end, and has its answer
\* after that.
QueryInv ==
  /\ FoldInv
  /\ ~query.ended => Gathers(query, out)
  /\ query.ended  => pc = "over" /\ Answered(query, out)

LEMMA QueryInitInv == QueryInit => QueryInv
<1> SUFFICES ASSUME QueryInit PROVE QueryInv
  OBVIOUS
<1>1. FoldInv
  BY FoldInit DEF QueryInit
<1> DEFINE none == <<>>
           n == [held |-> none, accumulated |-> none, ctx |-> NoBlock, passed |-> none,
                 answer |-> none, text |-> none, files |-> 0, err |-> FALSE, ended |-> FALSE]
<1>2. query = n /\ out = none
  BY DEF QueryInit, newQuery, Init, newBlockState, out
<1>3. none \in Seq(Block) /\ none \in Text /\ Len(none) = 0
  BY TextNil
<1>4. NoBlock \in Block
  <2>1. "TextDone" \in Kinds /\ Blank \in Models /\ none \in Text
    BY <1>3 DEF Kinds, Models
  <2>2. NoBlock = [kind |-> "TextDone", agent |-> Blank, iteration |-> 0, text |-> none,
                   of |-> Blank, known |-> FALSE]
    BY DEF NoBlock
  <2> HIDE DEF none
  <2> QED
    BY <2>1, <2>2 DEF Block, Text
<1> HIDE DEF none
<1>5. n \in QueryStates
  BY <1>3, <1>4 DEF QueryStates
<1>6. Held(n)
  BY <1>3 DEF Held, none
<1>7. Accounted(n, none)
  <2>1. Answer(none) = none
    <3>1. 1 \in 1..(Len(none) + 1) /\ 1 - 1 = Len(none)
      BY <1>3
    <3> QED
      BY <1>3, <3>1, SliceNone DEF Answer, none
  <2>2. FilesOf(none) = {} /\ ~Broken(none)
    BY <1>3 DEF FilesOf, Broken
  <2>3. Cardinality(FilesOf(none)) = 0
    BY <2>2, FS_EmptySet
  <2> QED
    BY <2>1, <2>2, <2>3 DEF Accounted
<1> QED
  BY <1>1, <1>2, <1>5, <1>6, <1>7 DEF QueryInv, Gathers

LEMMA QueryNextInv == QueryInv /\ [QueryNext]_allvars => QueryInv'
<1> SUFFICES ASSUME QueryInv, [QueryNext]_allvars PROVE QueryInv'
  OBVIOUS
<1>1. FoldInv'
  BY FoldNext DEF QueryInv, QueryNext, QueryReceives, QueryFails, QueryEnds, Next, allvars, vars
<1>2. ASSUME UNCHANGED <<pc, fold, query>> PROVE QueryInv'
  BY <1>1, <1>2 DEF QueryInv, out
<1>3. ASSUME Longer(fold, fold'), pc = "folding"
      PROVE  /\ Gathers(FoldLeft(SkipEnds, query, Fresh), out')
             /\ out' \in Seq(Block)
  <2>1. Fresh \in Seq(Block) /\ out \in Seq(Block) /\ out' = out \o Fresh
    BY <1>3, FreshIs
  <2>2. Gathers(query, out)
    BY <1>3 DEF QueryInv
  <2>3. Gathers(FoldLeft(SkipEnds, query, Fresh), out \o Fresh)
    BY <2>1, <2>2, SkipAll
  <2>4. out \o Fresh \in Seq(Block)
    BY <2>1
  <2> QED
    BY <2>1, <2>3, <2>4
<1>4. CASE (\E e \in Feed : QueryReceives(e)) \/ QueryFails
  <2>1. pc = "folding" /\ query' = FoldLeft(SkipEnds, query, Fresh)
    BY <1>4 DEF QueryReceives, QueryFails, Receive, Fails
  <2>2. Longer(fold, fold')
    BY <1>4, <2>1, FoldLonger DEF QueryInv, QueryReceives, QueryFails
  <2>3. Gathers(query', out')
    BY <1>3, <2>1, <2>2
  <2>4. ~query'.ended
    BY <2>3 DEF Gathers, Held
  <2> QED
    BY <1>1, <2>3, <2>4 DEF QueryInv
<1>5. CASE QueryEnds
  <2> DEFINE mid == FoldLeft(SkipEnds, query, Fresh)
  <2>1. pc = "folding" /\ pc' = "over" /\ query' = SequenceEnds(mid)
    BY <1>5 DEF QueryEnds, Closes
  <2>2. Longer(fold, fold')
    BY <1>5, <2>1, FoldLonger DEF QueryInv, QueryEnds
  <2>3. Gathers(mid, out') /\ out' \in Seq(Block)
    BY <1>3, <2>1, <2>2
  <2> HIDE DEF mid
  <2>4. Answered(query', out')
    BY <2>1, <2>3, EndAnswers
  <2>5. query'.ended
    BY <2>4 DEF Answered
  <2> QED
    BY <1>1, <2>1, <2>4, <2>5 DEF QueryInv
<1>6. CASE Finished /\ UNCHANGED query
  BY <1>2, <1>6 DEF Finished, vars
<1>7. CASE UNCHANGED allvars
  BY <1>2, <1>7 DEF allvars, vars
<1> QED
  BY <1>4, <1>5, <1>6, <1>7 DEF QueryNext

\* QueryTypeOK: the transforms hold one end back at most, and keep text and blocks of their
\* types (SkipIntermediateEnds, MergeTextAcrossIterations, Query).
THEOREM QueryTypes == QuerySpec => []QueryTypeOK
<1>1. QueryInv /\ TypeOK => QueryTypeOK
  <2> SUFFICES ASSUME QueryInv, TypeOK PROVE QueryTypeOK
    OBVIOUS
  <2>1. query \in QueryStates
    BY DEF QueryInv, Gathers, Answered
  <2>2. Len(query.held) <= 1
    <3>1. CASE ~query.ended
      BY <3>1 DEF QueryInv, Gathers, Held
    <3>2. CASE query.ended
      <4>1. query.held = <<>>
        BY <3>2 DEF QueryInv, Answered
      <4> QED
        BY <4>1
    <3> QED
      BY <3>1, <3>2
  <2> QED
    BY <2>1, <2>2 DEF QueryTypeOK, QueryStates, Text
<1>2. QueryInv /\ [QueryNext]_allvars => QueryInv'
  BY QueryNextInv
<1>3. QuerySpec => []TypeOK
  BY QueryFolds, FoldTypes
<1> QED
  BY <1>1, <1>2, <1>3, QueryInitInv, PTL DEF QuerySpec

\* AnswerOnce: Query's answer is every finished text, once and in order, with every file, and
\* a reader of the transforms sees one end, the last block, and the answer in one block
\* before it (SkipIntermediateEnds, MergeTextAcrossIterations, Query).
THEOREM AnswersOnce == QuerySpec => []AnswerOnce
<1>1. QueryInv => AnswerOnce
  <2> SUFFICES ASSUME QueryInv PROVE AnswerOnce
    OBVIOUS
  <2>1. All({"TextDone"}) = Answer(out)
    BY SaidIsSlice DEF All, Answer
  <2>2. TheFiles = FilesOf(out)
    BY DEF TheFiles, FilesOf
  <2>3. CASE ~query.ended
    <3>1. Held(query) /\ Accounted(query, out)
      BY <2>3 DEF QueryInv, Gathers
    <3> QED
      BY <2>1, <2>2, <2>3, <3>1 DEF Held, Accounted, Broken, AnswerOnce
  <2>4. CASE query.ended
    <3>1. Answered(query, out)
      BY <2>4 DEF QueryInv
    <3> QED
      BY <2>1, <2>2, <2>4, <3>1 DEF Answered, Broken, TextsOf, EndsOf, AnswerOnce
  <2> QED
    BY <2>3, <2>4
<1>2. QueryInv /\ [QueryNext]_allvars => QueryInv'
  BY QueryNextInv
<1> QED
  BY <1>1, <1>2, QueryInitInv, PTL DEF QuerySpec
=============================================================================
