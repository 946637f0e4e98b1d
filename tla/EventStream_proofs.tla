------------------------- MODULE EventStream_proofs -------------------------
(***************************************************************************)
(* Proofs about EventStream, for every set of frames, every bound on their *)
(* size and every length of stream.                                        *)
(***************************************************************************)
EXTENDS EventStream, SequenceFacts

(* Every step keeps the account of how far the stream has come. *)
LEMMA ProgressStep ==
  ASSUME Progress, [Next]_vars
  PROVE  Progress'
<1> USE DEF Progress, NextLine, GoOn, End, TakeFrame, assembly, counts, server, seen
<1>1. ASSUME NEW f \in Frames, Send(f) PROVE Progress'
  BY <1>1 DEF Send
<1>2. CASE Open
  BY <1>2 DEF Open
<1>3. CASE ReadComment
  BY <1>3 DEF ReadComment
<1>4. CASE ReadName
  BY <1>4 DEF ReadName
<1>5. CASE ReadData
  BY <1>5 DEF ReadData
<1>6. CASE ReadBlank
  BY <1>6 DEF ReadBlank
<1>7. CASE OnSubscribed
  BY <1>7 DEF OnSubscribed
<1>8. CASE SkipFrame
  BY <1>8 DEF SkipFrame
<1>9. CASE IgnoreEmpty
  BY <1>9 DEF IgnoreEmpty
<1>10. CASE YieldEvent
  BY <1>10 DEF YieldEvent
<1>11. CASE SawDone
  BY <1>11 DEF SawDone
<1>12. CASE BodyEnds
  BY <1>12 DEF BodyEnds
<1>13. CASE UNCHANGED vars
  BY <1>13 DEF vars
<1>14. QED
  BY <1>1, <1>2, <1>3, <1>4, <1>5, <1>6, <1>7, <1>8, <1>9, <1>10, <1>11, <1>12, <1>13
     DEF Next, Read, Finished

LEMMA ProgressHolds == Spec => []Progress
<1>1. Init => Progress
  BY DEF Init, Progress
<1>2. QED
  BY <1>1, ProgressStep, PTL DEF Spec

(* The hook has run exactly once when the first frame of any kind has been read. *)
THEOREM HookOnFirstFrameHolds == Spec => []HookOnFirstFrame
<1>1. Progress => HookOnFirstFrame
  BY DEF Progress, HookOnFirstFrame
<1>2. QED
  BY <1>1, ProgressHolds, PTL

(* However many lines a frame comes in, its payload stays within the bound. *)
THEOREM FrameBoundedHolds == Spec => []FrameBounded
<1> DEFINE Bounded == payload \in Seq(Chunk) /\ FrameBounded
<1> USE StreamAssumption DEF FrameBounded, Len_
<1>1. Init => Bounded
  BY DEF Init
<1>2. Bounded /\ [Next]_vars => Bounded'
  <2> SUFFICES ASSUME Bounded, [Next]_vars PROVE Bounded'
    OBVIOUS
  <2>1. CASE ReadData
    <3>1. CASE Oversized
      BY <2>1, <3>1 DEF ReadData
    <3>2. CASE ~Oversized
      <4>1. Head(wire) \in Chunk /\ payload' = Append(payload, Head(wire))
        BY <2>1, <3>2 DEF ReadData, NextLine
      <4>2. payload' \in Seq(Chunk) /\ Len(payload') = Len(payload) + 1
        BY <4>1
      <4>3. Len(payload) \in Nat /\ (payload = <<>> <=> Len(payload) = 0)
        BY SMT
      <4>4. QED
        BY <3>2, <4>2, <4>3 DEF Oversized
    <3>3. QED
      BY <3>1, <3>2
  <2>2. CASE ReadBlank
    BY <2>2 DEF ReadBlank, TakeFrame
  <2>3. CASE UNCHANGED payload
    BY <2>3
  <2>4. ReadData \/ ReadBlank \/ UNCHANGED payload
    BY DEF Next, Read, Send, Open, BodyEnds, ReadComment, ReadName, OnSubscribed, SkipFrame,
           IgnoreEmpty, YieldEvent, SawDone, Finished, vars, assembly
  <2>5. QED
    BY <2>1, <2>2, <2>3, <2>4
<1>3. Bounded => FrameBounded
  OBVIOUS
<1>4. QED
  BY <1>1, <1>2, <1>3, PTL DEF Spec

-----------------------------------------------------------------------------
(* Stream implements its contract, a step of the one for every step of the other. *)
LEMMA ContractStep ==
  ASSUME Progress, Progress', [Next]_vars
  PROVE  [Contract!Next]_Contract!contract
<1> USE DEF Progress, NextLine, GoOn, End, TakeFrame, assembly, counts, server, seen,
            Contract!Next, Contract!contract, Contract!Over
<1>1. ASSUME NEW f \in Frames, Send(f) PROVE UNCHANGED Contract!contract
  BY <1>1 DEF Send
<1>2. CASE Open
  BY <1>2 DEF Open, Contract!Fail
<1>3. CASE ReadComment \/ ReadName
  BY <1>3 DEF ReadComment, ReadName
<1>4. CASE ReadData
  BY <1>4 DEF ReadData, Contract!Fail
<1>5. CASE ReadBlank
  BY <1>5 DEF ReadBlank
<1>6. CASE OnSubscribed
  BY <1>6 DEF OnSubscribed, Contract!Subscribe, Contract!Fail
<1>7. CASE SkipFrame
  BY <1>7 DEF SkipFrame, Contract!Drop
<1>8. CASE IgnoreEmpty
  BY <1>8 DEF IgnoreEmpty
<1>9. CASE YieldEvent
  BY <1>9 DEF YieldEvent, Contract!Deliver
<1>10. CASE SawDone
  BY <1>10 DEF SawDone, Contract!Close, Contract!Fail
<1>11. CASE BodyEnds
  BY <1>11 DEF BodyEnds, Contract!Fail
<1>12. CASE UNCHANGED vars
  BY <1>12 DEF vars
<1>13. QED
  BY <1>1, <1>2, <1>3, <1>4, <1>5, <1>6, <1>7, <1>8, <1>9, <1>10, <1>11, <1>12
     DEF Next, Read, Finished

(* Client.Stream keeps the contract Chat.drive relies on. *)
THEOREM KeepsContractHolds == Spec => KeepsContract
<1>1. Init => Contract!Init
  BY DEF Init, Contract!Init
<1>2. Progress /\ Progress' /\ [Next]_vars => [Contract!Next]_Contract!contract
  BY ContractStep
<1>3. QED
  BY <1>1, <1>2, ProgressHolds, PTL DEF Spec, KeepsContract, Contract!Spec

-----------------------------------------------------------------------------
(* What a frame decodes to. *)

\* The event of these chunks is what they say of themselves: its type is theirs, and no
\* body contradicts it.
Says(chunks, event) ==
  /\ event \in Types
  /\ \A i \in 1..Len(chunks) :
       /\ chunks[i].type \in {Untyped, event}
       /\ ~(chunks[i].type \in eventRegistry /\ ~chunks[i].fits)
  /\ Len(chunks) = 1 /\ chunks[1].type # Untyped => event = DecodeEvent(chunks[1])

LEMMA UntypedIsNone == Untyped \notin eventRegistry
BY DEF Untyped, eventRegistry, RequestEvents, CompactionEvents, ElicitationEvents,
       ProgressEvents, OutputEvents, PolicyEvents, ReasoningEvents, ResponseEvents,
       SessionEvents, ResourceEvents, ToolEvents, TurnEvents

LEMMA DecodeSays ==
  ASSUME NEW f \in Frames, IsEvent(decodeFrame(f.name, f.chunks))
  PROVE  Says(f.chunks, decodeFrame(f.name, f.chunks))
<1> DEFINE chunks == f.chunks
           text   == Only(chunks, NotSpace)
           event  == decodeFrame(f.name, chunks)
           type   == Type(f.name, text[1])
<1>1. /\ chunks \in Seq(Chunk) /\ f.name \in Types
      /\ \A i \in 1..Len(chunks) :
           \/ chunks[i].text = "object"
           \/ chunks[i].text = "half" /\ \A j \in 1..(i - 1) : chunks[j].text # "half"
           \/ chunks[i].type = Untyped /\ chunks[i].fits
  BY StreamAssumption
<1>2. text # <<>> /\ Parses(text) /\ type # Untyped /\ event = decodeByType(type, text[1].fits)
  <2>1. "empty" \in NoEvents /\ "done" \in NoEvents /\ "undecodable" \in NoEvents
    BY DEF NoEvents
  <2> HIDE DEF text, type
  <2>2. event = CASE text = <<>>                  -> "empty"
                  [] text = <<Data("DONE")>>      -> "done"
                  [] Parses(text) /\ type # Untyped -> decodeByType(type, text[1].fits)
                  [] OTHER                        -> "undecodable"
    BY DEF decodeFrame, text, type
  <2>3. event \notin NoEvents
    BY DEF IsEvent
  <2>4. text # <<Data("DONE")>> /\ text # <<>>
    <3>1. CASE text = <<>>
      <4>1. ~Parses(text) /\ text # <<Data("DONE")>>
        BY <3>1 DEF Parses
      <4> QED
        BY <2>1, <2>2, <2>3, <3>1, <4>1
    <3>2. CASE text = <<Data("DONE")>>
      <4>1. Len(text) = 1 /\ text[1].text = "DONE" /\ text # <<>>
        BY <3>2 DEF Data
      <4>2. ~Parses(text)
        BY <4>1 DEF Parses
      <4> QED
        BY <2>1, <2>2, <2>3, <3>2, <4>1, <4>2
    <3> QED
      BY <3>1, <3>2
  <2> QED
    BY <2>1, <2>2, <2>3, <2>4
<1>3. PICK q : Places(q, text, chunks, NotSpace)
  BY <1>1, OnlyPlaces DEF Holds
<1>4. text \in Seq(Chunk) /\ Len(text) \in Nat
  BY <1>1, OnlyType
<1> HIDE DEF chunks, text, type, event
<1>5. type \notin eventRegistry \/ text[1].fits
  BY <1>2 DEF decodeByType, IsEvent, NoEvents, event, chunks
<1>6. event = type
  BY <1>2, <1>5 DEF decodeByType
<1>11. Len(text) = 1 \/ Len(text) = 2
  BY <1>2 DEF Parses
<1>7. /\ text[1].type \in {Untyped, event}
      /\ ~(text[1].type \in eventRegistry /\ ~text[1].fits)
  <2>1. text[1].type = Untyped \/ text[1].type = type
    BY DEF Type, type
  <2> QED
    BY <1>5, <1>6, <2>1, UntypedIsNone
<1>8. \A i \in 1..Len(chunks) :
        \/ chunks[i].type = Untyped /\ chunks[i].fits
        \/ chunks[i] = text[1]
  <2> SUFFICES ASSUME NEW i \in 1..Len(chunks),
                      ~(chunks[i].type = Untyped /\ chunks[i].fits)
               PROVE  chunks[i] = text[1]
    OBVIOUS
  <2>1. chunks[i].text \in {"object", "half"}
    BY <1>1
  <2>2. chunks[i] \in NotSpace
    BY <1>1, <2>1 DEF NotSpace
  <2>3. PICK k \in 1..Len(text) : q[k] = i
    BY <1>3, <2>2 DEF Places
  <2>4. text[k] = chunks[i]
    BY <1>3, <2>3 DEF Places
  <2>5. CASE k = 1
    BY <2>4, <2>5
  <2>6. CASE k # 1
    <3>1. Len(text) = 2 /\ k = 2 /\ 1 \in 1..Len(text)
      <4>1. CASE Len(text) = 1
        <5>1. k \in 1..1
          BY <4>1
        <5>2. k = 1
          BY <5>1
        <5> QED
          BY <2>6, <5>2
      <4>2. CASE Len(text) = 2
        <5>1. k \in 1..2
          BY <4>2
        <5>2. k = 1 \/ k = 2
          BY <5>1
        <5> QED
          BY <2>6, <4>2, <5>2
      <4> QED
        BY <1>11, <4>1, <4>2
    <3>2. q[1] \in 1..Len(chunks) /\ q[1] < i /\ chunks[q[1]] = text[1]
      BY <1>3, <2>3, <3>1 DEF Places
    <3>3. text[1].text = "half" /\ text[2].text = "half"
      BY <1>2, <3>1 DEF Parses
    <3>4. q[1] \in 1..(i - 1) /\ i \in Nat
      BY <1>1, <3>2
    <3>5. chunks[i].text = "half" /\ chunks[q[1]].text = "half"
      BY <2>4, <3>1, <3>2, <3>3
    <3> QED
      BY <1>1, <3>4, <3>5
  <2> QED
    BY <2>5, <2>6
<1>9. ASSUME Len(chunks) = 1, chunks[1].type # Untyped PROVE event = DecodeEvent(chunks[1])
  <2>1. 1 \in 1..Len(chunks) /\ chunks[1] = text[1]
    BY <1>8, <1>9
  <2>2. Len(text) # 2
    <3> SUFFICES ASSUME Len(text) = 2 PROVE FALSE
      OBVIOUS
    <3>1. q[1] \in 1..1 /\ q[2] \in 1..1 /\ q[1] < q[2]
      BY <1>3, <1>9 DEF Places
    <3> QED
      BY <3>1
  <2>3. text[1].text = "object"
    BY <1>2, <2>2 DEF Parses
  <2>4. type = chunks[1].type
    BY <1>9, <2>1 DEF type, Type
  <2> QED
    BY <1>2, <1>9, <2>1, <2>3, <2>4 DEF DecodeEvent
<1>10. \A i \in 1..Len(chunks) :
         /\ chunks[i].type \in {Untyped, event}
         /\ ~(chunks[i].type \in eventRegistry /\ ~chunks[i].fits)
  BY <1>7, <1>8
<1>12. event \in Types
  <2>1. text[1] \in Chunk
    <3>1. 1 \in 1..Len(text)
      <4>1. 1 \in 1..1 /\ 1 \in 1..2
        OBVIOUS
      <4> QED
        BY <1>11, <4>1
    <3> QED
      BY <1>4, <3>1
  <2>2. text[1].type \in Types
    BY <2>1 DEF Chunk
  <2> QED
    BY <1>1, <1>6, <2>2 DEF type, Type
<1> QED
  BY <1>9, <1>10, <1>12 DEF Says, event, chunks

\* A whole event of a type newer than this build is one of that type.
LEMMA NewerDecodes ==
  ASSUME NEW f \in Frames, Newer(f)
  PROVE  IsEvent(decodeFrame(f.name, f.chunks))
<1> DEFINE chunks == f.chunks
           text   == Only(chunks, NotSpace)
           c      == chunks[1]
<1>1. /\ chunks \in Seq(Chunk) /\ Len(chunks) = 1 /\ c.text = "object"
      /\ c.type \notin eventRegistry \union {Untyped}
  BY StreamAssumption DEF Newer
<1>2. c \in Chunk /\ c \in NotSpace /\ 1 \in 1..Len(chunks)
  <2>1. 1 \in 1..Len(chunks)
    BY <1>1
  <2>2. c \in Chunk
    BY <1>1, <2>1
  <2> QED
    BY <1>1, <2>1, <2>2 DEF NotSpace
<1>3. PICK q : Places(q, text, chunks, NotSpace)
  BY <1>1, OnlyPlaces DEF Holds
<1>4. text \in Seq(Chunk) /\ Len(text) \in Nat
  BY <1>1, OnlyType
<1> HIDE DEF chunks, text, c
<1>5. PICK k \in 1..Len(text) : q[k] = 1
  BY <1>2, <1>3 DEF Places, c
<1>6. Len(text) = 1
  <2>1. \A i \in 1..Len(text) : q[i] = 1
    <3>1. \A i \in 1..Len(text) : q[i] \in 1..1
      BY <1>1, <1>3 DEF Places
    <3> QED
      BY <3>1
  <2>2. \A i, j \in 1..Len(text) : i < j => q[i] < q[j]
    BY <1>3 DEF Places
  <2>3. ~(Len(text) >= 2)
    <3> SUFFICES ASSUME Len(text) >= 2 PROVE FALSE
      OBVIOUS
    <3>1. 1 \in 1..Len(text) /\ 2 \in 1..Len(text) /\ 1 < 2
      BY <1>4
    <3>2. q[1] < q[2] /\ q[1] = 1 /\ q[2] = 1
      BY <2>1, <2>2, <3>1, Zenon
    <3> QED
      BY <3>2
  <2>4. Len(text) # 0
    <3> SUFFICES ASSUME Len(text) = 0 PROVE FALSE
      OBVIOUS
    <3>1. k \in 1..0
      BY <1>5
    <3> QED
      BY <3>1
  <2> DEFINE n == Len(text)
  <2>5. n \in Nat /\ n # 0 /\ ~(n >= 2)
    BY <1>4, <2>3, <2>4
  <2> HIDE DEF n
  <2>6. n = 1
    BY <2>5
  <2> QED
    BY <2>6 DEF n
<1>7. text[1] = c /\ text # <<>>
  <2>1. 1 \in 1..Len(text) /\ q[1] \in 1..1
    BY <1>1, <1>3, <1>6 DEF Places
  <2>2. text[1] = chunks[q[1]] /\ q[1] = 1
    BY <1>3, <2>1 DEF Places
  <2> QED
    BY <1>6, <2>2 DEF c
<1>8. Type(f.name, text[1]) = c.type /\ c.type # Untyped /\ Parses(text)
  BY <1>1, <1>6, <1>7 DEF Type, Parses
<1>9. text # <<Data("DONE")>>
  <2>1. <<Data("DONE")>>[1].text = "DONE"
    BY DEF Data
  <2> QED
    BY <1>1, <1>7, <2>1
<1>10. decodeFrame(f.name, chunks) = decodeByType(c.type, c.fits)
  BY <1>7, <1>8, <1>9 DEF decodeFrame, text
<1>11. decodeByType(c.type, c.fits) = c.type
  BY <1>1 DEF decodeByType
<1>12. c.type = "session.new"
  BY <1>1, <1>2 DEF Chunk, Types
<1> QED
  BY <1>10, <1>11, <1>12 DEF IsEvent, NoEvents, chunks

-----------------------------------------------------------------------------
(* The lines of a frame. *)

Body(f) == (IF f.chunks = <<>> THEN <<Data("comment")>> ELSE f.chunks) \o <<Data("blank")>>

LEMMA LineKinds ==
  /\ Data("blank") \in Line /\ Data("comment") \in Line /\ Chunk \subseteq Line
  /\ \A t \in Types : Named(t) \in Line
  /\ \A c \in Chunk : c # Data("blank") /\ c # Data("comment") /\ \A t \in Types : c # Named(t)
  /\ Data("blank") # Data("comment")
  /\ \A t \in Types : Named(t) # Data("blank") /\ Named(t) # Data("comment") /\ Named(t).type = t
<1>1. \A c \in Chunk : c.text # "blank" /\ c.text # "comment" /\ c.text # "event"
  BY DEF Chunk, Texts
<1>2. /\ Data("blank").text = "blank" /\ Data("comment").text = "comment"
      /\ \A t \in Types : Named(t).text = "event" /\ Named(t).type = t
  BY DEF Data, Named
<1>3. /\ Data("blank") \in Line /\ Data("comment") \in Line /\ Chunk \subseteq Line
      /\ \A t \in Types : Named(t) \in Line
  BY Zenon DEF Line
<1>4. \A c \in Chunk : c # Data("blank") /\ c # Data("comment") /\ \A t \in Types : c # Named(t)
  BY <1>1, <1>2, Zenon
<1>5. Data("blank") # Data("comment")
  BY <1>2
<1>6. \A t \in Types : Named(t) # Data("blank") /\ Named(t) # Data("comment") /\ Named(t).type = t
  BY <1>2
<1> QED
  BY <1>3, <1>4, <1>5, <1>6

LEMMA BodyIs ==
  ASSUME NEW f \in Frames
  PROVE  /\ Body(f) \in Seq(Line) /\ f.chunks \in Seq(Chunk) /\ f.name \in Types
         /\ IF f.chunks = <<>> THEN Body(f) = <<Data("comment"), Data("blank")>>
            ELSE /\ Len(Body(f)) = Len(f.chunks) + 1 /\ Body(f)[Len(f.chunks) + 1] = Data("blank")
                 /\ \A i \in 1..Len(f.chunks) : Body(f)[i] = f.chunks[i]
<1>1. f.chunks \in Seq(Chunk) /\ f.name \in Types
  BY StreamAssumption
<1> DEFINE t == f.chunks
           u == <<Data("blank")>>
<1>2. t \in Seq(Line) /\ u \in Seq(Line) /\ Len(u) = 1 /\ u[1] = Data("blank") /\ Len(t) \in Nat
  <2>1. \A i \in 1..Len(t) : t[i] \in Line
    BY <1>1, LineKinds
  <2> QED
    BY <1>1, <2>1, LineKinds
<1>3. CASE t = <<>>
  <2>1. Body(f) = <<Data("comment"), Data("blank")>>
    <3>1. Body(f) = <<Data("comment")>> \o <<Data("blank")>>
      BY <1>3 DEF Body
    <3> DEFINE a == Data("comment")
               z == Data("blank")
    <3> HIDE DEF a, z
    <3>2. a \in Line /\ z \in Line
      BY LineKinds DEF a, z
    <3>3. <<a>> \in Seq(Line) /\ Append(<<a>>, z) = <<a, z>>
      <4> DEFINE p == <<a>>
                 r == <<a, z>>
      <4>1. p \in Seq(Line) /\ Len(p) = 1 /\ p[1] = a
        BY <3>2
      <4>2. r \in Seq(Line) /\ Len(r) = 2 /\ r[1] = a /\ r[2] = z
        BY <3>2
      <4> HIDE DEF p, r
      <4>3. /\ Append(p, z) \in Seq(Line) /\ Len(Append(p, z)) = 2
            /\ \A i \in 1..2 : Append(p, z)[i] = r[i]
        <5>1. /\ Append(p, z) \in Seq(Line) /\ Len(Append(p, z)) = Len(p) + 1
              /\ \A i \in 1..Len(p) : Append(p, z)[i] = p[i]
              /\ Append(p, z)[Len(p) + 1] = z
          <6>1. p \in Seq(Line) /\ z \in Line
            BY <3>2, <4>1
          <6> QED
            BY <6>1, AppendProperties, SMTT(30)
        <5>2. Append(p, z)[1] = a /\ Append(p, z)[2] = z
          BY <4>1, <5>1
        <5>3. \A i \in 1..2 : i = 1 \/ i = 2
          OBVIOUS
        <5> QED
          BY <4>1, <4>2, <5>1, <5>2, <5>3
      <4>4. Append(p, z) = r
        BY <4>2, <4>3, SeqEqual
      <4> QED
        BY <4>1, <4>4 DEF p, r
    <3>4. Append(<<a>>, z) = <<a>> \o <<z>>
      BY <3>2, <3>3, AppendIsConcat
    <3> QED
      BY <3>1, <3>3, <3>4 DEF a, z
  <2> QED
    BY <1>1, <1>3, <2>1, LineKinds
<1>4. CASE t # <<>>
  <2>1. Body(f) = t \o u
    BY <1>4 DEF Body
  <2> HIDE DEF u, t
  <2>3. /\ t \o u \in Seq(Line) /\ Len(t \o u) = Len(t) + Len(u)
        /\ \A i \in 1..(Len(t) + Len(u)) :
             (t \o u)[i] = IF i <= Len(t) THEN t[i] ELSE u[i - Len(t)]
    BY <1>2, ConcatProperties
  <2>2. /\ t \o u \in Seq(Line) /\ Len(t \o u) = Len(t) + 1
        /\ (t \o u)[Len(t) + 1] = u[1]
        /\ \A i \in 1..Len(t) : (t \o u)[i] = t[i]
    BY <1>2, <2>3
  <2> QED
    BY <1>1, <1>2, <1>4, <2>1, <2>2 DEF t
<1> QED
  BY <1>3, <1>4

LEMMA LinesAre ==
  ASSUME NEW f \in Frames
  PROVE  /\ Lines(f) \in Seq(Line) /\ Lines(f) # <<>>
         /\ f.name = Untyped => Lines(f) = Body(f)
         /\ f.name # Untyped => Head(Lines(f)) = Named(f.name) /\ Tail(Lines(f)) = Body(f)
<1> DEFINE x == IF f.chunks = <<>> THEN <<Data("comment")>> ELSE f.chunks
           u == <<Data("blank")>>
           h == <<Named(f.name)>>
<1>1. /\ Body(f) \in Seq(Line) /\ f.chunks \in Seq(Chunk) /\ f.name \in Types
      /\ Body(f) = x \o u
  BY BodyIs DEF Body
<1>2. x \in Seq(Line) /\ u \in Seq(Line) /\ h \in Seq(Line) /\ Len(u) = 1 /\ Len(h) = 1
      /\ h[1] = Named(f.name)
  <2>1. \A i \in 1..Len(f.chunks) : f.chunks[i] \in Line
    BY <1>1, LineKinds
  <2>2. f.chunks \in Seq(Line)
    BY <1>1, <2>1
  <2> QED
    BY <1>1, <2>2, LineKinds
<1>3. Lines(f) = IF f.name # Untyped THEN (h \o x) \o u ELSE (<<>> \o x) \o u
  BY DEF Lines
<1> HIDE DEF x, u, h
<1>4. (h \o x) \o u = h \o (x \o u) /\ <<>> \o x = x
  <2>1. x \in Seq(Line) /\ u \in Seq(Line) /\ h \in Seq(Line)
    BY <1>2
  <2>2. (h \o x) \o u = h \o (x \o u)
    BY <2>1, ConcatAssociative, SMTT(30)
  <2>3. <<>> \o x = x
    BY <2>1, ConcatEmptySeq, Zenon
  <2> QED
    BY <2>2, <2>3
<1>5. CASE f.name = Untyped
  <2>1. Lines(f) = x \o u
    BY <1>3, <1>4, <1>5
  <2>2. Len(x \o u) = Len(x) + Len(u) /\ Len(x) \in Nat
    BY <1>2, ConcatProperties, SMTT(30)
  <2>3. x \o u # <<>>
    BY <1>2, <2>2
  <2> QED
    BY <1>1, <1>5, <2>1, <2>3
<1>6. CASE f.name # Untyped
  <2>1. Lines(f) = h \o Body(f)
    BY <1>1, <1>3, <1>4, <1>6
  <2> DEFINE b == Body(f)
  <2>2. b \in Seq(Line)
    BY <1>1
  <2> HIDE DEF b
  <2>3. /\ h \o b \in Seq(Line) /\ Len(h \o b) = Len(b) + 1 /\ (h \o b)[1] = Named(f.name)
        /\ \A i \in 1..Len(b) : (h \o b)[i + 1] = b[i]
        /\ Len(b) \in Nat
    <3>1. /\ h \o b \in Seq(Line) /\ Len(h \o b) = Len(h) + Len(b) /\ Len(b) \in Nat
          /\ \A i \in 1..(Len(h) + Len(b)) :
               (h \o b)[i] = IF i <= Len(h) THEN h[i] ELSE b[i - Len(h)]
      <4>1. h \in Seq(Line) /\ b \in Seq(Line)
        BY <1>2, <2>2
      <4>2. Len(b) \in Nat
        BY <4>1
      <4> QED
        BY <4>1, <4>2, ConcatProperties, Zenon
    <3>2. \A i \in 1..Len(b) : i + 1 \in 1..(Len(h) + Len(b)) /\ ~(i + 1 <= Len(h))
                               /\ (i + 1) - Len(h) = i
      BY <1>2, <3>1
    <3> QED
      BY <1>2, <3>1, <3>2
  <2>4. h \o b # <<>> /\ Head(h \o b) = Named(f.name)
    BY <2>3
  <2>5. Tail(h \o b) = b
    <3> DEFINE s == h \o b
    <3> HIDE DEF s
    <3>1. s \in Seq(Line) /\ s # <<>> /\ Len(s) = Len(b) + 1 /\ \A i \in 1..Len(b) : s[i + 1] = b[i]
      BY <2>3, <2>4 DEF s
    <3>2. Tail(s) \in Seq(Line) /\ Len(Tail(s)) = Len(b) /\ \A i \in 1..Len(b) : Tail(s)[i] = b[i]
      BY <2>2, <2>3, <3>1
    <3> QED
      BY <2>2, <3>2, SeqEqual DEF s
  <2> QED
    BY <1>6, <2>1, <2>3, <2>4, <2>5 DEF b
<1> QED
  BY <1>5, <1>6

-----------------------------------------------------------------------------
(* What was handed over. *)

Reads(s, n)    == decodeFrame(s[n].name, s[n].chunks)
Good(s, k)     == {n \in 1..k : IsEvent(Reads(s, n))}
HandedTo(s, k) == Only(Numbers(k), Good(s, k))

LEMMA HandedNext ==
  ASSUME NEW s, NEW k \in Nat
  PROVE  HandedTo(s, k + 1)
           = IF IsEvent(Reads(s, k + 1)) THEN Append(HandedTo(s, k), k + 1) ELSE HandedTo(s, k)
<1> DEFINE t == Numbers(k)
           u == Numbers(k + 1)
<1>1. /\ t \in Seq(Nat) /\ Len(t) = k /\ \A i \in 1..k : t[i] = i
      /\ u \in Seq(Nat) /\ Len(u) = k + 1 /\ \A i \in 1..(k + 1) : u[i] = i
  BY DEF Numbers
<1> HIDE DEF t, u
<1>2. u = Append(t, k + 1)
  <2>1. Append(t, k + 1) \in Seq(Nat) /\ Len(Append(t, k + 1)) = k + 1
        /\ \A i \in 1..(k + 1) : Append(t, k + 1)[i] = u[i]
    BY <1>1
  <2> QED
    BY <1>1, <2>1, SeqEqual
<1>3. Only(u, Good(s, k + 1))
        = IF k + 1 \in Good(s, k + 1) THEN Append(Only(t, Good(s, k + 1)), k + 1)
                                   ELSE Only(t, Good(s, k + 1))
  <2>1. t \in Seq(Nat) /\ k + 1 \in Nat
    BY <1>1
  <2> HIDE DEF Good
  <2> DEFINE e == k + 1
             G == Good(s, e)
  <2> HIDE DEF e, G, t
  <2>2. Only(Append(t, e), G) = IF e \in G THEN Append(Only(t, G), e) ELSE Only(t, G)
    <3>1. t \in Seq(Nat) /\ e \in Nat
      BY <2>1 DEF e
    <3> QED
      BY <3>1, OnlyAppend, Zenon
  <2> QED
    BY <1>2, <2>2, Zenon DEF e, G
<1>4. \A i \in 1..Len(t) : t[i] \in Good(s, k + 1) <=> t[i] \in Good(s, k)
  BY <1>1 DEF Good
<1>5. Only(t, Good(s, k + 1)) = Only(t, Good(s, k))
  BY <1>1, <1>4, OnlySame
<1>6. k + 1 \in Good(s, k + 1) <=> IsEvent(Reads(s, k + 1))
  BY DEF Good
<1> QED
  BY <1>3, <1>5, <1>6 DEF HandedTo, t, u

LEMMA HandedFirst == \A s : HandedTo(s, 0) = <<>>
<1>1. Numbers(0) = <<>>
  BY DEF Numbers
<1> QED
  BY <1>1, OnlyNil DEF HandedTo

\* Every good frame up to k is among them.
LEMMA HandedAll ==
  ASSUME NEW s, NEW k \in Nat, NEW n \in 1..k, IsEvent(Reads(s, n))
  PROVE  \E i \in 1..Len(HandedTo(s, k)) : HandedTo(s, k)[i] = n
<1>1. Numbers(k) \in Seq(Nat) /\ Len(Numbers(k)) = k /\ \A i \in 1..k : Numbers(k)[i] = i
  BY DEF Numbers
<1>2. PICK q : Places(q, HandedTo(s, k), Numbers(k), Good(s, k))
  BY <1>1, OnlyPlaces DEF Holds, HandedTo
<1>3. n \in 1..Len(Numbers(k)) /\ Numbers(k)[n] = n /\ n \in Good(s, k)
  BY <1>1 DEF Good
<1>4. PICK i \in 1..Len(HandedTo(s, k)) : q[i] = n
  BY <1>2, <1>3 DEF Places
<1>5. HandedTo(s, k)[i] = n
  BY <1>2, <1>3, <1>4 DEF Places
<1> QED
  BY <1>5

-----------------------------------------------------------------------------
(* The frame on its way, and what has been made of the others. *)

\* The lines w of f still to come carry on where the payload p ends.
Remains(f, p, w) ==
  /\ Len(p) <= Len(f.chunks) /\ Len(w) = Len(f.chunks) - Len(p) + 1
  /\ \A i \in 1..Len(p) : p[i] = f.chunks[i]
  /\ \A i \in 1..(Len(f.chunks) - Len(p)) : w[i] = f.chunks[Len(p) + i]
  /\ w[Len(f.chunks) - Len(p) + 1] = Data("blank")

Started(f, n, p, w) ==
  /\ n = f.name
  /\ \/ f.chunks = <<>> /\ p = <<>> /\ w = <<Data("comment"), Data("blank")>>
     \/ Remains(f, p, w)

\* n and p are what has been assembled of f, and w is still to come.
Coming(f, n, p, w) ==
  \/ f.name # Untyped /\ n = Untyped /\ p = <<>> /\ w = Lines(f)
  \/ Started(f, n, p, w)

\* What is assembled is of the last frame sent, and of no other.
OneFrame ==
  /\ wire = <<>> => completed = Len(sent) /\ name = Untyped /\ payload = <<>>
  /\ wire # <<>> => Len(sent) = completed + 1 /\ Coming(sent[Len(sent)], name, payload, wire)

\* Each event was handed over as its frame says, in the order sent.
Rows ==
  /\ Len(events) = Len(handed)
  /\ \A i \in 1..Len(handed) :
       /\ handed[i] \in 1..completed /\ IsEvent(Reads(sent, handed[i]))
       /\ events[i] = Reads(sent, handed[i])
       /\ i > 1 => handed[i - 1] < handed[i]

StreamInv ==
  /\ name \in Types /\ payload \in Seq(Chunk) /\ wire \in Seq(Line) /\ sent \in Seq(Frames)
  /\ completed \in Nat /\ handed \in Seq(Nat) /\ events \in Seq(Types)
  /\ completed <= Len(sent)
  /\ pc \in {"opening", "reading", "subscribing", "dispatching", "over"}
  /\ pc # "over" => OneFrame
  /\ Rows
  /\ pc = "opening" => completed = 0
  /\ pc \in {"opening", "reading"} => handed = HandedTo(sent, completed)
  /\ pc \in {"subscribing", "dispatching"} =>
       /\ completed > 0 /\ frame = Reads(sent, completed) /\ handed = HandedTo(sent, completed - 1)
       /\ \A i \in 1..Len(handed) : handed[i] < completed

LEMMA StreamInit == Init => StreamInv
<1> SUFFICES ASSUME Init PROVE StreamInv
  OBVIOUS
<1> DEFINE none == <<>>
<1>1. /\ name = Untyped /\ payload = none /\ wire = none /\ sent = none /\ completed = 0
      /\ handed = none /\ events = none /\ pc = "opening"
  BY DEF Init
<1>2. Len(none) = 0 /\ none \in Seq(Chunk) /\ none \in Seq(Line) /\ none \in Seq(Frames)
      /\ none \in Seq(Nat) /\ none \in Seq(Types)
  OBVIOUS
<1>3. Untyped \in Types /\ HandedTo(sent, 0) = none
  BY HandedFirst DEF Types
<1>4. \A i \in 1..Len(none) : FALSE
  BY <1>2
<1> HIDE DEF none
<1>5. OneFrame
  BY <1>1, <1>2 DEF OneFrame, none
<1>6. Rows
  BY <1>1, <1>2, <1>4 DEF Rows
<1>7. completed \in Nat /\ completed <= Len(sent)
  BY <1>1, <1>2
<1> QED
  BY <1>1, <1>2, <1>3, <1>5, <1>6, <1>7 DEF StreamInv

\* A frame more on its way changes nothing of those read.
LEMMA ReadsSame ==
  ASSUME NEW s \in Seq(Frames), NEW f \in Frames, NEW k \in 0..Len(s)
  PROVE  /\ \A n \in 1..k : Reads(Append(s, f), n) = Reads(s, n)
         /\ HandedTo(Append(s, f), k) = HandedTo(s, k)
<1>1. \A n \in 1..k : Append(s, f)[n] = s[n]
  OBVIOUS
<1>2. \A n \in 1..k : Reads(Append(s, f), n) = Reads(s, n)
  BY <1>1 DEF Reads
<1>3. Good(Append(s, f), k) = Good(s, k)
  BY <1>2 DEF Good
<1> QED
  BY <1>2, <1>3 DEF HandedTo

LEMMA BodyStarts ==
  ASSUME NEW f \in Frames
  PROVE  Started(f, f.name, <<>>, Body(f)) /\ Body(f) # <<>>
<1> DEFINE none == <<>>
           b    == Body(f)
<1>1. /\ b \in Seq(Line) /\ f.chunks \in Seq(Chunk) /\ Len(none) = 0
      /\ Len(f.chunks) \in Nat
  BY BodyIs
<1>2. CASE f.chunks = <<>>
  <2>1. b = <<Data("comment"), Data("blank")>>
    BY <1>2, BodyIs
  <2> QED
    BY <1>2, <2>1 DEF Started
<1>3. CASE f.chunks # <<>>
  <2>1. /\ Len(b) = Len(f.chunks) + 1 /\ b[Len(f.chunks) + 1] = Data("blank")
        /\ \A i \in 1..Len(f.chunks) : b[i] = f.chunks[i]
    BY <1>3, BodyIs
  <2> HIDE DEF b, none
  <2>2. Remains(f, none, b)
    BY <1>1, <2>1 DEF Remains
  <2>3. b # <<>>
    BY <1>1, <2>1
  <2> QED
    BY <2>2, <2>3 DEF Started, b, none
<1> QED
  BY <1>2, <1>3

LEMMA LinesCome ==
  ASSUME NEW f \in Frames
  PROVE  Coming(f, Untyped, <<>>, Lines(f))
<1>1. CASE f.name # Untyped
  BY <1>1 DEF Coming
<1>2. CASE f.name = Untyped
  <2>1. Lines(f) = Body(f)
    BY <1>2, LinesAre
  <2> QED
    BY <1>2, <2>1, BodyStarts DEF Coming
<1> QED
  BY <1>1, <1>2

\* What becomes of the next line.
Taken(f, n, p, w, h, r) ==
  /\ h \in {Named(t) : t \in Types} => Coming(f, h.type, p, r) /\ r # <<>>
  /\ h = Data("comment") => Coming(f, n, p, r) /\ r # <<>>
  /\ h \in Chunk         => Coming(f, n, Append(p, h), r) /\ r # <<>>
  /\ h = Data("blank")   => r = <<>> /\ n = f.name /\ p = f.chunks

LEMMA TakeLine ==
  ASSUME NEW f \in Frames, NEW n, NEW p \in Seq(Chunk), NEW w \in Seq(Line), w # <<>>,
         Coming(f, n, p, w)
  PROVE  Taken(f, n, p, w, Head(w), Tail(w))
<1> DEFINE h == Head(w)
           r == Tail(w)
<1>1. /\ h = w[1] /\ r \in Seq(Line) /\ Len(w) \in Nat /\ Len(w) >= 1 /\ Len(r) = Len(w) - 1
      /\ \A i \in 1..(Len(w) - 1) : r[i] = w[i + 1]
  OBVIOUS
<1> HIDE DEF h, r
<1>2. f.chunks \in Seq(Chunk) /\ Len(f.chunks) \in Nat /\ f.name \in Types /\ Len(p) \in Nat
  BY BodyIs
<1>3. CASE f.name # Untyped /\ n = Untyped /\ p = <<>> /\ w = Lines(f)
  <2>1. h = Named(f.name) /\ r = Body(f)
    BY <1>3, LinesAre DEF h, r
  <2>2. h.type = f.name /\ h # Data("comment") /\ h # Data("blank") /\ h \notin Chunk
    BY <1>2, <2>1, LineKinds
  <2>3. Coming(f, h.type, p, r) /\ r # <<>>
    BY <1>3, <2>1, <2>2, BodyStarts DEF Coming
  <2> QED
    BY <2>2, <2>3 DEF Taken, h, r
<1>4. CASE n = f.name /\ f.chunks = <<>> /\ p = <<>> /\ w = <<Data("comment"), Data("blank")>>
  <2>1. Len(w) = 2 /\ w[1] = Data("comment") /\ w[2] = Data("blank")
    BY <1>4
  <2>2. h = Data("comment") /\ Len(r) = 1 /\ r[1] = Data("blank")
    BY <1>1, <2>1
  <2>3. Len(f.chunks) = 0 /\ Len(p) = 0
    BY <1>4
  <2>4. Remains(f, p, r)
    BY <2>2, <2>3 DEF Remains
  <2>5. r # <<>>
    BY <1>1, <2>2
  <2>6. h # Data("blank") /\ h \notin Chunk /\ h \notin {Named(t) : t \in Types}
    BY <2>2, LineKinds
  <2> QED
    BY <1>4, <2>4, <2>5, <2>6 DEF Taken, Coming, Started, h, r
<1>5. CASE n = f.name /\ Remains(f, p, w)
  <2> DEFINE m == Len(f.chunks)
             k == Len(p)
  <2>1. m \in Nat /\ k \in Nat
    BY <1>2
  <2>2. /\ k <= m /\ Len(w) = m - k + 1
        /\ \A i \in 1..k : p[i] = f.chunks[i]
        /\ \A i \in 1..(m - k) : w[i] = f.chunks[k + i]
        /\ w[m - k + 1] = Data("blank")
    BY <1>5 DEF Remains
  <2>3. CASE k = m
    <3>1. h = Data("blank")
      BY <1>1, <2>1, <2>2, <2>3
    <3>2. Len(r) = 0
      BY <1>1, <2>1, <2>2, <2>3
    <3>3. r = <<>>
      BY <1>1, <3>2
    <3>4. p = f.chunks
      BY <1>2, <2>2, <2>3, SeqEqual
    <3>5. h # Data("comment") /\ h \notin Chunk /\ h \notin {Named(t) : t \in Types}
      BY <3>1, LineKinds
    <3> QED
      BY <1>5, <3>3, <3>4, <3>5 DEF Taken, h, r
  <2>4. CASE k # m
    <3>1. 1 \in 1..(m - k) /\ k + 1 \in 1..m
      BY <2>1, <2>2, <2>4
    <3>2. h = f.chunks[k + 1] /\ h \in Chunk
      <4>1. w[1] = f.chunks[k + 1]
        <5> HIDE DEF m, k
        <5> QED
          BY <2>2, <3>1
      <4>2. f.chunks[k + 1] \in Chunk
        <5>1. f.chunks \in Seq(Chunk) /\ k + 1 \in 1..Len(f.chunks)
          BY <1>2, <3>1
        <5> QED
          BY <5>1, ElementOfSeq, Zenon
      <4> QED
        BY <1>1, <4>1, <4>2
    <3>3. h # Data("comment") /\ h # Data("blank") /\ h \notin {Named(t) : t \in Types}
      BY <3>2, LineKinds
    <3> DEFINE q == Append(p, h)
    <3>4. Len(q) = k + 1 /\ q[k + 1] = h /\ \A i \in 1..k : q[i] = p[i]
      BY <3>2, AppendProperties
    <3> HIDE DEF q, m, k
    <3>5. Len(q) <= m /\ Len(r) = m - Len(q) + 1
      BY <1>1, <2>1, <2>2, <2>4, <3>4
    <3>6. \A i \in 1..Len(q) : q[i] = f.chunks[i]
      <4> TAKE i \in 1..Len(q)
      <4>1. i = k + 1 \/ i \in 1..k
        BY <2>1, <3>4
      <4> QED
        BY <2>2, <3>2, <3>4, <4>1
    <3>7. \A i \in 1..(m - Len(q)) : r[i] = f.chunks[Len(q) + i]
      <4> TAKE i \in 1..(m - Len(q))
      <4>1. i \in 1..(Len(w) - 1) /\ i + 1 \in 1..(m - k) /\ k + (i + 1) = Len(q) + i
        BY <2>1, <2>2, <2>4, <3>4
      <4>2. r[i] = w[i + 1] /\ w[i + 1] = f.chunks[k + (i + 1)]
        BY <1>1, <2>2, <4>1
      <4> QED
        BY <4>1, <4>2
    <3>8. r[m - Len(q) + 1] = Data("blank")
      <4>1. m - k \in 1..(Len(w) - 1) /\ m - Len(q) + 1 = m - k
        BY <2>1, <2>2, <2>4, <3>4
      <4>2. r[m - k] = w[m - k + 1]
        BY <1>1, <4>1
      <4> QED
        BY <2>2, <4>1, <4>2
    <3>9. Remains(f, q, r)
      BY <3>5, <3>6, <3>7, <3>8 DEF Remains, m
    <3>10. r # <<>>
      BY <1>1, <2>1, <2>2, <2>4
    <3> QED
      BY <1>5, <3>3, <3>9, <3>10 DEF Taken, Coming, Started, q, h, r
  <2> QED
    BY <2>3, <2>4
<1> QED
  BY <1>3, <1>4, <1>5 DEF Coming, Started

LEMMA StreamStep == StreamInv /\ [Next]_vars => StreamInv'
<1> SUFFICES ASSUME StreamInv, [Next]_vars PROVE StreamInv'
  OBVIOUS
<1>1. /\ name \in Types /\ payload \in Seq(Chunk) /\ wire \in Seq(Line) /\ sent \in Seq(Frames)
      /\ completed \in Nat /\ handed \in Seq(Nat) /\ events \in Seq(Types)
      /\ completed <= Len(sent) /\ Len(sent) \in Nat
      /\ pc \in {"opening", "reading", "subscribing", "dispatching", "over"}
      /\ Rows
  BY DEF StreamInv
\* Nothing but the place and the counts changes, and the stream goes on or ends.
<1>2. ASSUME UNCHANGED <<name, payload, wire, sent, completed, handed, events>>,
             \/ pc' = "over"
             \/ pc' = pc /\ frame' = frame
             \/ pc = "opening" /\ pc' = "reading"
             \/ pc = "subscribing" /\ pc' = "dispatching" /\ frame' = frame
             \/ pc = "dispatching" /\ pc' = "reading" /\ ~IsEvent(frame)
      PROVE  StreamInv'
  <2>1. Rows' /\ (pc # "over" => OneFrame')
    BY <1>1, <1>2 DEF StreamInv, Rows, OneFrame
  <2>2. pc = "over" => pc' = "over"
    BY <1>2
  <2>3. CASE pc = "dispatching" /\ pc' = "reading" /\ ~IsEvent(frame)
    <3>1. completed - 1 \in Nat /\ (completed - 1) + 1 = completed
          /\ frame = Reads(sent, completed) /\ handed = HandedTo(sent, completed - 1)
      BY <1>1, <2>3 DEF StreamInv
    <3>2. handed = HandedTo(sent, completed)
      BY <2>3, <3>1, HandedNext
    <3> QED
      BY <1>1, <1>2, <2>1, <2>3, <3>2 DEF StreamInv
  <2>4. CASE pc' = "over"
    BY <1>1, <1>2, <2>1, <2>4 DEF StreamInv
  <2>5. CASE pc' = pc /\ frame' = frame
    BY <1>1, <1>2, <2>1, <2>5 DEF StreamInv
  <2>6. CASE pc = "opening" /\ pc' = "reading"
    BY <1>1, <1>2, <2>1, <2>6 DEF StreamInv
  <2>7. CASE pc = "subscribing" /\ pc' = "dispatching" /\ frame' = frame
    BY <1>1, <1>2, <2>1, <2>7 DEF StreamInv
  <2> QED
    BY <1>2, <2>3, <2>4, <2>5, <2>6, <2>7
<1>3. ASSUME NEW f \in Frames, Send(f) PROVE StreamInv'
  <2>1. /\ wire = <<>> /\ wire' = Lines(f) /\ sent' = Append(sent, f)
        /\ UNCHANGED <<pc, name, payload, frame, completed, handed, events>>
    BY <1>3 DEF Send, assembly, seen
  <2>2. /\ sent' \in Seq(Frames) /\ Len(sent') = Len(sent) + 1 /\ sent'[Len(sent) + 1] = f
        /\ completed \in 0..Len(sent)
    BY <1>1, <2>1
  <2>3. /\ \A n \in 1..completed : Reads(sent', n) = Reads(sent, n)
        /\ HandedTo(sent', completed) = HandedTo(sent, completed)
    BY <1>1, <2>1, <2>2, ReadsSame
  <2>4. completed > 0 => HandedTo(sent', completed - 1) = HandedTo(sent, completed - 1)
    <3> SUFFICES ASSUME completed > 0
                 PROVE  HandedTo(sent', completed - 1) = HandedTo(sent, completed - 1)
      OBVIOUS
    <3>1. completed - 1 \in 0..Len(sent)
      BY <1>1
    <3> QED
      BY <1>1, <2>1, <3>1, ReadsSame
  <2>5. Rows'
    BY <1>1, <2>1, <2>3 DEF Rows
  <2>6. pc' # "over" => OneFrame'
    <3> SUFFICES ASSUME pc # "over" PROVE OneFrame'
      BY <2>1
    <3>1. completed = Len(sent) /\ name = Untyped /\ payload = <<>>
      BY <2>1 DEF StreamInv, OneFrame
    <3>2. Lines(f) # <<>>
      BY LinesAre
    <3>3. Coming(f, name', payload', wire')
      BY <2>1, <3>1, LinesCome
    <3>4. Len(sent') = completed' + 1 /\ sent'[Len(sent')] = f
      BY <1>1, <2>1, <2>2, <3>1
    <3> QED
      BY <2>1, <3>2, <3>3, <3>4 DEF OneFrame
  <2>7. wire' \in Seq(Line)
    BY <2>1, LinesAre
  <2>8. completed' <= Len(sent')
    BY <1>1, <2>1, <2>2
  <2>9. pc' \in {"subscribing", "dispatching"} =>
          /\ completed' > 0 /\ frame' = Reads(sent', completed')
          /\ handed' = HandedTo(sent', completed' - 1)
          /\ \A i \in 1..Len(handed') : handed'[i] < completed'
    <3> SUFFICES ASSUME pc \in {"subscribing", "dispatching"}
                 PROVE  /\ completed > 0 /\ frame = Reads(sent', completed)
                        /\ handed = HandedTo(sent', completed - 1)
                        /\ \A i \in 1..Len(handed) : handed[i] < completed
      BY <2>1
    <3>1. /\ completed > 0 /\ frame = Reads(sent, completed)
          /\ handed = HandedTo(sent, completed - 1)
          /\ \A i \in 1..Len(handed) : handed[i] < completed
      BY DEF StreamInv
    <3>2. completed \in 1..completed
      BY <1>1, <3>1
    <3> QED
      BY <2>3, <2>4, <3>1, <3>2
  <2> QED
    BY <1>1, <2>1, <2>2, <2>3, <2>5, <2>6, <2>7, <2>8, <2>9 DEF StreamInv
\* A line taken in the loop.
<1>4. ASSUME NEW kinds, NextLine(kinds)
      PROVE  /\ pc = "reading" /\ wire # <<>> /\ wire' = Tail(wire) /\ wire' \in Seq(Line)
             /\ Head(wire) \in kinds /\ sent' = sent
             /\ Len(sent) = completed + 1 /\ sent[Len(sent)] \in Frames
             /\ Taken(sent[Len(sent)], name, payload, wire, Head(wire), Tail(wire))
  <2>1. pc = "reading" /\ wire # <<>> /\ Head(wire) \in kinds /\ wire' = Tail(wire) /\ sent' = sent
    BY <1>4 DEF NextLine
  <2>2. Len(sent) = completed + 1 /\ Coming(sent[Len(sent)], name, payload, wire)
    BY <2>1 DEF StreamInv, OneFrame
  <2>3. sent[Len(sent)] \in Frames
    <3>1. Len(sent) \in 1..Len(sent)
      BY <1>1, <2>2
    <3> QED
      BY <1>1, <3>1
  <2>4. Taken(sent[Len(sent)], name, payload, wire, Head(wire), Tail(wire))
    BY <1>1, <2>1, <2>2, <2>3, TakeLine
  <2>5. Tail(wire) \in Seq(Line)
    BY <1>1, <2>1
  <2> QED
    BY <2>1, <2>2, <2>3, <2>4, <2>5
\* A line of the frame that does not end it.
<1>5. ASSUME NEW kinds, NextLine(kinds), UNCHANGED <<pc, frame, completed, handed, events>>,
             wire' # <<>>, Coming(sent[Len(sent)], name', payload', wire'),
             name' \in Types, payload' \in Seq(Chunk)
      PROVE  StreamInv'
  <2>1. pc = "reading" /\ sent' = sent /\ wire' \in Seq(Line) /\ Len(sent) = completed + 1
    BY <1>4, <1>5
  <2>2. OneFrame'
    BY <1>5, <2>1 DEF OneFrame
  <2>3. Rows'
    BY <1>1, <1>5, <2>1 DEF Rows
  <2> QED
    BY <1>1, <1>5, <2>1, <2>2, <2>3 DEF StreamInv
<1>6. CASE ReadComment
  <2>1. /\ NextLine({Data("comment")})
        /\ UNCHANGED <<pc, frame, name, payload, completed, handed, events>>
    BY <1>6 DEF ReadComment, assembly, seen
  <2>2. wire' # <<>> /\ Coming(sent[Len(sent)], name', payload', wire')
    <3>1. /\ Head(wire) = Data("comment") /\ wire' = Tail(wire)
          /\ Taken(sent[Len(sent)], name, payload, wire, Head(wire), Tail(wire))
      BY <1>4, <2>1
    <3>2. Coming(sent[Len(sent)], name, payload, Tail(wire)) /\ Tail(wire) # <<>>
      BY <3>1, Zenon DEF Taken
    <3>3. name' = name /\ payload' = payload /\ sent' = sent
      BY <1>4, <2>1
    <3> QED
      BY <3>1, <3>2, <3>3
  <2> QED
    BY <1>1, <1>5, <2>1, <2>2
<1>7. CASE ReadName
  <2>1. /\ NextLine({Named(t) : t \in Types}) /\ name' = Head(wire).type
        /\ UNCHANGED <<pc, frame, payload, completed, handed, events>>
    BY <1>7 DEF ReadName, seen
  <2>2. wire' # <<>> /\ Coming(sent[Len(sent)], name', payload', wire')
    <3>1. /\ Head(wire) \in {Named(t) : t \in Types} /\ wire' = Tail(wire)
          /\ Taken(sent[Len(sent)], name, payload, wire, Head(wire), Tail(wire))
      BY <1>4, <2>1
    <3>2. /\ Coming(sent[Len(sent)], Head(wire).type, payload, Tail(wire))
          /\ Tail(wire) # <<>>
      BY <3>1, Zenon DEF Taken
    <3>3. name' = Head(wire).type /\ payload' = payload /\ sent' = sent
      BY <1>4, <2>1
    <3> QED
      BY <3>1, <3>2, <3>3
  <2>3. name' \in Types
    <3>1. PICK t \in Types : Head(wire) = Named(t)
      BY <1>4, <2>1
    <3> QED
      BY <2>1, <3>1, LineKinds
  <2> QED
    BY <1>1, <1>5, <2>1, <2>2, <2>3
<1>8. CASE ReadData
  <2>1. /\ NextLine(Chunk) /\ UNCHANGED <<name, frame, completed, handed, events>>
        /\ \/ pc' = "over" /\ payload' = payload
           \/ pc' = pc /\ payload' = Append(payload, Head(wire))
    BY <1>8 DEF ReadData, End, seen
  <2>2. CASE pc' = "over" /\ payload' = payload
    <3>1. sent' = sent /\ wire' \in Seq(Line)
      BY <1>4, <2>1
    <3>2. Rows'
      BY <1>1, <2>1, <3>1 DEF Rows
    <3> QED
      BY <1>1, <2>1, <2>2, <3>1, <3>2 DEF StreamInv
  <2>3. CASE pc' = pc /\ payload' = Append(payload, Head(wire))
    <3>1. Head(wire) \in Chunk
      BY <1>4, <2>1
    <3>2. wire' # <<>> /\ Coming(sent[Len(sent)], name', payload', wire')
      BY <1>4, <2>1, <2>3, <3>1 DEF Taken
    <3>3. payload' \in Seq(Chunk)
      BY <1>1, <2>3, <3>1
    <3> QED
      BY <1>1, <1>5, <2>1, <2>3, <3>2, <3>3
  <2> QED
    BY <2>1, <2>2, <2>3
<1>9. CASE ReadBlank
  <2> DEFINE f == sent[Len(sent)]
  <2>1. /\ NextLine({Data("blank")}) /\ frame' = decodeFrame(name, payload)
        /\ name' = Untyped /\ payload' = <<>> /\ completed' = completed + 1
        /\ pc' \in {"dispatching", "subscribing"}
        /\ UNCHANGED <<handed, events>>
    BY <1>9 DEF ReadBlank, TakeFrame
  <2>2. /\ pc = "reading" /\ sent' = sent /\ Len(sent) = completed + 1 /\ wire' = <<>>
        /\ name = f.name /\ payload = f.chunks /\ wire' \in Seq(Line)
    BY <1>4, <2>1 DEF Taken
  <2>3. frame' = Reads(sent', completed')
    BY <2>1, <2>2 DEF Reads
  <2>4. handed' = HandedTo(sent', completed' - 1)
    <3>1. completed' - 1 = completed /\ handed = HandedTo(sent, completed)
      BY <1>1, <2>1, <2>2 DEF StreamInv
    <3> QED
      BY <2>1, <2>2, <3>1
  <2>5. \A i \in 1..Len(handed') : handed'[i] < completed'
    BY <1>1, <2>1 DEF Rows
  <2>6. Rows'
    <3>1. \A i \in 1..Len(handed) : handed[i] \in 1..completed'
      BY <1>1, <2>1 DEF Rows
    <3> QED
      BY <1>1, <2>1, <2>2, <3>1 DEF Rows
  <2>7. OneFrame'
    BY <2>1, <2>2 DEF OneFrame
  <2>8. Untyped \in Types /\ name' \in Types /\ payload' \in Seq(Chunk)
    BY <2>1 DEF Types
  <2>9. completed' \in Nat /\ completed' > 0 /\ completed' <= Len(sent')
    BY <1>1, <2>1, <2>2
  <2> QED
    BY <1>1, <2>1, <2>2, <2>3, <2>4, <2>5, <2>6, <2>7, <2>8, <2>9 DEF StreamInv
<1>10. CASE YieldEvent
  <2>1. /\ pc = "dispatching" /\ IsEvent(frame) /\ handed' = Append(handed, completed)
        /\ events' = Append(events, frame) /\ pc' \in {"reading", "over"}
        /\ UNCHANGED <<name, payload, frame, wire, sent, completed>>
    BY <1>10 DEF YieldEvent, GoOn, End, assembly, server
  <2>2. /\ completed > 0 /\ frame = Reads(sent, completed)
        /\ handed = HandedTo(sent, completed - 1)
        /\ \A i \in 1..Len(handed) : handed[i] < completed
    BY <2>1 DEF StreamInv
  <2>3. sent[completed] \in Frames
    <3>1. completed \in 1..Len(sent)
      BY <1>1, <2>2
    <3> QED
      BY <1>1, <3>1
  <2>4. frame \in Types
    BY <2>1, <2>2, <2>3, DecodeSays DEF Reads, Says
  <2>5. handed' = HandedTo(sent, completed)
    <3>1. completed - 1 \in Nat /\ (completed - 1) + 1 = completed
      BY <1>1, <2>2
    <3> QED
      BY <2>1, <2>2, <3>1, HandedNext
  <2>6. OneFrame'
    BY <2>1 DEF StreamInv, OneFrame
  <2>7. handed' \in Seq(Nat) /\ events' \in Seq(Types)
    BY <1>1, <2>1, <2>4
  <2>8. Rows'
    <3> DEFINE k == Len(handed)
    <3>1. /\ k \in Nat /\ Len(handed') = k + 1 /\ Len(events') = k + 1 /\ Len(events) = k
          /\ handed'[k + 1] = completed /\ \A i \in 1..k : handed'[i] = handed[i]
      BY <1>1, <2>1 DEF Rows
    <3>2. events'[k + 1] = frame /\ \A i \in 1..k : events'[i] = events[i]
      BY <1>1, <2>1, <2>4, <3>1
    <3> HIDE DEF k
    <3>3. ASSUME NEW i \in 1..(k + 1)
          PROVE  /\ handed'[i] \in 1..completed /\ IsEvent(Reads(sent, handed'[i]))
                 /\ events'[i] = Reads(sent, handed'[i])
                 /\ i > 1 => handed'[i - 1] < handed'[i]
      <4>1. CASE i = k + 1
        <5>1. handed'[i] \in 1..completed
          BY <1>1, <2>2, <3>1, <4>1
        <5>2. i > 1 => handed'[i - 1] < handed'[i]
          <6> SUFFICES ASSUME i > 1 PROVE handed'[i - 1] < handed'[i]
            OBVIOUS
          <6>1. i - 1 \in 1..k
            BY <3>1, <4>1
          <6>2. handed'[i - 1] = handed[i - 1] /\ handed[i - 1] < completed
            BY <2>2, <3>1, <6>1 DEF k
          <6> QED
            BY <3>1, <4>1, <6>2
        <5> QED
          BY <2>1, <2>2, <3>1, <3>2, <4>1, <5>1, <5>2
      <4>2. CASE i \in 1..k
        <5>1. i > 1 => i - 1 \in 1..k
          BY <3>1, <4>2
        <5> QED
          BY <1>1, <3>1, <3>2, <4>2, <5>1 DEF Rows, k
      <4> QED
        BY <3>1, <4>1, <4>2
    <3> QED
      BY <2>1, <3>1, <3>3 DEF Rows
  <2> QED
    BY <1>1, <2>1, <2>5, <2>6, <2>7, <2>8 DEF StreamInv
<1>11. CASE Open \/ BodyEnds \/ OnSubscribed \/ SkipFrame \/ IgnoreEmpty \/ SawDone
            \/ UNCHANGED vars
  <2>1. "undecodable" \in NoEvents /\ "empty" \in NoEvents
    BY DEF NoEvents
  <2> QED
    BY <1>2, <1>11, <2>1
       DEF Open, BodyEnds, OnSubscribed, SkipFrame, IgnoreEmpty, SawDone, GoOn, End, IsEvent,
           vars, assembly, server, seen
<1> QED
  BY <1>3, <1>6, <1>7, <1>8, <1>9, <1>10, <1>11 DEF Next, Read, Finished

\* HandedAsSent: the events handed over are those of the frames that arrived whole and can
\* be decoded, in the order sent, each as its own frame says (Stream, frameBuilder.take,
\* decodeFrame).
THEOREM HandedAsSentHolds == Spec => []HandedAsSent
<1>1. StreamInv => HandedAsSent
  <2> SUFFICES ASSUME StreamInv PROVE HandedAsSent
    OBVIOUS
  <2>1. sent \in Seq(Frames) /\ completed \in Nat /\ completed <= Len(sent) /\ Len(sent) \in Nat
        /\ Rows
    BY DEF StreamInv
  <2>2. \A n : Decoded(n) = Reads(sent, n) /\ (Decodable(n) <=> IsEvent(Reads(sent, n)))
    BY DEF Decoded, Decodable, Reads
  <2>3. ASSUME pc = "reading"
        PROVE  /\ handed = Only(Numbers(completed), {n \in 1..completed : Decodable(n)})
               /\ \A n \in 1..completed :
                    Newer(sent[n]) => \E i \in 1..Len(handed) : handed[i] = n
    <3>1. handed = HandedTo(sent, completed)
      BY <2>3 DEF StreamInv
    <3>2. Good(sent, completed) = {n \in 1..completed : Decodable(n)}
      BY <2>2 DEF Good
    <3>3. ASSUME NEW n \in 1..completed, Newer(sent[n])
          PROVE  \E i \in 1..Len(handed) : handed[i] = n
      <4>1. sent[n] \in Frames
        BY <2>1
      <4>2. IsEvent(Reads(sent, n))
        BY <3>3, <4>1, NewerDecodes DEF Reads
      <4> QED
        BY <2>1, <3>1, <4>2, HandedAll
    <3> QED
      BY <3>1, <3>2, <3>3 DEF HandedTo
  <2>4. ASSUME NEW i \in 1..Len(handed)
        PROVE  LET f == sent[handed[i]] IN
               /\ handed[i] <= Len(sent) /\ Decodable(handed[i]) /\ ~Broken(f)
               /\ i > 1 => handed[i - 1] < handed[i]
               /\ \A c \in 1..Len(f.chunks) : f.chunks[c].type \in {Untyped, events[i]}
               /\ Len(f.chunks) = 1 /\ f.chunks[1].type # Untyped =>
                    events[i] = DecodeEvent(f.chunks[1])
    <3> DEFINE n == handed[i]
               f == sent[n]
    <3>1. n \in 1..completed /\ IsEvent(Reads(sent, n)) /\ events[i] = Reads(sent, n)
          /\ (i > 1 => handed[i - 1] < handed[i])
      BY <2>1 DEF Rows
    <3>2. n <= Len(sent) /\ f \in Frames
      BY <2>1, <3>1
    <3> HIDE DEF n
    <3>3. Says(f.chunks, events[i])
      BY <3>1, <3>2, DecodeSays DEF Reads
    <3>4. DOMAIN f.chunks = 1..Len(f.chunks)
      BY <3>2, BodyIs
    <3>5. ~Broken(f)
      BY <3>3, <3>4 DEF Says, Broken
    <3>6. Decodable(n)
      BY <2>2, <3>1
    <3> HIDE DEF f
    <3> QED
      BY <3>1, <3>2, <3>3, <3>5, <3>6 DEF Says, f, n
  <2> QED
    BY <2>3, <2>4 DEF HandedAsSent
<1> QED
  BY <1>1, StreamInit, StreamStep, PTL DEF Spec

-----------------------------------------------------------------------------
(* Types. *)

\* What a frame decodes to, whatever it is made of.
LEMMA DecodeType ==
  ASSUME NEW named \in Types, NEW chunks \in Seq(Chunk)
  PROVE  decodeFrame(named, chunks) \in NoEvents \union Types
<1> DEFINE text == Only(chunks, NotSpace)
           type == Type(named, text[1])
<1>1. text \in Seq(Chunk)
  BY OnlyType
<1>2. \/ decodeFrame(named, chunks) \in {"empty", "done", "undecodable"}
      \/ text # <<>> /\ decodeFrame(named, chunks) = decodeByType(type, text[1].fits)
  <2>1. CASE text = <<>>
    BY <2>1 DEF decodeFrame, Parses
  <2>2. CASE text # <<>> /\ text = <<Data("DONE")>>
    BY <2>2 DEF decodeFrame
  <2>3. CASE text # <<>> /\ text # <<Data("DONE")>> /\ Parses(text) /\ type # Untyped
    BY <2>3 DEF decodeFrame
  <2>4. CASE text # <<>> /\ text # <<Data("DONE")>> /\ ~(Parses(text) /\ type # Untyped)
    BY <2>4 DEF decodeFrame
  <2> QED
    BY <2>1, <2>2, <2>3, <2>4
<1> HIDE DEF text
<1>3. text # <<>> => type \in Types
  <2>1. text # <<>> => text[1] \in Chunk
    <3>1. text # <<>> => 1 \in 1..Len(text)
      BY <1>1, EmptySeq
    <3> QED
      BY <1>1, <3>1
  <2> QED
    BY <2>1 DEF Type, Chunk
<1> HIDE DEF type
<1>4. text # <<>> => decodeByType(type, text[1].fits) \in NoEvents \union Types
  BY <1>3 DEF decodeByType, NoEvents
<1> QED
  BY <1>2, <1>4 DEF NoEvents

\* The rest of TypeOK.
Ends == {"none", "closed", "left", "protocol", "interrupted", "oversized", "hook", "refused"}
RestOK ==
  /\ frame \in NoEvents \union Types /\ subscribed \in BOOLEAN /\ delivered \in BOOLEAN
  /\ outcome \in Ends

LEMMA RestStep == StreamInv /\ RestOK /\ [Next]_vars => RestOK'
<1> SUFFICES ASSUME StreamInv, RestOK, [Next]_vars
             PROVE  RestOK'
  OBVIOUS
<1>1. CASE ReadBlank
  <2>1. decodeFrame(name, payload) \in NoEvents \union Types
    BY DecodeType DEF StreamInv
  <2> QED
    BY <1>1, <2>1 DEF ReadBlank, TakeFrame, RestOK
<1>2. CASE ReadData
  BY <1>2 DEF ReadData, End, counts, RestOK, Ends
<1>3. CASE Open \/ BodyEnds \/ OnSubscribed \/ SkipFrame \/ YieldEvent \/ SawDone
  BY <1>3 DEF Open, BodyEnds, OnSubscribed, SkipFrame, YieldEvent, SawDone, GoOn, End, assembly,
              counts, seen, RestOK, Ends
<1>4. ASSUME UNCHANGED <<frame, subscribed, delivered, outcome>>
      PROVE  RestOK'
  BY <1>4 DEF RestOK
<1>5. (\E f \in Frames : Send(f)) \/ ReadComment \/ ReadName \/ IgnoreEmpty \/ UNCHANGED vars
        => UNCHANGED <<frame, subscribed, delivered, outcome>>
  BY DEF Send, ReadComment, ReadName, IgnoreEmpty, assembly, counts, vars
<1> QED
  BY <1>1, <1>2, <1>3, <1>4, <1>5 DEF Next, Read, Finished

\* A stream's state has its types, whatever the server sends (Stream, decodeFrame).
THEOREM StreamTypes == Spec => []TypeOK
<1>1. Init => RestOK
  BY DEF Init, RestOK, NoEvents, Ends
<1>2. StreamInv /\ RestOK /\ Progress => TypeOK
  BY DEF StreamInv, RestOK, Progress, TypeOK, Ends
<1> QED
  BY <1>1, <1>2, StreamInit, StreamStep, RestStep, ProgressHolds, PTL DEF Spec
=============================================================================
