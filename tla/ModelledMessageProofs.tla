----------------------- MODULE ModelledMessageProofs -----------------------
(***************************************************************************)
(* Proofs about the modelled messages.  The inductive invariant has three  *)
(* parts: what the stream of a call that renders has gathered (FrameHolds),*)
(* how the calls under way nest (StackHolds), and what every call has done *)
(* so far, once each and in which order (PastHolds).  The folds the model  *)
(* is made of are known by what they do with one more element, from which  *)
(* induction on sequences gives what a stream gathers and what a reader    *)
(* makes of the attributes of a record.                                    *)
(***************************************************************************)
EXTENDS ModelledMessage, SequenceFolds

\* The attributes passed, and the pieces records are made of.
Passed == UNION {ToSet(attributes) : attributes \in Attributes}

Framework ==
    {IdPrefix, Separator, Colon, Quote, Backslash, AttributePrefix("Tag"),
        AttributePrefix("Location")}

Values == UNION {ToSet(a.value) : a \in Passed}

Lines == {a.line : a \in {b \in Passed : b.kind = "Location"}}

Pieces ==
    Framework \cup Texts \cup {m.id : m \in Messages} \cup Values \cup Lines

Solid == {p \in Pieces : p.size # 0}

\* The characters of values, and the lines.
Characters == {p \in Pieces : IsPlain(p)}

\* A stream that was created for a message.
StreamValues ==
    [logger : {Logger}, level : {m.level : m \in Messages}, enabled : BOOLEAN, failed : BOOLEAN,
     size : 0..Capacity, content : Seq(Pieces)]

\* The stream has the text so far, or has failed, because a null pointer was
\* written or because the text does not fit.
Gathers(stream, text, isNull) ==
    /\ stream.enabled
    /\ stream.failed => isNull \/ Bytes(text) > Capacity
    /\ ~stream.failed => /\ ~isNull
                         /\ stream.content = text /\ stream.size = Bytes(text)

WroteNull(frame) == NoText \in ToSet(frame.written)

\* The record of a call is submitted: it is rendered and complete.
IsComplete(frame) ==
    IsRendered(frame.message) /\ ~WroteNull(frame) /\ Bytes(RecordText(frame)) <= Capacity

FrameValues ==
    [call : Nat, message : Messages, attributes : Attributes,
     within : [call : Nat, step : {"Idle", "Render", "Trace"}],
     step : {"Render", "Trace"}, textStarted : BOOLEAN, written : Seq(Texts),
     stream : StreamValues \cup {Null}]

\* A call that renders has a stream, which gathers the text of its message; one
\* that traces has none.
FrameHolds(frame, n) ==
    /\ frame \in FrameValues /\ frame.call \in 1..n
    /\ frame.step = "Render" =>
         /\ frame.stream \in StreamValues /\ IsRendered(frame.message)
         /\ Gathers(frame.stream, MessageText(frame.message, frame.written), WroteNull(frame))
         /\ frame.textStarted <=> TextOf(frame.written) # <<>>
    /\ frame.step = "Trace" => frame.stream = Null /\ frame.message.toTrace

\* Where a call is made from that is made on top of these.
Within(stack) ==
    IF stack = <<>> THEN [call |-> 0, step |-> "Idle"]
    ELSE [call |-> stack[Len(stack)].call, step |-> stack[Len(stack)].step]

\* An inner call was made later, by the step its outer call is still in.
StackHolds(stack, n) ==
    /\ stack \in Seq(FrameValues)
    /\ \A m \in DOMAIN stack :
         /\ FrameHolds(stack[m], n)
         /\ \A l \in 1..(m - 1) : stack[l].call < stack[m].call
         /\ stack[m].within = IF m = 1 THEN [call |-> 0, step |-> "Idle"]
                              ELSE [call |-> stack[m - 1].call, step |-> stack[m - 1].step]

EventValues ==
    [kind : {"submit", "trace", "return"}, call : Nat,
     within : [call : Nat, step : {"Idle", "Render", "Trace"}], message : Messages,
     attributes : Attributes, written : Seq(Texts), content : Seq(Pieces)]

EventsIn(past, kind, call) == {i \in DOMAIN past : past[i].kind = kind /\ past[i].call = call}

\* It happened once, or not at all.
Happened(past, kind, call, once) ==
    IF once THEN \E i \in DOMAIN past : EventsIn(past, kind, call) = {i}
    ELSE EventsIn(past, kind, call) = {}

\* What a call under way has done.
HasDone(past, call, submitted, traced) ==
    /\ EventsIn(past, "return", call) = {}
    /\ Happened(past, "trace", call, traced)
    /\ Happened(past, "submit", call, submitted)

\* Before its record is complete it has done nothing, then what it must do before
\* it is traced.
FramesHaveDone(stack, past) ==
    \A m \in DOMAIN stack :
        HasDone(past, stack[m].call, stack[m].step = "Trace" /\ IsComplete(stack[m]),
                stack[m].step = "Trace")

\* A call that is over has done everything once.
ReturnsAreLast(past) ==
    \A i \in DOMAIN past :
        past[i].kind = "return" =>
          /\ EventsIn(past, "return", past[i].call) = {i}
          /\ Happened(past, "trace", past[i].call, past[i].message.toTrace)
          /\ Happened(past, "submit", past[i].call, IsComplete(past[i]))

RecordsMatch(past) ==
    \A i \in DOMAIN past : past[i].kind = "submit" => past[i].content = RecordText(past[i])

EventsAreOrdered(past) ==
    \A i, j \in DOMAIN past :
        /\ past[i].kind = "submit" /\ past[j].kind = "trace" /\ past[i].call = past[j].call => i < j
        /\ past[i].kind = "return" /\ past[j].kind \in {"submit", "trace"}
             /\ past[i].within = [call |-> past[j].call, step |-> "Render"] => i < j

PastHolds(stack, past, n) ==
    /\ past \in Seq(EventValues) /\ \A i \in DOMAIN past : past[i].call \in 1..n
    /\ FramesHaveDone(stack, past) /\ ReturnsAreLast(past)
    /\ RecordsMatch(past) /\ EventsAreOrdered(past)

Inv ==
    /\ calls \in 0..MaxCalls
    /\ StackHolds(frames, calls) /\ PastHolds(frames, history, calls)

\* Every piece has a size; the pieces of IDs, attributes and of the framework are
\* not empty.
LEMMA PiecesAreTyped ==
    /\ \A p \in Pieces : p.size \in Nat
    /\ NoText \notin Solid /\ Solid \subseteq Pieces
    /\ Framework \subseteq Solid
    /\ \A m \in Messages : m.id \in Solid
<1>1. \A p \in Framework : p.size = 1
  <2>1. \A text : Literal(text).size = 1
    BY DEF Literal
  <2>2. AttributePrefix("Tag").size = 1 /\ AttributePrefix("Location").size = 1
    BY <2>1 DEF AttributePrefix
  <2> QED
    BY <2>1, <2>2 DEF Framework, IdPrefix, Separator, Colon, Quote, Backslash
<1>2. ASSUME NEW a \in Passed
      PROVE  /\ \A c \in ToSet(a.value) : c.size \in Nat
             /\ a.kind = "Location" => a.line.size \in Nat
  BY AttributesAssumption DEF Passed, IsPlain
<1>3. \A p \in Pieces : p.size \in Nat
  <2>1. \A p \in Texts \cup {m.id : m \in Messages} : p.size \in Nat
    BY TextsAssumption, MessagesAssumption
  <2>2. \A p \in Values : p.size \in Nat
    BY <1>2 DEF Values
  <2>3. \A p \in Lines : p.size \in Nat
    BY <1>2 DEF Lines
  <2> QED
    BY <1>1, <2>1, <2>2, <2>3 DEF Pieces
<1>4. NoText.size = 0
  BY DEF NoText
<1>5. \A m \in Messages : m.id \in Solid
  BY MessagesAssumption DEF Solid, Pieces
<1>6. Framework \subseteq Solid
  BY <1>1 DEF Solid, Pieces
<1> QED
  BY <1>3, <1>4, <1>5, <1>6 DEF Solid

\* An attribute is one of those passed; what it adds is not empty, and does not
\* look like a prefix.
LEMMA AttributesAreTyped ==
    /\ \A attributes \in Attributes : attributes \in Seq(Passed)
    /\ \A a \in Passed :
         /\ a.kind \in {"Location", "Tag"}
         /\ a.value \in Seq(Characters)
         /\ a.kind = "Location" => a.line \in Characters \ {Quote, Backslash}
    /\ Characters \subseteq Solid
<1>1. ASSUME NEW attributes \in Attributes PROVE attributes \in Seq(Passed)
  <2>1. attributes \in Seq(ToSet(attributes)) /\ ToSet(attributes) \subseteq Passed
    BY AttributesAssumption DEF Passed
  <2> QED
    BY <2>1
<1>2. ASSUME NEW a \in Passed
      PROVE  /\ a.kind \in {"Location", "Tag"}
             /\ a.value \in Seq(ToSet(a.value)) /\ \A c \in ToSet(a.value) : IsPlain(c)
             /\ a.kind = "Location" => IsPlain(a.line) /\ a.line \notin {Quote, Backslash}
  BY AttributesAssumption DEF Passed
<1>3. \A a \in Passed : a.kind = "Location" => a.line \in Characters \ {Quote, Backslash}
  <2>1. ASSUME NEW a \in Passed, a.kind = "Location" PROVE a.line \in Pieces
    <3>1. a.line \in Lines
      BY <2>1 DEF Lines
    <3> QED
      BY <3>1 DEF Pieces
  <2> QED
    BY <1>2, <2>1 DEF Characters
<1>4. ASSUME NEW a \in Passed PROVE a.value \in Seq(Characters)
  <2>1. ToSet(a.value) \subseteq Characters
    BY <1>2 DEF Characters, Pieces, Values
  <2> QED
    BY <1>2, <2>1
<1>5. Characters \subseteq Solid
  BY DEF Characters, Solid, IsPlain
<1> QED
  BY <1>1, <1>2, <1>3, <1>4, <1>5

-----------------------------------------------------------------------------
(* The folds of the module: what they do with one more element *)

\* Escaping a value, character by character.
LEMMA EscapeFolds ==
    /\ Escape(<<>>) = <<>>
    /\ \A s \in Seq(Solid) : Escape(s) \in Seq(Pieces)
    /\ \A s \in Seq(Solid) : \A e \in Solid : Escape(Append(s, e)) = Escape(s) \o EscapedCharacter(e)
<1> DEFINE h == [e \in Solid |-> [x \in Seq(Pieces) |-> x \o EscapedCharacter(e)]]
<1> DEFINE F == [s \in Seq(Solid) |-> Escape(s)]
<1>1. ASSUME NEW e \in Solid, NEW x \in Seq(Pieces) PROVE x \o EscapedCharacter(e) \in Seq(Pieces)
  BY PiecesAreTyped DEF EscapedCharacter, Framework
<1>2. <<>> \in Seq(Pieces)
  OBVIOUS
<1>3. \A e \in Solid : \A x \in Seq(Pieces) : h[e][x] = x \o EscapedCharacter(e)
  OBVIOUS
<1>4. h \in [Solid -> [Seq(Pieces) -> Seq(Pieces)]]
  BY <1>1
<1> HIDE DEF h
<1>5. ASSUME NEW s \in Seq(Solid) PROVE FoldsTo(Escape(s), Len(s), <<>>, AtPlaces(h, s), Seq(Pieces))
  <2> DEFINE n == Len(s)
  <2> DEFINE g == AtPlaces(h, s)
  <2> DEFINE Fold(f) == [t \in SUBSET DOMAIN s |->
                           IF t = {} THEN <<>>
                           ELSE LET x == Max(t) IN f[t \ {x}] \o EscapedCharacter(s[x])]
  <2> DEFINE fold == CHOOSE f : f = Fold(f)
  <2>1. n \in Nat /\ DOMAIN s = 1..n /\ \A i \in 1..n : s[i] \in Solid
    OBVIOUS
  <2>2. \A i \in 1..n : \A x \in Seq(Pieces) : g[i][x] = x \o EscapedCharacter(s[i])
    BY <1>3, <2>1 DEF AtPlaces
  <2>3. g \in [1..n -> [Seq(Pieces) -> Seq(Pieces)]]
    BY <1>4, <2>1 DEF AtPlaces
  <2>4. Escape(s) = fold[DOMAIN s]
    BY DEF Escape, FoldLeft, MapThenFoldSet
  <2> HIDE DEF g, n, fold
  <2>5. PICK r \in [SUBSET (1..n) -> Seq(Pieces)] : FoldsUpTo(r, n, <<>>, g)
    BY <1>2, <2>1, <2>3, FoldExists
  <2>6. r = Fold(r)
    <3>1. ASSUME NEW t \in SUBSET (1..n), t # {}
          PROVE  g[Max(t)][r[t \ {Max(t)}]] = r[t \ {Max(t)}] \o EscapedCharacter(s[Max(t)])
      <4>1. Max(t) \in 1..n /\ t \ {Max(t)} \in SUBSET (1..n)
        BY <2>1, <3>1, LastPlace
      <4> QED
        BY <2>2, <4>1
    <3> QED
      BY <2>1, <2>5, <3>1 DEF FoldsUpTo
  <2>7. fold = Fold(fold)
    <3> HIDE DEF Fold
    <3> QED
      BY <2>6 DEF fold
  <2>8. fold[{}] = <<>>
    BY <2>7
  <2>9. ASSUME NEW t \in SUBSET (1..n), t # {}, fold[t \ {Max(t)}] \in Seq(Pieces)
        PROVE  fold[t] = g[Max(t)][fold[t \ {Max(t)}]]
    <3>1. Max(t) \in 1..n
      BY <2>1, <2>9, LastPlace
    <3>2. fold[t] = fold[t \ {Max(t)}] \o EscapedCharacter(s[Max(t)])
      BY <2>1, <2>7, <2>9
    <3> QED
      BY <2>2, <2>9, <3>1, <3>2
  <2>10. Computes(fold, n, <<>>, g, Seq(Pieces))
    BY <2>8, <2>9 DEF Computes
  <2>11. FoldsTo(fold[1..n], n, <<>>, g, Seq(Pieces))
    BY <1>2, <2>1, <2>3, <2>10, FoldRuns
  <2> QED
    BY <2>1, <2>4, <2>11 DEF g, n
<1>6. FoldsAll(F, Solid, <<>>, h, Seq(Pieces))
  BY <1>5 DEF FoldsAll
<1>7. \A s \in Seq(Solid) : F[s] = Escape(s)
  OBVIOUS
<1>8. <<>> \in Seq(Solid) /\ \A s \in Seq(Solid) : \A e \in Solid : Append(s, e) \in Seq(Solid)
  OBVIOUS
<1> HIDE DEF F
<1>9. /\ F[<<>>] = <<>>
      /\ \A s \in Seq(Solid) : F[s] \in Seq(Pieces)
      /\ \A s \in Seq(Solid) : \A e \in Solid : F[Append(s, e)] = h[e][F[s]]
  BY <1>6, FoldSteps DEF StepsThrough
<1>10. Escape(<<>>) = <<>>
  BY <1>7, <1>8, <1>9
<1>11. \A s \in Seq(Solid) : Escape(s) \in Seq(Pieces)
  BY <1>7, <1>9
<1>12. \A s \in Seq(Solid) : \A e \in Solid : Escape(Append(s, e)) = Escape(s) \o EscapedCharacter(e)
  <2> SUFFICES ASSUME NEW s \in Seq(Solid), NEW e \in Solid
               PROVE  Escape(Append(s, e)) = Escape(s) \o EscapedCharacter(e)
    OBVIOUS
  <2>1. F[Append(s, e)] = h[e][F[s]]
    BY <1>9
  <2>2. F[Append(s, e)] = Escape(Append(s, e)) /\ F[s] = Escape(s) /\ Escape(s) \in Seq(Pieces)
    BY <1>7, <1>8, <1>11
  <2> QED
    BY <1>3, <2>1, <2>2
<1> QED
  BY <1>10, <1>11, <1>12

\* The text of an attribute consists of pieces.
LEMMA AttributeTextIsTyped ==
    ASSUME NEW a \in Passed
    PROVE  AttributeText(a) \in Seq(Pieces)
<1>1. Escape(a.value) \in Seq(Pieces)
  <2>1. a.value \in Seq(Solid)
    BY AttributesAreTyped
  <2> QED
    BY <2>1, EscapeFolds
<1>2. <<AttributePrefix(a.kind)>> \in Seq(Pieces) /\ <<Quote>> \in Seq(Pieces)
  BY AttributesAreTyped, PiecesAreTyped DEF Framework
<1>3. (IF a.kind = "Location" THEN <<Colon, a.line>> ELSE <<>>) \in Seq(Pieces)
  <2>1. CASE a.kind = "Location"
    <3>1. Colon \in Pieces /\ a.line \in Pieces
      BY <2>1, AttributesAreTyped, PiecesAreTyped DEF Characters, Framework
    <3> QED
      BY <2>1, <3>1
  <2>2. CASE a.kind # "Location"
    BY <2>2
  <2> QED
    BY <2>1, <2>2
<1> QED
  BY <1>1, <1>2, <1>3 DEF AttributeText

\* The text of attributes, one by one.
LEMMA AttributesTextFolds ==
    /\ AttributesText(<<>>) = <<>>
    /\ \A s \in Seq(Passed) : AttributesText(s) \in Seq(Pieces)
    /\ \A s \in Seq(Passed) : \A e \in Passed :
           AttributesText(Append(s, e)) = AttributesText(s) \o AttributeText(e)
<1> DEFINE h == [e \in Passed |-> [x \in Seq(Pieces) |-> x \o AttributeText(e)]]
<1> DEFINE F == [s \in Seq(Passed) |-> AttributesText(s)]
<1>1. ASSUME NEW e \in Passed, NEW x \in Seq(Pieces) PROVE x \o AttributeText(e) \in Seq(Pieces)
  BY AttributeTextIsTyped
<1>2. <<>> \in Seq(Pieces)
  OBVIOUS
<1>3. \A e \in Passed : \A x \in Seq(Pieces) : h[e][x] = x \o AttributeText(e)
  OBVIOUS
<1>4. h \in [Passed -> [Seq(Pieces) -> Seq(Pieces)]]
  BY <1>1
<1> HIDE DEF h
<1>5. ASSUME NEW s \in Seq(Passed)
      PROVE  FoldsTo(AttributesText(s), Len(s), <<>>, AtPlaces(h, s), Seq(Pieces))
  <2> DEFINE n == Len(s)
  <2> DEFINE g == AtPlaces(h, s)
  <2> DEFINE Fold(f) == [t \in SUBSET DOMAIN s |->
                           IF t = {} THEN <<>>
                           ELSE LET x == Max(t) IN f[t \ {x}] \o AttributeText(s[x])]
  <2> DEFINE fold == CHOOSE f : f = Fold(f)
  <2>1. n \in Nat /\ DOMAIN s = 1..n /\ \A i \in 1..n : s[i] \in Passed
    OBVIOUS
  <2>2. \A i \in 1..n : \A x \in Seq(Pieces) : g[i][x] = x \o AttributeText(s[i])
    BY <1>3, <2>1 DEF AtPlaces
  <2>3. g \in [1..n -> [Seq(Pieces) -> Seq(Pieces)]]
    BY <1>4, <2>1 DEF AtPlaces
  <2>4. AttributesText(s) = fold[DOMAIN s]
    BY DEF AttributesText, FoldLeft, MapThenFoldSet
  <2> HIDE DEF g, n, fold
  <2>5. PICK r \in [SUBSET (1..n) -> Seq(Pieces)] : FoldsUpTo(r, n, <<>>, g)
    BY <1>2, <2>1, <2>3, FoldExists
  <2>6. r = Fold(r)
    <3>1. ASSUME NEW t \in SUBSET (1..n), t # {}
          PROVE  g[Max(t)][r[t \ {Max(t)}]] = r[t \ {Max(t)}] \o AttributeText(s[Max(t)])
      <4>1. Max(t) \in 1..n /\ t \ {Max(t)} \in SUBSET (1..n)
        BY <2>1, <3>1, LastPlace
      <4> QED
        BY <2>2, <4>1
    <3> QED
      BY <2>1, <2>5, <3>1 DEF FoldsUpTo
  <2>7. fold = Fold(fold)
    <3> HIDE DEF Fold
    <3> QED
      BY <2>6 DEF fold
  <2>8. fold[{}] = <<>>
    BY <2>7
  <2>9. ASSUME NEW t \in SUBSET (1..n), t # {}, fold[t \ {Max(t)}] \in Seq(Pieces)
        PROVE  fold[t] = g[Max(t)][fold[t \ {Max(t)}]]
    <3>1. Max(t) \in 1..n
      BY <2>1, <2>9, LastPlace
    <3>2. fold[t] = fold[t \ {Max(t)}] \o AttributeText(s[Max(t)])
      BY <2>1, <2>7, <2>9
    <3> QED
      BY <2>2, <2>9, <3>1, <3>2
  <2>10. Computes(fold, n, <<>>, g, Seq(Pieces))
    BY <2>8, <2>9 DEF Computes
  <2>11. FoldsTo(fold[1..n], n, <<>>, g, Seq(Pieces))
    BY <1>2, <2>1, <2>3, <2>10, FoldRuns
  <2> QED
    BY <2>1, <2>4, <2>11 DEF g, n
<1>6. FoldsAll(F, Passed, <<>>, h, Seq(Pieces))
  BY <1>5 DEF FoldsAll
<1>7. \A s \in Seq(Passed) : F[s] = AttributesText(s)
  OBVIOUS
<1>8. <<>> \in Seq(Passed) /\ \A s \in Seq(Passed) : \A e \in Passed : Append(s, e) \in Seq(Passed)
  OBVIOUS
<1> HIDE DEF F
<1>9. /\ F[<<>>] = <<>>
      /\ \A s \in Seq(Passed) : F[s] \in Seq(Pieces)
      /\ \A s \in Seq(Passed) : \A e \in Passed : F[Append(s, e)] = h[e][F[s]]
  BY <1>6, FoldSteps DEF StepsThrough
<1>10. AttributesText(<<>>) = <<>>
  BY <1>7, <1>8, <1>9
<1>11. \A s \in Seq(Passed) : AttributesText(s) \in Seq(Pieces)
  BY <1>7, <1>9
<1>12. \A s \in Seq(Passed) : \A e \in Passed :
           AttributesText(Append(s, e)) = AttributesText(s) \o AttributeText(e)
  <2> SUFFICES ASSUME NEW s \in Seq(Passed), NEW e \in Passed
               PROVE  AttributesText(Append(s, e)) = AttributesText(s) \o AttributeText(e)
    OBVIOUS
  <2>1. F[Append(s, e)] = h[e][F[s]]
    BY <1>9
  <2>2. F[Append(s, e)] = AttributesText(Append(s, e)) /\ F[s] = AttributesText(s)
          /\ AttributesText(s) \in Seq(Pieces)
    BY <1>7, <1>8, <1>11
  <2> QED
    BY <1>3, <2>1, <2>2
<1> QED
  BY <1>10, <1>11, <1>12

\* An insertion keeps a stream a stream.
LEMMA InsertIsTyped ==
    ASSUME NEW st \in StreamValues, NEW p \in Pieces
    PROVE  Insert(st, p) \in StreamValues
<1>1. p.size \in Nat /\ st.size \in 0..Capacity /\ st.content \in Seq(Pieces)
  BY PiecesAreTyped DEF StreamValues
<1>2. [st EXCEPT !.failed = TRUE] \in StreamValues
  BY DEF StreamValues
<1>3. ASSUME ~(p.size > Capacity - st.size)
      PROVE  [st EXCEPT !.size = @ + p.size, !.content = Append(@, p)] \in StreamValues
  <2>1. st.size + p.size \in 0..Capacity
    BY <1>1, <1>3, CapacityAssumption
  <2>2. Append(st.content, p) \in Seq(Pieces)
    BY <1>1
  <2> QED
    BY <2>1, <2>2 DEF StreamValues
<1> QED
  BY <1>2, <1>3 DEF Insert

\* What a character of a value adds to a stream.
AppendCharacter(stream, c) ==
    IF stream.failed THEN stream
    ELSE Insert(IF IsEscaped(c) THEN Insert(stream, Backslash) ELSE stream, c)

\* It keeps a stream a stream.
LEMMA AppendCharacterIsTyped ==
    ASSUME NEW st \in StreamValues, NEW c \in Solid
    PROVE  AppendCharacter(st, c) \in StreamValues
<1>1. Backslash \in Pieces /\ c \in Pieces
  BY PiecesAreTyped DEF Framework
<1>2. Insert(st, Backslash) \in StreamValues
  BY <1>1, InsertIsTyped
<1>3. Insert(Insert(st, Backslash), c) \in StreamValues /\ Insert(st, c) \in StreamValues
  BY <1>1, <1>2, InsertIsTyped
<1> QED
  BY <1>3 DEF AppendCharacter

\* Appending a value to a stream, character by character.
LEMMA AppendValueFolds ==
    ASSUME NEW st \in StreamValues
    PROVE  /\ AppendAttributeValue(st, <<>>) = st
           /\ \A s \in Seq(Solid) : AppendAttributeValue(st, s) \in StreamValues
           /\ \A s \in Seq(Solid) : \A e \in Solid :
                  AppendAttributeValue(st, Append(s, e)) =
                      AppendCharacter(AppendAttributeValue(st, s), e)
<1> DEFINE h == [e \in Solid |-> [x \in StreamValues |-> AppendCharacter(x, e)]]
<1> DEFINE F == [s \in Seq(Solid) |-> AppendAttributeValue(st, s)]
<1>1. ASSUME NEW e \in Solid, NEW x \in StreamValues PROVE AppendCharacter(x, e) \in StreamValues
  BY AppendCharacterIsTyped
<1>2. st \in StreamValues
  OBVIOUS
<1>3. \A e \in Solid : \A x \in StreamValues : h[e][x] = AppendCharacter(x, e)
  OBVIOUS
<1>4. h \in [Solid -> [StreamValues -> StreamValues]]
  BY <1>1
<1> HIDE DEF h
<1>5. ASSUME NEW s \in Seq(Solid)
      PROVE  FoldsTo(AppendAttributeValue(st, s), Len(s), st, AtPlaces(h, s), StreamValues)
  <2> DEFINE n == Len(s)
  <2> DEFINE g == AtPlaces(h, s)
  <2> DEFINE Fold(f) == [t \in SUBSET DOMAIN s |->
                           IF t = {} THEN st
                           ELSE LET x == Max(t) IN AppendCharacter(f[t \ {x}], s[x])]
  <2> DEFINE fold == CHOOSE f : f = Fold(f)
  <2>1. n \in Nat /\ DOMAIN s = 1..n /\ \A i \in 1..n : s[i] \in Solid
    OBVIOUS
  <2>2. \A i \in 1..n : \A x \in StreamValues : g[i][x] = AppendCharacter(x, s[i])
    BY <1>3, <2>1 DEF AtPlaces
  <2>3. g \in [1..n -> [StreamValues -> StreamValues]]
    BY <1>4, <2>1 DEF AtPlaces
  <2>4. AppendAttributeValue(st, s) = fold[DOMAIN s]
    BY DEF AppendAttributeValue, FoldLeft, MapThenFoldSet, AppendCharacter
  <2> HIDE DEF g, n, fold
  <2>5. PICK r \in [SUBSET (1..n) -> StreamValues] : FoldsUpTo(r, n, st, g)
    BY <1>2, <2>1, <2>3, FoldExists
  <2>6. r = Fold(r)
    <3>1. ASSUME NEW t \in SUBSET (1..n), t # {}
          PROVE  g[Max(t)][r[t \ {Max(t)}]] = AppendCharacter(r[t \ {Max(t)}], s[Max(t)])
      <4>1. Max(t) \in 1..n /\ t \ {Max(t)} \in SUBSET (1..n)
        BY <2>1, <3>1, LastPlace
      <4> QED
        BY <2>2, <4>1
    <3> QED
      BY <2>1, <2>5, <3>1 DEF FoldsUpTo
  <2>7. fold = Fold(fold)
    <3> HIDE DEF Fold
    <3> QED
      BY <2>6 DEF fold
  <2>8. fold[{}] = st
    BY <2>7
  <2>9. ASSUME NEW t \in SUBSET (1..n), t # {}, fold[t \ {Max(t)}] \in StreamValues
        PROVE  fold[t] = g[Max(t)][fold[t \ {Max(t)}]]
    <3>1. Max(t) \in 1..n
      BY <2>1, <2>9, LastPlace
    <3>2. fold[t] = AppendCharacter(fold[t \ {Max(t)}], s[Max(t)])
      BY <2>1, <2>7, <2>9
    <3> QED
      BY <2>2, <2>9, <3>1, <3>2
  <2>10. Computes(fold, n, st, g, StreamValues)
    BY <2>8, <2>9 DEF Computes
  <2>11. FoldsTo(fold[1..n], n, st, g, StreamValues)
    BY <1>2, <2>1, <2>3, <2>10, FoldRuns
  <2> QED
    BY <2>1, <2>4, <2>11 DEF g, n
<1>6. FoldsAll(F, Solid, st, h, StreamValues)
  BY <1>5 DEF FoldsAll
<1>7. \A s \in Seq(Solid) : F[s] = AppendAttributeValue(st, s)
  OBVIOUS
<1>8. <<>> \in Seq(Solid) /\ \A s \in Seq(Solid) : \A e \in Solid : Append(s, e) \in Seq(Solid)
  OBVIOUS
<1> HIDE DEF F
<1>9. /\ F[<<>>] = st
      /\ \A s \in Seq(Solid) : F[s] \in StreamValues
      /\ \A s \in Seq(Solid) : \A e \in Solid : F[Append(s, e)] = h[e][F[s]]
  BY <1>6, FoldSteps DEF StepsThrough
<1>10. AppendAttributeValue(st, <<>>) = st
  BY <1>7, <1>8, <1>9
<1>11. \A s \in Seq(Solid) : AppendAttributeValue(st, s) \in StreamValues
  BY <1>7, <1>9
<1>12. \A s \in Seq(Solid) : \A e \in Solid :
           AppendAttributeValue(st, Append(s, e)) = AppendCharacter(AppendAttributeValue(st, s), e)
  <2> SUFFICES ASSUME NEW s \in Seq(Solid), NEW e \in Solid
               PROVE  AppendAttributeValue(st, Append(s, e)) =
                          AppendCharacter(AppendAttributeValue(st, s), e)
    OBVIOUS
  <2>1. F[Append(s, e)] = h[e][F[s]]
    BY <1>9
  <2>2. F[Append(s, e)] = AppendAttributeValue(st, Append(s, e))
          /\ F[s] = AppendAttributeValue(st, s) /\ AppendAttributeValue(st, s) \in StreamValues
    BY <1>7, <1>8, <1>11
  <2> QED
    BY <1>3, <2>1, <2>2
<1> QED
  BY <1>10, <1>11, <1>12

-----------------------------------------------------------------------------
(* What a stream gathers *)

\* One more piece of text.
LEMMA OneMorePiece ==
    ASSUME NEW text \in Seq(Pieces), NEW p \in Pieces
    PROVE  /\ Append(text, p) \in Seq(Pieces)
           /\ Bytes(text) \in Nat /\ Bytes(Append(text, p)) = Bytes(text) + p.size
<1>1. \A q \in Pieces : q.size \in Nat
  BY PiecesAreTyped
<1> QED
  BY <1>1, BytesOfText

\* A piece after two texts is a piece after the second.
LEMMA JoinThenAppend ==
    ASSUME NEW S, NEW t \in Seq(S), NEW u \in Seq(S), NEW p \in S
    PROVE  /\ t \o u \in Seq(S) /\ Append(u, p) \in Seq(S)
           /\ t \o Append(u, p) = Append(t \o u, p)
<1>1. Append(u, p) \in Seq(S) /\ <<p>> \in Seq(S) /\ t \o u \in Seq(S)
  OBVIOUS
<1>2. Append(u, p) = u \o <<p>> /\ Append(t \o u, p) = (t \o u) \o <<p>>
  BY <1>1
<1>3. PICK last \in Seq(S) : last = <<p>>
  BY <1>1
<1>4. (t \o u) \o last = t \o (u \o last)
  BY ConcatAssociative
<1> QED
  BY <1>1, <1>2, <1>3, <1>4

\* A text does not shrink when another follows.
LEMMA TextsGrow ==
    ASSUME NEW t \in Seq(Pieces), NEW u \in Seq(Pieces)
    PROVE  t \o u \in Seq(Pieces) /\ Bytes(t \o u) \in Nat /\ Bytes(t \o u) >= Bytes(t)
<1> DEFINE T == {v \in Seq(Pieces) : Bytes(t \o v) >= Bytes(t)}
<1>1. \A v \in Seq(Pieces) : v \in Seq(Pieces) /\ t \o v \in Seq(Pieces)
  OBVIOUS
<1>2. \A v \in Seq(Pieces) : Bytes(v) \in Nat
  <2>1. \A q \in Pieces : q.size \in Nat
    BY PiecesAreTyped
  <2> QED
    BY <2>1, BytesOfText
<1>3. <<>> \in T
  <2>1. <<>> \in Seq(Pieces) /\ t \o <<>> = t
    OBVIOUS
  <2> QED
    BY <1>2, <2>1
<1>4. ASSUME NEW v \in Seq(Pieces), NEW p \in Pieces, v \in T PROVE Append(v, p) \in T
  <2>1. t \o Append(v, p) = Append(t \o v, p) /\ Append(v, p) \in Seq(Pieces)
    BY JoinThenAppend
  <2>2. Bytes(Append(t \o v, p)) = Bytes(t \o v) + p.size /\ p.size \in Nat
    BY <1>1, OneMorePiece, PiecesAreTyped
  <2>3. Bytes(t \o v) \in Nat /\ Bytes(t) \in Nat /\ Bytes(t \o v) >= Bytes(t)
    BY <1>1, <1>2, <1>4
  <2>4. Bytes(t \o Append(v, p)) = Bytes(t \o v) + p.size
    BY <2>1, <2>2
  <2>5. Bytes(t \o Append(v, p)) >= Bytes(t)
    BY <2>2, <2>3, <2>4
  <2> QED
    BY <2>1, <2>5
<1>5. Seq(Pieces) \subseteq T
  <2> HIDE DEF T
  <2> QED
    BY <1>3, <1>4, SequenceInduction
<1> QED
  BY <1>1, <1>2, <1>5

\* A stream that has failed has failed for any longer text.
LEMMA FailedStaysFailed ==
    ASSUME NEW st \in StreamValues, NEW t \in Seq(Pieces), NEW u \in Seq(Pieces),
           NEW isNull \in BOOLEAN, st.failed, Gathers(st, t, isNull)
    PROVE  Gathers(st, t \o u, isNull)
<1>1. Bytes(t \o u) \in Nat /\ Bytes(t) \in Nat /\ Bytes(t \o u) >= Bytes(t)
  <2>1. \A q \in Pieces : q.size \in Nat
    BY PiecesAreTyped
  <2> QED
    BY <2>1, TextsGrow, BytesOfText
<1>2. Bytes(t) > Capacity => Bytes(t \o u) > Capacity
  BY <1>1, CapacityAssumption
<1> QED
  BY <1>2 DEF Gathers

\* An insertion adds its piece to the text, or fails because it does not fit.
LEMMA InsertGathers ==
    ASSUME NEW st \in StreamValues, NEW text \in Seq(Pieces), NEW isNull \in BOOLEAN,
           NEW p \in Solid, Gathers(st, text, isNull)
    PROVE  /\ Insert(st, p) \in StreamValues
           /\ Append(text, p) \in Seq(Pieces)
           /\ Gathers(Insert(st, p), Append(text, p), isNull)
<1> DEFINE more == Append(text, p)
<1>1. /\ more \in Seq(Pieces) /\ Bytes(text) \in Nat /\ Bytes(more) = Bytes(text) + p.size
      /\ p \in Pieces /\ p.size \in Nat /\ p.size # 0 /\ p # NoText
  BY OneMorePiece, PiecesAreTyped DEF Solid
<1>2. Insert(st, p) \in StreamValues
  BY <1>1, InsertIsTyped
<1>3. st.logger # Null /\ st.size \in 0..Capacity /\ st.failed \in BOOLEAN
  BY LoggerAssumption DEF StreamValues
<1> HIDE DEF more
<1>4. CASE st.failed
  <2>1. Insert(st, p) = st
    BY <1>4 DEF Insert, Accumulates
  <2>2. Bytes(text) > Capacity => Bytes(more) > Capacity
    BY <1>1, CapacityAssumption
  <2>3. Gathers(st, more, isNull)
    BY <1>4, <2>2 DEF Gathers
  <2> QED
    BY <1>1, <1>2, <2>1, <2>3 DEF more
<1>5. CASE ~st.failed
  <2>1. st.enabled /\ ~isNull /\ st.content = text /\ st.size = Bytes(text)
    BY <1>5 DEF Gathers
  <2>2. Accumulates(st)
    BY <1>3, <1>5, <2>1 DEF Accumulates
  <2>3. CASE p.size > Capacity - st.size
    <3>1. Insert(st, p) = [st EXCEPT !.failed = TRUE]
      BY <1>1, <2>2, <2>3 DEF Insert
    <3>2. Insert(st, p).failed /\ Insert(st, p).enabled
      BY <2>1, <3>1 DEF StreamValues
    <3>3. Bytes(more) > Capacity
      BY <1>1, <1>3, <2>1, <2>3, CapacityAssumption
    <3>4. Gathers(Insert(st, p), more, isNull)
      BY <3>2, <3>3 DEF Gathers
    <3> QED
      BY <1>1, <1>2, <3>4 DEF more
  <2>4. CASE ~(p.size > Capacity - st.size)
    <3>1. Insert(st, p) = [st EXCEPT !.size = @ + p.size, !.content = Append(@, p)]
      BY <1>1, <2>2, <2>4 DEF Insert
    <3>2. PICK size : size = st.size + p.size
      OBVIOUS
    <3>3. Insert(st, p) = [st EXCEPT !.size = size, !.content = more]
      BY <2>1, <3>1, <3>2 DEF more
    <3>4. /\ Insert(st, p).failed = st.failed /\ Insert(st, p).enabled = st.enabled
          /\ Insert(st, p).size = size /\ Insert(st, p).content = more
      BY <3>3 DEF StreamValues
    <3>5. Gathers(Insert(st, p), more, isNull)
      BY <1>1, <1>5, <2>1, <3>2, <3>4 DEF Gathers
    <3> QED
      BY <1>1, <1>2, <3>5 DEF more
  <2> QED
    BY <2>3, <2>4
<1> QED
  BY <1>4, <1>5

\* A null pointer fails the stream.
LEMMA NoTextFails ==
    ASSUME NEW st \in StreamValues, NEW text, NEW isNull \in BOOLEAN,
           Gathers(st, text, isNull)
    PROVE  /\ Insert(st, NoText) \in StreamValues
           /\ \A b \in BOOLEAN : b => Gathers(Insert(st, NoText), text, b)
<1> DEFINE failed == [st EXCEPT !.failed = TRUE]
<1>1. failed \in StreamValues /\ failed.failed /\ failed.enabled = st.enabled
  BY DEF StreamValues
<1> HIDE DEF failed
<1>2. st.logger # Null /\ st.enabled
  BY LoggerAssumption DEF StreamValues, Gathers
<1>3. Insert(st, NoText) = IF st.failed THEN st ELSE failed
  BY <1>2 DEF Insert, Accumulates, failed
<1>4. Insert(st, NoText) \in StreamValues /\ Insert(st, NoText).failed /\ Insert(st, NoText).enabled
  BY <1>1, <1>2, <1>3
<1> QED
  BY <1>4 DEF Gathers

\* A character of a value, escaped when it must be.
LEMMA CharacterGathers ==
    ASSUME NEW st \in StreamValues, NEW text \in Seq(Pieces), NEW isNull \in BOOLEAN,
           NEW c \in Solid, Gathers(st, text, isNull)
    PROVE  /\ AppendCharacter(st, c) \in StreamValues
           /\ text \o EscapedCharacter(c) \in Seq(Pieces)
           /\ Gathers(AppendCharacter(st, c), text \o EscapedCharacter(c), isNull)
<1>1. AppendCharacter(st, c) \in StreamValues
  BY AppendCharacterIsTyped
<1>2. Backslash \in Solid /\ Backslash \in Pieces /\ c \in Pieces
  BY PiecesAreTyped DEF Framework
<1>3. EscapedCharacter(c) \in Seq(Pieces) /\ text \o EscapedCharacter(c) \in Seq(Pieces)
  BY <1>2 DEF EscapedCharacter
<1>4. CASE st.failed
  <2>1. AppendCharacter(st, c) = st
    BY <1>4 DEF AppendCharacter
  <2>2. Gathers(st, text \o EscapedCharacter(c), isNull)
    BY <1>3, <1>4, FailedStaysFailed
  <2> QED
    BY <1>1, <1>3, <2>1, <2>2
<1>5. CASE ~st.failed /\ IsEscaped(c)
  <2>1. PICK first, before : first = Insert(st, Backslash) /\ before = Append(text, Backslash)
    OBVIOUS
  <2>2. first \in StreamValues /\ before \in Seq(Pieces) /\ Gathers(first, before, isNull)
    BY <1>2, <2>1, InsertGathers
  <2>3. Gathers(Insert(first, c), Append(before, c), isNull)
    BY <2>2, InsertGathers
  <2>4. AppendCharacter(st, c) = Insert(first, c)
    BY <1>5, <2>1 DEF AppendCharacter
  <2>5. text \o EscapedCharacter(c) = Append(before, c)
    BY <1>2, <1>5, <2>1 DEF EscapedCharacter
  <2> QED
    BY <1>1, <1>3, <2>3, <2>4, <2>5
<1>6. CASE ~st.failed /\ ~IsEscaped(c)
  <2>1. AppendCharacter(st, c) = Insert(st, c)
    BY <1>6 DEF AppendCharacter
  <2>2. text \o EscapedCharacter(c) = Append(text, c)
    BY <1>2, <1>6 DEF EscapedCharacter
  <2>3. Gathers(Insert(st, c), Append(text, c), isNull)
    BY InsertGathers
  <2> QED
    BY <1>1, <1>3, <2>1, <2>2, <2>3
<1> QED
  BY <1>4, <1>5, <1>6

\* Two texts after a text are one after the other.
LEMMA JoinIsAssociative ==
    ASSUME NEW S, NEW t \in Seq(S), NEW u \in Seq(S), NEW v \in Seq(S)
    PROVE  (t \o u) \o v = t \o (u \o v)
BY ConcatAssociative

\* Texts and their concatenation, as a whole.
IsText(t) == t \in Seq(Pieces)

Join(t, u) == t \o u

\* Texts are joined in any order.
LEMMA TextsJoin ==
    /\ \A t, u : IsText(t) /\ IsText(u) => IsText(Join(t, u))
    /\ \A t, u, v : IsText(t) /\ IsText(u) /\ IsText(v) => Join(Join(t, u), v) = Join(t, Join(u, v))
<1>1. ASSUME NEW t, NEW u, IsText(t), IsText(u) PROVE IsText(Join(t, u))
  BY <1>1 DEF IsText, Join
<1>2. ASSUME NEW t, NEW u, NEW v, IsText(t), IsText(u), IsText(v)
      PROVE  Join(Join(t, u), v) = Join(t, Join(u, v))
  <2>1. t \in Seq(Pieces) /\ u \in Seq(Pieces) /\ v \in Seq(Pieces)
    BY <1>2 DEF IsText
  <2> QED
    BY <2>1, JoinIsAssociative DEF Join
<1> QED
  BY <1>1, <1>2

\* Four texts after a text are one after the other.
JoinsOnTheRight(t, u, v, w, x) ==
    (((t \o u) \o v) \o w) \o x = t \o (((u \o v) \o w) \o x)

\* They are.
LEMMA FiveTexts ==
    ASSUME NEW t, NEW u, NEW v, NEW w, NEW x, IsText(t), IsText(u), IsText(v), IsText(w), IsText(x)
    PROVE  JoinsOnTheRight(t, u, v, w, x)
<1>1. IsText(Join(u, v)) /\ IsText(Join(Join(u, v), w))
  BY TextsJoin
<1>2. Join(Join(t, u), v) = Join(t, Join(u, v))
  BY TextsJoin
<1>3. Join(Join(t, Join(u, v)), w) = Join(t, Join(Join(u, v), w))
  BY <1>1, TextsJoin
<1>4. Join(Join(t, Join(Join(u, v), w)), x) = Join(t, Join(Join(Join(u, v), w), x))
  BY <1>1, TextsJoin
<1>5. Join(Join(Join(Join(t, u), v), w), x) = Join(t, Join(Join(Join(u, v), w), x))
  BY <1>2, <1>3, <1>4
<1> QED
  BY <1>5, Zenon DEF Join, JoinsOnTheRight

\* A value.
LEMMA ValueGathers ==
    ASSUME NEW st \in StreamValues, NEW text \in Seq(Pieces), NEW isNull \in BOOLEAN,
           NEW value \in Seq(Solid), Gathers(st, text, isNull)
    PROVE  /\ AppendAttributeValue(st, value) \in StreamValues
           /\ Escape(value) \in Seq(Pieces)
           /\ Gathers(AppendAttributeValue(st, value), text \o Escape(value), isNull)
<1> DEFINE T == {v \in Seq(Solid) : Gathers(AppendAttributeValue(st, v), text \o Escape(v), isNull)}
<1>1. \A v \in Seq(Solid) : AppendAttributeValue(st, v) \in StreamValues /\ Escape(v) \in Seq(Pieces)
  BY AppendValueFolds, EscapeFolds
<1>2. <<>> \in T
  <2>1. AppendAttributeValue(st, <<>>) = st /\ Escape(<<>>) = <<>>
    BY AppendValueFolds, EscapeFolds
  <2>2. text \o <<>> = text /\ <<>> \in Seq(Solid)
    OBVIOUS
  <2> QED
    BY <2>1, <2>2
<1>3. ASSUME NEW v \in Seq(Solid), NEW c \in Solid, v \in T PROVE Append(v, c) \in T
  <2>1. /\ AppendAttributeValue(st, Append(v, c)) = AppendCharacter(AppendAttributeValue(st, v), c)
        /\ Escape(Append(v, c)) = Escape(v) \o EscapedCharacter(c)
    BY AppendValueFolds, EscapeFolds
  <2>2. PICK mid, before : mid = AppendAttributeValue(st, v) /\ before = text \o Escape(v)
    OBVIOUS
  <2>3. mid \in StreamValues /\ before \in Seq(Pieces) /\ Gathers(mid, before, isNull)
    BY <1>1, <1>3, <2>2
  <2>4. Gathers(AppendCharacter(mid, c), before \o EscapedCharacter(c), isNull)
    BY <2>3, CharacterGathers
  <2>5. EscapedCharacter(c) \in Seq(Pieces)
    BY PiecesAreTyped DEF EscapedCharacter, Framework
  <2>6. before \o EscapedCharacter(c) = text \o (Escape(v) \o EscapedCharacter(c))
    <3>1. PICK e1, e2 : e1 = Escape(v) /\ e2 = EscapedCharacter(c)
      OBVIOUS
    <3>2. e1 \in Seq(Pieces) /\ e2 \in Seq(Pieces)
      BY <1>1, <2>5, <3>1
    <3>3. (text \o e1) \o e2 = text \o (e1 \o e2)
      BY <3>2, JoinIsAssociative
    <3> QED
      BY <2>2, <3>1, <3>3
  <2>7. Append(v, c) \in Seq(Solid)
    OBVIOUS
  <2> QED
    BY <2>1, <2>2, <2>4, <2>6, <2>7
<1>4. Seq(Solid) \subseteq T
  <2> HIDE DEF T
  <2> QED
    BY <1>2, <1>3, SequenceInduction
<1> QED
  BY <1>1, <1>4

\* An attribute keeps a stream a stream.
LEMMA AppendAttributeIsTyped ==
    ASSUME NEW st \in StreamValues, NEW a \in Passed
    PROVE  AppendAttribute(st, a) \in StreamValues
<1>1. AttributePrefix(a.kind) \in Pieces /\ Colon \in Pieces /\ Quote \in Pieces
  BY AttributesAreTyped, PiecesAreTyped DEF Framework
<1>2. Insert(st, AttributePrefix(a.kind)) \in StreamValues
  BY <1>1, InsertIsTyped
<1>3. a.value \in Seq(Solid)
  BY AttributesAreTyped
<1>4. PICK named : named = AppendAttributeValue(Insert(st, AttributePrefix(a.kind)), a.value)
  OBVIOUS
<1>5. named \in StreamValues
  BY <1>2, <1>3, <1>4, AppendValueFolds
<1>6. a.kind = "Location" => a.line \in Pieces
  BY AttributesAreTyped DEF Characters
<1>7. Insert(named, Quote) \in StreamValues /\ Insert(named, Colon) \in StreamValues
  BY <1>1, <1>5, InsertIsTyped
<1>8. a.kind = "Location" => Insert(Insert(Insert(named, Colon), a.line), Quote) \in StreamValues
  <2>1. SUFFICES ASSUME a.kind = "Location"
                 PROVE  Insert(Insert(Insert(named, Colon), a.line), Quote) \in StreamValues
    OBVIOUS
  <2>2. Insert(Insert(named, Colon), a.line) \in StreamValues
    BY <1>6, <1>7, <2>1, InsertIsTyped
  <2> QED
    BY <1>1, <2>2, InsertIsTyped
<1> QED
  BY <1>4, <1>7, <1>8 DEF AppendAttribute

\* Attributes appended to a stream.
AppendAttributes(stream, attributes) == FoldLeft(AppendAttribute, stream, attributes)

\* Appending attributes, one by one.
LEMMA AppendAttributesFolds ==
    ASSUME NEW st \in StreamValues
    PROVE  /\ AppendAttributes(st, <<>>) = st
           /\ \A s \in Seq(Passed) : AppendAttributes(st, s) \in StreamValues
           /\ \A s \in Seq(Passed) : \A e \in Passed :
                  AppendAttributes(st, Append(s, e)) = AppendAttribute(AppendAttributes(st, s), e)
<1> DEFINE h == [e \in Passed |-> [x \in StreamValues |-> AppendAttribute(x, e)]]
<1> DEFINE F == [s \in Seq(Passed) |-> AppendAttributes(st, s)]
<1>1. ASSUME NEW e \in Passed, NEW x \in StreamValues PROVE AppendAttribute(x, e) \in StreamValues
  BY AppendAttributeIsTyped
<1>2. st \in StreamValues
  OBVIOUS
<1>3. \A e \in Passed : \A x \in StreamValues : h[e][x] = AppendAttribute(x, e)
  OBVIOUS
<1>4. h \in [Passed -> [StreamValues -> StreamValues]]
  BY <1>1
<1> HIDE DEF h
<1>5. ASSUME NEW s \in Seq(Passed)
      PROVE  FoldsTo(AppendAttributes(st, s), Len(s), st, AtPlaces(h, s), StreamValues)
  <2> DEFINE n == Len(s)
  <2> DEFINE g == AtPlaces(h, s)
  <2> DEFINE Fold(f) == [t \in SUBSET DOMAIN s |->
                           IF t = {} THEN st
                           ELSE LET x == Max(t) IN AppendAttribute(f[t \ {x}], s[x])]
  <2> DEFINE fold == CHOOSE f : f = Fold(f)
  <2>1. n \in Nat /\ DOMAIN s = 1..n /\ \A i \in 1..n : s[i] \in Passed
    OBVIOUS
  <2>2. \A i \in 1..n : \A x \in StreamValues : g[i][x] = AppendAttribute(x, s[i])
    BY <1>3, <2>1 DEF AtPlaces
  <2>3. g \in [1..n -> [StreamValues -> StreamValues]]
    BY <1>4, <2>1 DEF AtPlaces
  <2>4. AppendAttributes(st, s) = fold[DOMAIN s]
    BY DEF AppendAttributes, FoldLeft, MapThenFoldSet
  <2> HIDE DEF g, n, fold
  <2>5. PICK r \in [SUBSET (1..n) -> StreamValues] : FoldsUpTo(r, n, st, g)
    BY <1>2, <2>1, <2>3, FoldExists
  <2>6. r = Fold(r)
    <3>1. ASSUME NEW t \in SUBSET (1..n), t # {}
          PROVE  g[Max(t)][r[t \ {Max(t)}]] = AppendAttribute(r[t \ {Max(t)}], s[Max(t)])
      <4>1. Max(t) \in 1..n /\ t \ {Max(t)} \in SUBSET (1..n)
        BY <2>1, <3>1, LastPlace
      <4> QED
        BY <2>2, <4>1
    <3> QED
      BY <2>1, <2>5, <3>1 DEF FoldsUpTo
  <2>7. fold = Fold(fold)
    <3> HIDE DEF Fold
    <3> QED
      BY <2>6 DEF fold
  <2>8. fold[{}] = st
    BY <2>7
  <2>9. ASSUME NEW t \in SUBSET (1..n), t # {}, fold[t \ {Max(t)}] \in StreamValues
        PROVE  fold[t] = g[Max(t)][fold[t \ {Max(t)}]]
    <3>1. Max(t) \in 1..n
      BY <2>1, <2>9, LastPlace
    <3>2. fold[t] = AppendAttribute(fold[t \ {Max(t)}], s[Max(t)])
      BY <2>1, <2>7, <2>9
    <3> QED
      BY <2>2, <2>9, <3>1, <3>2
  <2>10. Computes(fold, n, st, g, StreamValues)
    BY <2>8, <2>9 DEF Computes
  <2>11. FoldsTo(fold[1..n], n, st, g, StreamValues)
    BY <1>2, <2>1, <2>3, <2>10, FoldRuns
  <2> QED
    BY <2>1, <2>4, <2>11 DEF g, n
<1>6. FoldsAll(F, Passed, st, h, StreamValues)
  BY <1>5 DEF FoldsAll
<1>7. \A s \in Seq(Passed) : F[s] = AppendAttributes(st, s)
  OBVIOUS
<1>8. <<>> \in Seq(Passed) /\ \A s \in Seq(Passed) : \A e \in Passed : Append(s, e) \in Seq(Passed)
  OBVIOUS
<1> HIDE DEF F
<1>9. /\ F[<<>>] = st
      /\ \A s \in Seq(Passed) : F[s] \in StreamValues
      /\ \A s \in Seq(Passed) : \A e \in Passed : F[Append(s, e)] = h[e][F[s]]
  BY <1>6, FoldSteps DEF StepsThrough
<1>10. AppendAttributes(st, <<>>) = st
  BY <1>7, <1>8, <1>9
<1>11. \A s \in Seq(Passed) : AppendAttributes(st, s) \in StreamValues
  BY <1>7, <1>9
<1>12. \A s \in Seq(Passed) : \A e \in Passed :
           AppendAttributes(st, Append(s, e)) = AppendAttribute(AppendAttributes(st, s), e)
  <2> SUFFICES ASSUME NEW s \in Seq(Passed), NEW e \in Passed
               PROVE  AppendAttributes(st, Append(s, e)) = AppendAttribute(AppendAttributes(st, s), e)
    OBVIOUS
  <2>1. F[Append(s, e)] = h[e][F[s]]
    BY <1>9
  <2>2. F[Append(s, e)] = AppendAttributes(st, Append(s, e)) /\ F[s] = AppendAttributes(st, s)
          /\ AppendAttributes(st, s) \in StreamValues
    BY <1>7, <1>8, <1>11
  <2> QED
    BY <1>3, <2>1, <2>2
<1> QED
  BY <1>10, <1>11, <1>12

\* One or two pieces, and what they add to a text.
LEMMA FewPieces ==
    /\ \A p \in Solid : <<p>> \in Seq(Pieces)
    /\ \A p, q \in Solid : <<p, q>> \in Seq(Pieces)
    /\ \A t \in Seq(Pieces) : \A p \in Solid : t \o <<p>> = Append(t, p)
    /\ \A t \in Seq(Pieces) : \A p, q \in Solid : t \o <<p, q>> = Append(Append(t, p), q)
    /\ \A p, q \in Solid : Append(Append(<<>>, p), q) = <<p, q>>
<1>1. Solid \subseteq Pieces
  BY PiecesAreTyped
<1>2. \A p \in Solid : p \in Pieces
  BY <1>1
<1>3. ASSUME NEW p \in Solid, NEW q \in Solid PROVE Append(Append(<<>>, p), q) = <<p, q>>
  <2>1. PICK first : first = Append(<<>>, p)
    OBVIOUS
  <2>2. first = <<p>>
    BY <2>1
  <2>3. first \in Seq(Solid) /\ Len(first) = 1 /\ first[1] = p
    BY <2>2
  <2>4. PICK both : both = <<p, q>>
    OBVIOUS
  <2>5. both = Append(first, q)
    BY <2>2, <2>4
  <2> QED
    BY <2>1, <2>4, <2>5
<1> QED
  BY <1>2, <1>3

\* An attribute.
LEMMA AttributeGathers ==
    ASSUME NEW st \in StreamValues, NEW text \in Seq(Pieces), NEW isNull \in BOOLEAN,
           NEW a \in Passed, Gathers(st, text, isNull)
    PROVE  Gathers(AppendAttribute(st, a), text \o AttributeText(a), isNull)
<1>1. AttributePrefix(a.kind) \in Solid /\ Colon \in Solid /\ Quote \in Solid
  BY AttributesAreTyped, PiecesAreTyped DEF Framework
<1>2. a.value \in Seq(Solid) /\ Solid \subseteq Pieces
  BY AttributesAreTyped, PiecesAreTyped
<1>0. \A u \in Seq(Pieces) : \A v \in Seq(Pieces) : (text \o u) \o v = text \o (u \o v)
  BY JoinIsAssociative
<1>3. PICK opened, t1 : opened = Insert(st, AttributePrefix(a.kind))
                        /\ t1 = Append(text, AttributePrefix(a.kind))
  OBVIOUS
<1>4. opened \in StreamValues /\ t1 \in Seq(Pieces) /\ Gathers(opened, t1, isNull)
  BY <1>1, <1>3, InsertGathers
<1>5. PICK named, t2 : named = AppendAttributeValue(opened, a.value) /\ t2 = t1 \o Escape(a.value)
  OBVIOUS
<1>6. /\ named \in StreamValues /\ t2 \in Seq(Pieces) /\ Escape(a.value) \in Seq(Pieces)
      /\ Gathers(named, t2, isNull)
  <2>1. /\ named \in StreamValues /\ Escape(a.value) \in Seq(Pieces)
        /\ Gathers(named, t2, isNull)
    BY <1>2, <1>4, <1>5, ValueGathers
  <2> QED
    BY <1>4, <1>5, <2>1
<1>7. PICK first \in Seq(Pieces) : first = <<AttributePrefix(a.kind)>>
  BY <1>1, FewPieces
<1>8. PICK last \in Seq(Pieces) : last = <<Quote>>
  BY <1>1, FewPieces
<1>9. t1 = text \o first
  BY <1>1, <1>3, <1>7, FewPieces
<1>10. PICK middle \in Seq(Pieces) : middle = first \o Escape(a.value)
  <2>1. first \o Escape(a.value) \in Seq(Pieces)
    BY <1>6
  <2> QED
    BY <2>1
<1>11. t2 = text \o middle
  <2>1. PICK escaped \in Seq(Pieces) : escaped = Escape(a.value)
    BY <1>6
  <2>2. (text \o first) \o escaped = text \o (first \o escaped)
    BY JoinIsAssociative
  <2> QED
    BY <1>5, <1>9, <1>10, <2>1, <2>2
<1>12. CASE a.kind = "Location"
  <2>1. a.line \in Solid
    BY <1>12, AttributesAreTyped
  <2>2. PICK s3, t3 : s3 = Insert(named, Colon) /\ t3 = Append(t2, Colon)
    OBVIOUS
  <2>3. s3 \in StreamValues /\ t3 \in Seq(Pieces) /\ Gathers(s3, t3, isNull)
    BY <1>1, <1>6, <2>2, InsertGathers
  <2>4. PICK s4, t4 : s4 = Insert(s3, a.line) /\ t4 = Append(t3, a.line)
    OBVIOUS
  <2>5. s4 \in StreamValues /\ t4 \in Seq(Pieces) /\ Gathers(s4, t4, isNull)
    BY <2>1, <2>3, <2>4, InsertGathers
  <2>6. Gathers(Insert(s4, Quote), Append(t4, Quote), isNull)
    BY <1>1, <2>5, InsertGathers
  <2>7. AppendAttribute(st, a) = Insert(s4, Quote)
    BY <1>3, <1>5, <1>12, <2>2, <2>4 DEF AppendAttribute
  <2>8. PICK line \in Seq(Pieces) : line = <<Colon, a.line>>
    BY <1>1, <2>1, FewPieces
  <2>9. AttributeText(a) = (middle \o line) \o last
    BY <1>7, <1>8, <1>10, <1>12, <2>8 DEF AttributeText
  <2>10. t4 = t2 \o line
    BY <1>1, <1>6, <2>1, <2>2, <2>4, <2>8, FewPieces
  <2>11. Append(t4, Quote) = t4 \o last
    BY <1>1, <1>8, <2>5, FewPieces
  <2>12. t4 = text \o (middle \o line) /\ middle \o line \in Seq(Pieces)
    <3>1. (text \o middle) \o line = text \o (middle \o line)
      BY JoinIsAssociative
    <3> QED
      BY <1>11, <2>10, <3>1
  <2>13. Append(t4, Quote) = text \o ((middle \o line) \o last)
    <3>1. PICK inner \in Seq(Pieces) : inner = middle \o line
      BY <2>12
    <3>2. (text \o inner) \o last = text \o (inner \o last)
      BY <1>0, Zenon
    <3> QED
      BY <2>11, <2>12, <3>1, <3>2
  <2> QED
    BY <2>6, <2>7, <2>9, <2>13
<1>13. CASE a.kind # "Location"
  <2>1. AppendAttribute(st, a) = Insert(named, Quote)
    BY <1>3, <1>5, <1>13 DEF AppendAttribute
  <2>2. Gathers(Insert(named, Quote), Append(t2, Quote), isNull)
    BY <1>1, <1>6, InsertGathers
  <2>3. Append(t2, Quote) = t2 \o last
    BY <1>1, <1>6, <1>8, FewPieces
  <2>4. Append(t2, Quote) = text \o (middle \o last)
    <3>1. (text \o middle) \o last = text \o (middle \o last)
      BY JoinIsAssociative
    <3> QED
      BY <1>11, <2>3, <3>1
  <2>5. AttributeText(a) = (middle \o <<>>) \o last /\ middle \o <<>> = middle
    BY <1>7, <1>8, <1>10, <1>13 DEF AttributeText
  <2> QED
    BY <2>1, <2>2, <2>4, <2>5
<1> QED
  BY <1>12, <1>13

\* All attributes.
LEMMA AttributesGather ==
    ASSUME NEW st \in StreamValues, NEW text \in Seq(Pieces), NEW isNull \in BOOLEAN,
           NEW attributes \in Seq(Passed), Gathers(st, text, isNull)
    PROVE  /\ AppendAttributes(st, attributes) \in StreamValues
           /\ AttributesText(attributes) \in Seq(Pieces)
           /\ Gathers(AppendAttributes(st, attributes), text \o AttributesText(attributes), isNull)
<1> DEFINE T == {s \in Seq(Passed) :
                   Gathers(AppendAttributes(st, s), text \o AttributesText(s), isNull)}
<1>1. \A s \in Seq(Passed) : AppendAttributes(st, s) \in StreamValues
                             /\ AttributesText(s) \in Seq(Pieces)
  BY AppendAttributesFolds, AttributesTextFolds
<1>2. <<>> \in T
  <2>1. AppendAttributes(st, <<>>) = st /\ AttributesText(<<>>) = <<>>
    BY AppendAttributesFolds, AttributesTextFolds
  <2>2. text \o <<>> = text /\ <<>> \in Seq(Passed)
    OBVIOUS
  <2> QED
    BY <2>1, <2>2
<1>3. ASSUME NEW s \in Seq(Passed), NEW a \in Passed, s \in T PROVE Append(s, a) \in T
  <2>1. /\ AppendAttributes(st, Append(s, a)) = AppendAttribute(AppendAttributes(st, s), a)
        /\ AttributesText(Append(s, a)) = AttributesText(s) \o AttributeText(a)
    BY AppendAttributesFolds, AttributesTextFolds
  <2>2. PICK mid, before : mid = AppendAttributes(st, s) /\ before = text \o AttributesText(s)
    OBVIOUS
  <2>3. mid \in StreamValues /\ before \in Seq(Pieces) /\ Gathers(mid, before, isNull)
    BY <1>1, <1>3, <2>2
  <2>4. Gathers(AppendAttribute(mid, a), before \o AttributeText(a), isNull)
    BY <2>3, AttributeGathers
  <2>5. before \o AttributeText(a) = text \o (AttributesText(s) \o AttributeText(a))
    <3>1. PICK a1, a2 : a1 = AttributesText(s) /\ a2 = AttributeText(a)
      OBVIOUS
    <3>2. a1 \in Seq(Pieces) /\ a2 \in Seq(Pieces)
      BY <1>1, <3>1, AttributeTextIsTyped
    <3>3. (text \o a1) \o a2 = text \o (a1 \o a2)
      BY <3>2, JoinIsAssociative
    <3> QED
      BY <2>2, <3>1, <3>3
  <2>6. Append(s, a) \in Seq(Passed)
    OBVIOUS
  <2> QED
    BY <2>1, <2>2, <2>4, <2>5, <2>6
<1>4. Seq(Passed) \subseteq T
  <2> HIDE DEF T
  <2> QED
    BY <1>2, <1>3, SequenceInduction
<1> QED
  BY <1>1, <1>4

-----------------------------------------------------------------------------
(* What a reader makes of the attributes *)

\* The states of the reader; TRUE and FALSE have names, as arguments do.
Reader(values, value, escaped) == [escaped |-> escaped, value |-> value, values |-> values]

Plain == FALSE
Escaping == TRUE

ReaderStates == [escaped : BOOLEAN, value : Seq(Pieces), values : Seq(Seq(Pieces))]

\* The reader stays in its states.
LEMMA ReaderIsTyped ==
    ASSUME NEW state \in ReaderStates, NEW p \in Pieces
    PROVE  UnescapePiece(state, p) \in ReaderStates
<1>1. state.value \in Seq(Pieces) /\ state.values \in Seq(Seq(Pieces))
  BY DEF ReaderStates
<1>2. Append(state.value, p) \in Seq(Pieces) /\ Append(state.values, state.value) \in Seq(Seq(Pieces))
      /\ <<>> \in Seq(Pieces)
  BY <1>1
<1> QED
  BY <1>2 DEF ReaderStates, UnescapePiece

\* Reading a text, piece by piece.
LEMMA UnescapeFolds ==
    /\ Unescape(<<>>) = [escaped |-> FALSE, value |-> <<>>, values |-> <<>>]
    /\ \A s \in Seq(Pieces) : Unescape(s) \in ReaderStates
    /\ \A s \in Seq(Pieces) : \A e \in Pieces : Unescape(Append(s, e)) = UnescapePiece(Unescape(s), e)
<1> DEFINE h == [e \in Pieces |-> [x \in ReaderStates |-> UnescapePiece(x, e)]]
<1> DEFINE F == [s \in Seq(Pieces) |-> Unescape(s)]
<1>1. ASSUME NEW e \in Pieces, NEW x \in ReaderStates PROVE UnescapePiece(x, e) \in ReaderStates
  BY ReaderIsTyped
<1>2. [escaped |-> FALSE, value |-> <<>>, values |-> <<>>] \in ReaderStates
  BY DEF ReaderStates
<1>3. \A e \in Pieces : \A x \in ReaderStates : h[e][x] = UnescapePiece(x, e)
  OBVIOUS
<1>4. h \in [Pieces -> [ReaderStates -> ReaderStates]]
  BY <1>1
<1> HIDE DEF h
<1>5. ASSUME NEW s \in Seq(Pieces)
      PROVE  FoldsTo(Unescape(s), Len(s), [escaped |-> FALSE, value |-> <<>>, values |-> <<>>],
                 AtPlaces(h, s), ReaderStates)
  <2> DEFINE n == Len(s)
  <2> DEFINE g == AtPlaces(h, s)
  <2> DEFINE Fold(f) == [t \in SUBSET DOMAIN s |->
                           IF t = {} THEN [escaped |-> FALSE, value |-> <<>>, values |-> <<>>]
                           ELSE LET x == Max(t) IN UnescapePiece(f[t \ {x}], s[x])]
  <2> DEFINE fold == CHOOSE f : f = Fold(f)
  <2>1. n \in Nat /\ DOMAIN s = 1..n /\ \A i \in 1..n : s[i] \in Pieces
    OBVIOUS
  <2>2. \A i \in 1..n : \A x \in ReaderStates : g[i][x] = UnescapePiece(x, s[i])
    BY <1>3, <2>1 DEF AtPlaces
  <2>3. g \in [1..n -> [ReaderStates -> ReaderStates]]
    BY <1>4, <2>1 DEF AtPlaces
  <2>4. Unescape(s) = fold[DOMAIN s]
    BY DEF Unescape, FoldLeft, MapThenFoldSet
  <2> HIDE DEF g, n, fold
  <2>5. PICK r \in [SUBSET (1..n) -> ReaderStates] :
            FoldsUpTo(r, n, [escaped |-> FALSE, value |-> <<>>, values |-> <<>>], g)
    BY <1>2, <2>1, <2>3, FoldExists
  <2>6. r = Fold(r)
    <3>1. ASSUME NEW t \in SUBSET (1..n), t # {}
          PROVE  g[Max(t)][r[t \ {Max(t)}]] = UnescapePiece(r[t \ {Max(t)}], s[Max(t)])
      <4>1. Max(t) \in 1..n /\ t \ {Max(t)} \in SUBSET (1..n)
        BY <2>1, <3>1, LastPlace
      <4> QED
        BY <2>2, <4>1
    <3> QED
      BY <2>1, <2>5, <3>1 DEF FoldsUpTo
  <2>7. fold = Fold(fold)
    <3> HIDE DEF Fold
    <3> QED
      BY <2>6 DEF fold
  <2>8. fold[{}] = [escaped |-> FALSE, value |-> <<>>, values |-> <<>>]
    BY <2>7
  <2>9. ASSUME NEW t \in SUBSET (1..n), t # {}, fold[t \ {Max(t)}] \in ReaderStates
        PROVE  fold[t] = g[Max(t)][fold[t \ {Max(t)}]]
    <3>1. Max(t) \in 1..n
      BY <2>1, <2>9, LastPlace
    <3>2. fold[t] = UnescapePiece(fold[t \ {Max(t)}], s[Max(t)])
      BY <2>1, <2>7, <2>9
    <3> QED
      BY <2>2, <2>9, <3>1, <3>2
  <2>10. Computes(fold, n, [escaped |-> FALSE, value |-> <<>>, values |-> <<>>], g, ReaderStates)
    BY <2>8, <2>9 DEF Computes
  <2>11. FoldsTo(fold[1..n], n, [escaped |-> FALSE, value |-> <<>>, values |-> <<>>], g, ReaderStates)
    BY <1>2, <2>1, <2>3, <2>10, FoldRuns
  <2> QED
    BY <2>1, <2>4, <2>11 DEF g, n
<1>6. FoldsAll(F, Pieces, [escaped |-> FALSE, value |-> <<>>, values |-> <<>>], h, ReaderStates)
  BY <1>5 DEF FoldsAll
<1>7. \A s \in Seq(Pieces) : F[s] = Unescape(s)
  OBVIOUS
<1>8. <<>> \in Seq(Pieces) /\ \A s \in Seq(Pieces) : \A e \in Pieces : Append(s, e) \in Seq(Pieces)
  OBVIOUS
<1> HIDE DEF F
<1>9. /\ F[<<>>] = [escaped |-> FALSE, value |-> <<>>, values |-> <<>>]
      /\ \A s \in Seq(Pieces) : F[s] \in ReaderStates
      /\ \A s \in Seq(Pieces) : \A e \in Pieces : F[Append(s, e)] = h[e][F[s]]
  BY <1>6, FoldSteps DEF StepsThrough
<1>10. Unescape(<<>>) = [escaped |-> FALSE, value |-> <<>>, values |-> <<>>]
  BY <1>7, <1>8, <1>9
<1>11. \A s \in Seq(Pieces) : Unescape(s) \in ReaderStates
  BY <1>7, <1>9
<1>12. \A s \in Seq(Pieces) : \A e \in Pieces : Unescape(Append(s, e)) = UnescapePiece(Unescape(s), e)
  <2> SUFFICES ASSUME NEW s \in Seq(Pieces), NEW e \in Pieces
               PROVE  Unescape(Append(s, e)) = UnescapePiece(Unescape(s), e)
    OBVIOUS
  <2>1. F[Append(s, e)] = h[e][F[s]]
    BY <1>9
  <2>2. F[Append(s, e)] = Unescape(Append(s, e)) /\ F[s] = Unescape(s) /\ Unescape(s) \in ReaderStates
    BY <1>7, <1>8, <1>11
  <2> QED
    BY <1>3, <2>1, <2>2
<1> QED
  BY <1>10, <1>11, <1>12

\* What the reader has read of a text, outside an escape.
Reads(text, values, value) == Unescape(text) = Reader(values, value, Plain)

\* A reader with another value, other values, and another state of the escape.
LEMMA ReaderChanges ==
    ASSUME NEW values, NEW value, NEW escaped, NEW r, r = Reader(values, value, escaped)
    PROVE  /\ \A x : [r EXCEPT !.value = x] = Reader(values, x, escaped)
           /\ \A x : [r EXCEPT !.values = x] = Reader(x, value, escaped)
           /\ \A x : [r EXCEPT !.escaped = x] = Reader(values, value, x)
<1>1. ASSUME NEW x
      PROVE  [Reader(values, value, escaped) EXCEPT !.value = x] = Reader(values, x, escaped)
  BY DEF Reader
<1>2. ASSUME NEW x
      PROVE  [Reader(values, value, escaped) EXCEPT !.values = x] = Reader(x, value, escaped)
  BY DEF Reader
<1>3. ASSUME NEW x
      PROVE  [Reader(values, value, escaped) EXCEPT !.escaped = x] = Reader(values, value, x)
  BY DEF Reader
<1> QED
  BY <1>1, <1>2, <1>3

\* After a backslash the reader takes what follows.
LEMMA StepEscaped ==
    ASSUME NEW values, NEW value, NEW p
    PROVE  UnescapePiece(Reader(values, value, Escaping), p) = Reader(values, Append(value, p), Plain)
<1>1. PICK r : r = Reader(values, value, Escaping)
  OBVIOUS
<1>2. PICK more : more = Append(value, p)
  OBVIOUS
<1>3. r.value = value /\ r.escaped
  BY <1>1 DEF Reader, Escaping
<1>4. UnescapePiece(r, p) = [r EXCEPT !.escaped = Plain, !.value = more]
  BY <1>2, <1>3 DEF Plain, Escaping, UnescapePiece
<1>5. [r EXCEPT !.escaped = Plain, !.value = more] =
        [[r EXCEPT !.escaped = Plain] EXCEPT !.value = more]
  OBVIOUS
<1>6. [r EXCEPT !.escaped = Plain] = Reader(values, value, Plain)
  BY <1>1, ReaderChanges
<1>7. [Reader(values, value, Plain) EXCEPT !.value = more] = Reader(values, more, Plain)
  BY ReaderChanges
<1>8. UnescapePiece(r, p) = Reader(values, more, Plain)
  BY <1>4, <1>5, <1>6, <1>7
<1> QED
  BY <1>1, <1>2, <1>8

\* A backslash is remembered.
LEMMA StepBackslash ==
    ASSUME NEW values, NEW value
    PROVE  UnescapePiece(Reader(values, value, Plain), Backslash) = Reader(values, value, Escaping)
<1>1. PICK r : r = Reader(values, value, Plain)
  OBVIOUS
<1>2. ~r.escaped
  BY <1>1 DEF Reader, Plain
<1>3. UnescapePiece(r, Backslash) = [r EXCEPT !.escaped = Escaping]
  BY <1>2 DEF Plain, Escaping, UnescapePiece
<1>4. [r EXCEPT !.escaped = Escaping] = Reader(values, value, Escaping)
  BY <1>1, ReaderChanges
<1> QED
  BY <1>1, <1>3, <1>4

\* The pieces with a meaning differ.
LEMMA MarksDiffer ==
    /\ Quote # Backslash /\ Colon # Quote /\ Colon # Backslash
    /\ \A kind : AttributePrefix(kind) \notin {Quote, Backslash, Colon}
    /\ Colon \notin {AttributePrefix("Tag"), AttributePrefix("Location")}
    /\ \A kind \in {"Tag", "Location"} :
         AttributePrefix(kind) \in {AttributePrefix("Tag"), AttributePrefix("Location")}
<1>1. Quote # Backslash /\ Colon # Quote /\ Colon # Backslash
  BY DEF Quote, Backslash, Colon, Literal
<1>2. \A kind : AttributePrefix(kind) \notin {Quote, Backslash, Colon}
  BY DEF AttributePrefix, Quote, Backslash, Colon, Literal
<1>3. Colon \notin {AttributePrefix("Tag"), AttributePrefix("Location")}
  BY <1>2
<1>4. \A kind \in {"Tag", "Location"} :
        AttributePrefix(kind) \in {AttributePrefix("Tag"), AttributePrefix("Location")}
  OBVIOUS
<1> QED
  BY <1>1, <1>2, <1>3, <1>4

\* A quote ends a value.
LEMMA StepQuote ==
    ASSUME NEW values, NEW value
    PROVE  UnescapePiece(Reader(values, value, Plain), Quote) =
             Reader(Append(values, value), <<>>, Plain)
<1>1. PICK r : r = Reader(values, value, Plain)
  OBVIOUS
<1>2. PICK more : more = Append(values, value)
  OBVIOUS
<1>3. r.values = values /\ r.value = value /\ ~r.escaped
  BY <1>1 DEF Reader, Plain
<1>4. UnescapePiece(r, Quote) = [r EXCEPT !.values = more, !.value = <<>>]
  BY <1>2, <1>3, MarksDiffer DEF UnescapePiece
<1>5. [r EXCEPT !.values = more, !.value = <<>>] = [[r EXCEPT !.values = more] EXCEPT !.value = <<>>]
  OBVIOUS
<1>6. [r EXCEPT !.values = more] = Reader(more, value, Plain)
  BY <1>1, ReaderChanges
<1>7. [Reader(more, value, Plain) EXCEPT !.value = <<>>] = Reader(more, <<>>, Plain)
  BY ReaderChanges
<1>8. UnescapePiece(r, Quote) = Reader(more, <<>>, Plain)
  BY <1>4, <1>5, <1>6, <1>7
<1> QED
  BY <1>1, <1>2, <1>8

\* A prefix opens a value.
LEMMA StepPrefix ==
    ASSUME NEW values, NEW value, NEW kind \in {"Tag", "Location"}
    PROVE  UnescapePiece(Reader(values, value, Plain), AttributePrefix(kind)) =
             Reader(values, value, Plain)
<1>1. PICK r : r = Reader(values, value, Plain)
  OBVIOUS
<1>2. ~r.escaped
  BY <1>1 DEF Reader, Plain
<1>3. UnescapePiece(r, AttributePrefix(kind)) = r
  BY <1>2, MarksDiffer DEF UnescapePiece
<1> QED
  BY <1>1, <1>3

\* The marks of a text, which the reader does not take as they are.
Marks == {Quote, Backslash, AttributePrefix("Tag"), AttributePrefix("Location")}

\* Any other piece is added to the value.
LEMMA StepPlain ==
    ASSUME NEW values, NEW value, NEW p, p \notin Marks
    PROVE  UnescapePiece(Reader(values, value, Plain), p) = Reader(values, Append(value, p), Plain)
<1>1. PICK r : r = Reader(values, value, Plain)
  OBVIOUS
<1>2. PICK more : more = Append(value, p)
  OBVIOUS
<1>3. r.value = value /\ ~r.escaped
  BY <1>1 DEF Reader, Plain
<1>4. UnescapePiece(r, p) = [r EXCEPT !.value = more]
  BY <1>2, <1>3 DEF UnescapePiece, Marks
<1>5. [r EXCEPT !.value = more] = Reader(values, more, Plain)
  BY <1>1, ReaderChanges
<1> QED
  BY <1>1, <1>2, <1>4, <1>5

\* One more piece for the reader.
LEMMA ReadsOneMore ==
    ASSUME NEW text \in Seq(Pieces), NEW p \in Pieces
    PROVE  Append(text, p) \in Seq(Pieces)
             /\ Unescape(Append(text, p)) = UnescapePiece(Unescape(text), p)
BY UnescapeFolds

\* A plain piece.
LEMMA ReadsPlainPiece ==
    ASSUME NEW text \in Seq(Pieces), NEW values, NEW value, NEW p \in Pieces \ Marks,
           Reads(text, values, value)
    PROVE  Append(text, p) \in Seq(Pieces) /\ Reads(Append(text, p), values, Append(value, p))
<1>1. UnescapePiece(Unescape(text), p) = Reader(values, Append(value, p), Plain)
  BY StepPlain DEF Reads
<1> QED
  BY <1>1, ReadsOneMore DEF Reads

\* A character of a value, as it is written.
LEMMA ReadsCharacter ==
    ASSUME NEW text \in Seq(Pieces), NEW values, NEW value, NEW c \in Characters,
           Reads(text, values, value)
    PROVE  /\ text \o EscapedCharacter(c) \in Seq(Pieces)
           /\ Reads(text \o EscapedCharacter(c), values, Append(value, c))
<1>1. c \in Solid /\ c \in Pieces /\ Backslash \in Solid /\ Backslash \in Pieces
      /\ c \notin {AttributePrefix("Tag"), AttributePrefix("Location")}
  BY AttributesAreTyped, PiecesAreTyped DEF Framework, Characters, IsPlain
<1>2. CASE IsEscaped(c)
  <2>1. text \o EscapedCharacter(c) = Append(Append(text, Backslash), c)
    BY <1>1, <1>2, FewPieces DEF EscapedCharacter
  <2>2. PICK first : first = Append(text, Backslash)
    OBVIOUS
  <2>3. UnescapePiece(Unescape(text), Backslash) = Reader(values, value, Escaping)
    BY StepBackslash DEF Reads
  <2>4. first \in Seq(Pieces) /\ Unescape(first) = Reader(values, value, Escaping)
    BY <1>1, <2>2, <2>3, ReadsOneMore
  <2>5. UnescapePiece(Unescape(first), c) = Reader(values, Append(value, c), Plain)
    BY <2>4, StepEscaped
  <2>6. Append(first, c) \in Seq(Pieces)
          /\ Unescape(Append(first, c)) = UnescapePiece(Unescape(first), c)
    BY <1>1, <2>4, ReadsOneMore
  <2> QED
    BY <2>1, <2>2, <2>5, <2>6 DEF Reads
<1>3. CASE ~IsEscaped(c)
  <2>1. text \o EscapedCharacter(c) = Append(text, c)
    BY <1>1, <1>3, FewPieces DEF EscapedCharacter
  <2>2. c \in Pieces \ Marks
    BY <1>1, <1>3 DEF IsEscaped, Marks
  <2> QED
    BY <2>1, <2>2, ReadsPlainPiece
<1> QED
  BY <1>2, <1>3

\* A value, as it is written.
LEMMA ReadsValue ==
    ASSUME NEW text \in Seq(Pieces), NEW values, NEW value \in Seq(Characters),
           Reads(text, values, <<>>)
    PROVE  /\ text \o Escape(value) \in Seq(Pieces)
           /\ Reads(text \o Escape(value), values, value)
<1> DEFINE T == {v \in Seq(Characters) : Reads(text \o Escape(v), values, v)}
<1>1. \A v \in Seq(Characters) : v \in Seq(Solid) /\ Escape(v) \in Seq(Pieces)
                                 /\ text \o Escape(v) \in Seq(Pieces)
  <2>1. \A v \in Seq(Characters) : v \in Seq(Solid)
    BY AttributesAreTyped
  <2> QED
    BY <2>1, EscapeFolds
<1>2. <<>> \in T
  <2>1. Escape(<<>>) = <<>>
    BY EscapeFolds
  <2>2. text \o <<>> = text /\ <<>> \in Seq(Characters)
    OBVIOUS
  <2> QED
    BY <2>1, <2>2
<1>3. ASSUME NEW v \in Seq(Characters), NEW c \in Characters, v \in T PROVE Append(v, c) \in T
  <2>1. c \in Solid
    BY AttributesAreTyped
  <2>2. Escape(Append(v, c)) = Escape(v) \o EscapedCharacter(c)
    BY <1>1, <2>1, EscapeFolds
  <2>3. PICK before : before = text \o Escape(v)
    OBVIOUS
  <2>4. before \in Seq(Pieces) /\ Reads(before, values, v)
    BY <1>1, <1>3, <2>3
  <2>5. Reads(before \o EscapedCharacter(c), values, Append(v, c))
    BY <2>4, ReadsCharacter
  <2>6. before \o EscapedCharacter(c) = text \o (Escape(v) \o EscapedCharacter(c))
    <3>1. EscapedCharacter(c) \in Seq(Pieces)
      BY <2>1, PiecesAreTyped DEF EscapedCharacter, Framework
    <3>2. PICK e1, e2 : e1 = Escape(v) /\ e2 = EscapedCharacter(c)
      OBVIOUS
    <3>3. e1 \in Seq(Pieces) /\ e2 \in Seq(Pieces)
      BY <1>1, <3>1, <3>2
    <3>4. (text \o e1) \o e2 = text \o (e1 \o e2)
      BY <3>3, JoinIsAssociative
    <3> QED
      BY <2>3, <3>2, <3>4
  <2>7. Append(v, c) \in Seq(Characters)
    OBVIOUS
  <2> QED
    BY <2>2, <2>5, <2>6, <2>7
<1>4. Seq(Characters) \subseteq T
  <2> HIDE DEF T
  <2> QED
    BY <1>2, <1>3, SequenceInduction
<1> QED
  BY <1>1, <1>4

\* An attribute, as it is written.
LEMMA ReadsAttribute ==
    ASSUME NEW text \in Seq(Pieces), NEW values, NEW a \in Passed, Reads(text, values, <<>>)
    PROVE  Reads(text \o AttributeText(a), Append(values, ShownValue(a)), <<>>)
<1>1. /\ a.kind \in {"Location", "Tag"} /\ a.value \in Seq(Characters) /\ a.value \in Seq(Pieces)
      /\ AttributePrefix(a.kind) \in Solid /\ AttributePrefix(a.kind) \in Pieces
      /\ Colon \in Solid /\ Colon \in Pieces /\ Quote \in Solid /\ Quote \in Pieces
  <2>1. a.kind \in {"Location", "Tag"} /\ a.value \in Seq(Characters)
    BY AttributesAreTyped
  <2>2. Characters \subseteq Pieces /\ Framework \subseteq Solid /\ Solid \subseteq Pieces
    BY PiecesAreTyped DEF Characters
  <2>3. AttributePrefix(a.kind) \in Framework /\ Colon \in Framework /\ Quote \in Framework
    BY <2>1 DEF Framework
  <2>4. a.value \in Seq(Pieces)
    BY <2>1, <2>2
  <2> QED
    BY <2>1, <2>2, <2>3, <2>4
<1>2. Escape(a.value) \in Seq(Pieces)
  <2>1. a.value \in Seq(Solid)
    BY AttributesAreTyped
  <2> QED
    BY <2>1, EscapeFolds
<1>3. PICK opened : opened = Append(text, AttributePrefix(a.kind))
  OBVIOUS
<1>4. opened \in Seq(Pieces) /\ Reads(opened, values, <<>>)
  <2>1. UnescapePiece(Unescape(text), AttributePrefix(a.kind)) = Reader(values, <<>>, Plain)
    BY <1>1, StepPrefix DEF Reads
  <2> QED
    BY <1>1, <1>3, <2>1, ReadsOneMore DEF Reads
<1>5. PICK named : named = opened \o Escape(a.value)
  OBVIOUS
<1>6. named \in Seq(Pieces) /\ Reads(named, values, a.value)
  BY <1>1, <1>4, <1>5, ReadsValue
<1>7. ASSUME NEW lined \in Seq(Pieces), NEW shown, Reads(lined, values, shown)
      PROVE  Reads(Append(lined, Quote), Append(values, shown), <<>>)
  <2>1. UnescapePiece(Unescape(lined), Quote) = Reader(Append(values, shown), <<>>, Plain)
    BY <1>7, StepQuote DEF Reads
  <2> QED
    BY <1>1, <2>1, ReadsOneMore DEF Reads
<1>8. CASE a.kind = "Location"
  <2>1. a.line \in Characters \ {Quote, Backslash} /\ a.line \in Solid /\ a.line \in Pieces
    BY <1>8, AttributesAreTyped DEF Characters
  <2>2. a.line \in Pieces \ Marks /\ Colon \in Pieces \ Marks
    BY <1>1, <2>1, MarksDiffer DEF Characters, IsPlain, Marks
  <2>3. PICK colon, v1 : colon = Append(named, Colon) /\ v1 = Append(a.value, Colon)
    OBVIOUS
  <2>4. colon \in Seq(Pieces) /\ Reads(colon, values, v1)
    BY <1>6, <2>2, <2>3, ReadsPlainPiece
  <2>5. PICK lined, v2 : lined = Append(colon, a.line) /\ v2 = Append(v1, a.line)
    OBVIOUS
  <2>6. lined \in Seq(Pieces) /\ Reads(lined, values, v2)
    BY <2>2, <2>4, <2>5, ReadsPlainPiece
  <2>7. Reads(Append(lined, Quote), Append(values, v2), <<>>)
    BY <1>7, <2>6
  <2>8. v2 = ShownValue(a)
    BY <1>1, <1>8, <2>1, <2>3, <2>5, FewPieces DEF ShownValue
  <2>9. Append(lined, Quote) = text \o AttributeText(a)
    <3>1. PICK first, line, last :
            /\ first = <<AttributePrefix(a.kind)>> /\ line = <<Colon, a.line>> /\ last = <<Quote>>
            /\ first \in Seq(Pieces) /\ line \in Seq(Pieces) /\ last \in Seq(Pieces)
      BY <1>1, <2>1, FewPieces
    <3>2. opened = text \o first /\ lined = named \o line /\ Append(lined, Quote) = lined \o last
      <4>1. opened = text \o first
        BY <1>1, <1>3, <3>1, FewPieces
      <4>2. lined = named \o line
        BY <1>1, <1>6, <2>1, <2>3, <2>5, <3>1, FewPieces
      <4>3. Append(lined, Quote) = lined \o last
        BY <1>1, <2>6, <3>1, FewPieces
      <4> QED
        BY <4>1, <4>2, <4>3
    <3>3. PICK escaped : escaped = Escape(a.value) /\ escaped \in Seq(Pieces)
      BY <1>2
    <3>4. AttributeText(a) = ((first \o escaped) \o line) \o last
      BY <1>8, <3>1, <3>3 DEF AttributeText
    <3>5. Append(lined, Quote) = (((text \o first) \o escaped) \o line) \o last
      BY <1>5, <3>2, <3>3
    <3>6. (((text \o first) \o escaped) \o line) \o last =
            text \o (((first \o escaped) \o line) \o last)
      <4>1. IsText(text) /\ IsText(first) /\ IsText(escaped) /\ IsText(line) /\ IsText(last)
        BY <1>2, <3>1, <3>3, FewPieces DEF IsText
      <4>2. JoinsOnTheRight(text, first, escaped, line, last)
        BY ONLY <4>1, FiveTexts
      <4> QED
        BY <4>2, Zenon DEF JoinsOnTheRight
    <3> QED
      BY <3>4, <3>5, <3>6
  <2> QED
    BY <2>7, <2>8, <2>9
<1>9. CASE a.kind # "Location"
  <2>1. Reads(Append(named, Quote), Append(values, a.value), <<>>)
    BY <1>6, <1>7
  <2>2. a.value = ShownValue(a)
    BY <1>1, <1>9 DEF ShownValue
  <2>3. Append(named, Quote) = text \o AttributeText(a)
    <3>1. PICK first, line, last :
            /\ first = <<AttributePrefix(a.kind)>> /\ line = <<>> /\ last = <<Quote>>
            /\ first \in Seq(Pieces) /\ line \in Seq(Pieces) /\ last \in Seq(Pieces)
      <4>1. <<>> \in Seq(Pieces)
        OBVIOUS
      <4> QED
        BY <1>1, <4>1, FewPieces
    <3>2. opened = text \o first /\ named = named \o line /\ Append(named, Quote) = named \o last
      BY <1>1, <1>3, <1>6, <3>1, FewPieces
    <3>3. PICK escaped : escaped = Escape(a.value) /\ escaped \in Seq(Pieces)
      BY <1>2
    <3>4. AttributeText(a) = ((first \o escaped) \o line) \o last
      BY <1>9, <3>1, <3>3 DEF AttributeText
    <3>5. Append(named, Quote) = (((text \o first) \o escaped) \o line) \o last
      BY <1>5, <3>2, <3>3
    <3>6. (((text \o first) \o escaped) \o line) \o last =
            text \o (((first \o escaped) \o line) \o last)
      <4>1. IsText(text) /\ IsText(first) /\ IsText(escaped) /\ IsText(line) /\ IsText(last)
        BY <1>2, <3>1, <3>3, FewPieces DEF IsText
      <4>2. JoinsOnTheRight(text, first, escaped, line, last)
        BY ONLY <4>1, FiveTexts
      <4> QED
        BY <4>2, Zenon DEF JoinsOnTheRight
    <3> QED
      BY <3>4, <3>5, <3>6
  <2> QED
    BY <2>1, <2>2, <2>3
<1> QED
  BY <1>1, <1>8, <1>9

\* What a reader should make of attributes.
Shown(attributes) == [k \in DOMAIN attributes |-> ShownValue(attributes[k])]

\* One more attribute is one more value.
LEMMA ShownOneMore ==
    ASSUME NEW s \in Seq(Passed), NEW a \in Passed
    PROVE  Shown(Append(s, a)) = Append(Shown(s), ShownValue(a))
<1> DEFINE V == {ShownValue(b) : b \in Passed}
<1> DEFINE t == Append(s, a)
<1> DEFINE n == Len(s)
<1>1. /\ n \in Nat /\ DOMAIN s = 1..n /\ DOMAIN t = 1..(n + 1) /\ t[n + 1] = a
      /\ \A i \in 1..n : t[i] = s[i] /\ s[i] \in Passed
  OBVIOUS
<1> HIDE DEF t, n
<1>2. Shown(s) \in [1..n -> V] /\ ShownValue(a) \in V
  BY <1>1 DEF Shown
<1>3. Shown(t) \in [1..(n + 1) -> V]
  <2>1. \A i \in 1..(n + 1) : t[i] \in Passed
    <3> SUFFICES ASSUME NEW i \in 1..(n + 1) PROVE t[i] \in Passed
      OBVIOUS
    <3>1. i \in 1..n \/ i = n + 1
      BY <1>1
    <3> QED
      BY <1>1, <3>1
  <2> QED
    BY <1>1, <2>1 DEF Shown
<1>4. \A i \in 1..n : Shown(t)[i] = Shown(s)[i]
  BY <1>1 DEF Shown
<1>5. Shown(t)[n + 1] = ShownValue(a)
  BY <1>1 DEF Shown
<1> HIDE DEF V
<1>6. PICK u, v : u = Shown(s) /\ v = Shown(t)
  OBVIOUS
<1>7. [i \in 1..n |-> v[i]] = u
  BY <1>2, <1>4, <1>6
<1>8. v = Append([i \in 1..n |-> v[i]], v[n + 1])
  BY <1>1, <1>3, <1>6, AllButLast
<1> QED
  BY <1>5, <1>6, <1>7, <1>8 DEF t

\* All attributes, as they are written, read back as what was passed.
LEMMA ReadsAttributes ==
    ASSUME NEW attributes \in Seq(Passed)
    PROVE  Unescape(AttributesText(attributes)) =
             [escaped |-> FALSE, value |-> <<>>, values |-> Shown(attributes)]
<1> DEFINE T == {s \in Seq(Passed) : Reads(AttributesText(s), Shown(s), <<>>)}
<1>1. <<>> \in T
  <2>1. AttributesText(<<>>) = <<>> /\ <<>> \in Seq(Passed)
    BY AttributesTextFolds
  <2>2. Unescape(<<>>) = Reader(<<>>, <<>>, Plain)
    BY UnescapeFolds DEF Reader, Plain
  <2>3. Shown(<<>>) = <<>>
    BY DEF Shown
  <2> QED
    BY <2>1, <2>2, <2>3 DEF Reads
<1>2. ASSUME NEW s \in Seq(Passed), NEW a \in Passed, s \in T PROVE Append(s, a) \in T
  <2>1. AttributesText(Append(s, a)) = AttributesText(s) \o AttributeText(a)
        /\ AttributesText(s) \in Seq(Pieces)
    BY AttributesTextFolds
  <2>2. Reads(AttributesText(s) \o AttributeText(a), Append(Shown(s), ShownValue(a)), <<>>)
    BY <1>2, <2>1, ReadsAttribute
  <2>3. Append(s, a) \in Seq(Passed)
    OBVIOUS
  <2> QED
    BY <2>1, <2>2, <2>3, ShownOneMore
<1>3. Seq(Passed) \subseteq T
  <2> HIDE DEF T
  <2> QED
    BY <1>1, <1>2, SequenceInduction
<1> QED
  BY <1>3 DEF Reads, Reader, Plain

\* What follows a text in a longer one.
LEMMA Rest ==
    ASSUME NEW S, NEW t \in Seq(S), NEW u \in Seq(S)
    PROVE  SubSeq(t \o u, Len(t) + 1, Len(t \o u)) = u
<1> DEFINE m == Len(t)
<1> DEFINE n == Len(u)
<1> DEFINE both == t \o u
<1>1. m \in Nat /\ n \in Nat /\ both \in Seq(S) /\ Len(both) = m + n
      /\ \A i \in 1..n : both[m + i] = u[i]
  OBVIOUS
<1> HIDE DEF both
<1>2. PICK rest : rest = SubSeq(both, m + 1, m + n)
  OBVIOUS
<1>3. rest \in Seq(S) /\ Len(rest) = n /\ \A i \in 1..n : rest[i] = both[m + i]
  BY <1>1, <1>2
<1>4. rest = u
  BY <1>1, <1>3, SeqEqual
<1> QED
  BY <1>1, <1>2, <1>4 DEF both

-----------------------------------------------------------------------------
(* The text of a message, and MessageWriter *)

\* A value more or less.
LEMMA TextOfWritten ==
    ASSUME NEW written \in Seq(Texts), NEW value \in Texts
    PROVE  /\ TextOf(written) \in Seq(Texts) /\ TextOf(<<>>) = <<>>
           /\ Append(written, value) \in Seq(Texts)
           /\ TextOf(Append(written, value)) =
                IF value.size = 0 THEN TextOf(written) ELSE Append(TextOf(written), value)
           /\ ToSet(Append(written, value)) = ToSet(written) \cup {value}
<1>1. /\ TextOf(written) \in Seq(Texts) /\ TextOf(<<>>) = <<>>
      /\ TextOf(Append(written, value)) =
           IF value.size = 0 THEN TextOf(written) ELSE Append(TextOf(written), value)
  BY TextOfPieces DEF WithPiece
<1>2. ToSet(Append(written, value)) = ToSet(written) \cup {value}
  <2> DEFINE n == Len(written)
  <2> DEFINE t == Append(written, value)
  <2>1. n \in Nat /\ DOMAIN written = 1..n /\ DOMAIN t = 1..(n + 1)
        /\ t[n + 1] = value /\ \A i \in 1..n : t[i] = written[i]
    OBVIOUS
  <2> HIDE DEF t, n
  <2>2. \A i : i \in 1..(n + 1) <=> i \in 1..n \/ i = n + 1
    BY <2>1
  <2>3. ToSet(t) = ToSet(written) \cup {value}
    BY <2>1, <2>2 DEF ToSet
  <2> QED
    BY <2>3 DEF t
<1> QED
  BY <1>1, <1>2

\* What a value adds to the text of a message.
LEMMA MessageTextGrows ==
    ASSUME NEW message \in Messages, NEW written \in Seq(Texts), NEW value \in Texts
    PROVE  /\ MessageText(message, written) \in Seq(Pieces)
           /\ MessageText(message, <<>>) = Append(Append(<<>>, IdPrefix), message.id)
           /\ MessageText(message, Append(written, value)) =
                IF value.size = 0 THEN MessageText(message, written)
                ELSE Append(IF TextOf(written) = <<>>
                            THEN Append(MessageText(message, written), Separator)
                            ELSE MessageText(message, written), value)
<1>1. /\ Framework \subseteq Solid /\ Solid \subseteq Pieces /\ message.id \in Solid
      /\ Texts \subseteq Pieces
  BY PiecesAreTyped DEF Pieces
<1>2. IdPrefix \in Solid /\ Separator \in Solid /\ value \in Pieces
  BY <1>1 DEF Framework
<1>3. PICK base : base = <<IdPrefix, message.id>>
  OBVIOUS
<1>4. base \in Seq(Pieces) /\ base = Append(Append(<<>>, IdPrefix), message.id)
  <2>1. base \in Seq(Pieces)
    BY <1>1, <1>2, <1>3, FewPieces
  <2>2. Append(Append(<<>>, IdPrefix), message.id) = <<IdPrefix, message.id>>
    BY <1>1, <1>2, FewPieces
  <2> QED
    BY <1>3, <2>1, <2>2
<1>5. PICK texts : texts = TextOf(written)
  OBVIOUS
<1>6. texts \in Seq(Pieces)
  BY <1>1, <1>5, TextOfWritten
<1>7. TextOf(Append(written, value)) = IF value.size = 0 THEN texts ELSE Append(texts, value)
  BY <1>5, TextOfWritten
<1>8. <<Separator>> \in Seq(Pieces) /\ base \o <<>> = base
  BY <1>1, <1>2, <1>4, FewPieces
<1>9. MessageText(message, <<>>) = base
  BY <1>3, <1>8, TextOfWritten DEF MessageText
<1>10. MessageText(message, written) = IF texts = <<>> THEN base ELSE base \o (<<Separator>> \o texts)
  BY <1>3, <1>5, <1>8 DEF MessageText
<1>11. MessageText(message, written) \in Seq(Pieces)
  BY <1>4, <1>6, <1>8, <1>10
<1>12. CASE value.size = 0
  BY <1>3, <1>4, <1>5, <1>7, <1>9, <1>11, <1>12 DEF MessageText
<1>13. CASE value.size # 0
  <2>1. Append(texts, value) # <<>>
    BY <1>6
  <2>2. MessageText(message, Append(written, value)) = base \o (<<Separator>> \o Append(texts, value))
    BY <1>3, <1>7, <1>13, <2>1 DEF MessageText
  <2>3. PICK first \in Seq(Pieces) : first = <<Separator>>
    BY <1>8
  <2>4. first \o Append(texts, value) = Append(first \o texts, value)
          /\ first \o texts \in Seq(Pieces)
    BY <1>2, <1>6, JoinThenAppend
  <2>5. PICK inner \in Seq(Pieces) : inner = first \o texts
    BY <2>4
  <2>6. base \o Append(inner, value) = Append(base \o inner, value)
    BY <1>2, <1>4, JoinThenAppend
  <2>7. MessageText(message, Append(written, value)) = Append(base \o inner, value)
    BY <2>2, <2>3, <2>4, <2>5, <2>6
  <2>8. CASE texts = <<>>
    <3>1. inner = first
      BY <2>5, <2>8
    <3>2. base \o inner = Append(base, Separator)
      BY <1>2, <1>4, <2>3, <3>1, FewPieces
    <3> QED
      BY <1>4, <1>5, <1>9, <1>10, <1>11, <1>13, <2>7, <2>8, <3>2
  <2>9. CASE texts # <<>>
    BY <1>4, <1>5, <1>9, <1>10, <1>11, <1>13, <2>3, <2>5, <2>7, <2>9
  <2> QED
    BY <2>8, <2>9
<1> QED
  BY <1>12, <1>13

\* What Render writes goes to the stream.
LEMMA WriteGathers ==
    ASSUME NEW frame \in FrameValues, NEW n, FrameHolds(frame, n), frame.step = "Render",
           NEW value \in Texts, NEW next, next = Wrote(frame, value)
    PROVE  /\ FrameHolds(next, n)
           /\ next.call = frame.call /\ next.within = frame.within /\ next.step = frame.step
<1> DEFINE st == frame.stream
<1> DEFINE text == MessageText(frame.message, frame.written)
<1> DEFINE more == Append(frame.written, value)
<1>1. /\ frame.message \in Messages /\ frame.written \in Seq(Texts) /\ frame.textStarted \in BOOLEAN
      /\ st \in StreamValues /\ IsRendered(frame.message)
      /\ Gathers(st, text, WroteNull(frame))
      /\ frame.textStarted <=> TextOf(frame.written) # <<>>
      /\ frame.call \in 1..n
  BY DEF FrameHolds, FrameValues
<1>2. PICK b \in BOOLEAN : b <=> WroteNull(frame)
  BY DEF WroteNull
<1>3. Gathers(st, text, b)
  BY <1>1, <1>2 DEF Gathers
<1>4. PICK c \in BOOLEAN : c <=> NoText \in ToSet(more)
  OBVIOUS
<1>5. /\ text \in Seq(Pieces)
      /\ MessageText(frame.message, more) =
           IF value.size = 0 THEN text
           ELSE Append(IF TextOf(frame.written) = <<>> THEN Append(text, Separator) ELSE text, value)
  BY <1>1, MessageTextGrows
<1>6. /\ more \in Seq(Texts) /\ TextOf(frame.written) \in Seq(Texts)
      /\ TextOf(more) = IF value.size = 0 THEN TextOf(frame.written)
                        ELSE Append(TextOf(frame.written), value)
      /\ c <=> b \/ value = NoText
  <2>1. ToSet(more) = ToSet(frame.written) \cup {value}
    BY <1>1, TextOfWritten
  <2> QED
    BY <1>1, <1>2, <1>4, <2>1, TextOfWritten DEF WroteNull
<1> HIDE DEF st, text, more
<1>7. ASSUME NEW stream \in StreamValues, NEW started \in BOOLEAN,
             Gathers(stream, MessageText(frame.message, more), c),
             started <=> TextOf(more) # <<>>,
             next = [[[frame EXCEPT !.stream = stream] EXCEPT !.textStarted = started]
                      EXCEPT !.written = more]
      PROVE  /\ FrameHolds(next, n)
             /\ next.call = frame.call /\ next.within = frame.within /\ next.step = frame.step
  <2>1. /\ next \in FrameValues /\ next.call = frame.call /\ next.within = frame.within
        /\ next.step = frame.step /\ next.message = frame.message /\ next.stream = stream
        /\ next.textStarted = started /\ next.written = more
    BY <1>6, <1>7 DEF FrameValues
  <2>2. Gathers(next.stream, MessageText(next.message, next.written), WroteNull(next))
    BY <1>4, <1>7, <2>1 DEF WroteNull, Gathers
  <2> QED
    BY <1>1, <1>7, <2>1, <2>2 DEF FrameHolds
<1>8. frame = [[frame EXCEPT !.stream = st] EXCEPT !.textStarted = frame.textStarted]
  BY DEF FrameValues, st
<1>9. NoText.size = 0
  BY DEF NoText
<1>10. CASE value = NoText
  <2>1. PICK stream : stream = Insert(st, NoText)
    OBVIOUS
  <2>2. stream \in StreamValues /\ Gathers(stream, text, c)
    BY <1>1, <1>3, <1>6, <1>10, <2>1, NoTextFails
  <2>3. next = [[frame EXCEPT !.stream = stream] EXCEPT !.written = more]
    <3>1. Write(frame, value) = [frame EXCEPT !.stream = stream]
      BY <1>10, <2>1 DEF Write, st
    <3> QED
      BY <3>1 DEF more, Wrote
  <2>4. next = [[[frame EXCEPT !.stream = stream] EXCEPT !.textStarted = frame.textStarted]
                 EXCEPT !.written = more]
    <3>1. [frame EXCEPT !.stream = stream] =
            [[frame EXCEPT !.stream = stream] EXCEPT !.textStarted = frame.textStarted]
      BY DEF FrameValues
    <3> QED
      BY <2>3, <3>1
  <2>5. TextOf(more) = TextOf(frame.written) /\ MessageText(frame.message, more) = text
    BY <1>5, <1>6, <1>9, <1>10
  <2>6. frame.textStarted <=> TextOf(more) # <<>>
    BY <1>1, <2>5
  <2>7. Gathers(stream, MessageText(frame.message, more), c)
    BY <2>2, <2>5
  <2> QED
    BY <1>1, <1>7, <2>2, <2>4, <2>6, <2>7
<1>11. CASE value # NoText /\ value.size = 0
  <2>1. Write(frame, value) = frame
    BY <1>11 DEF Write
  <2>2. next = [[[frame EXCEPT !.stream = st] EXCEPT !.textStarted = frame.textStarted]
                 EXCEPT !.written = more]
    BY <1>8, <2>1 DEF more, Wrote
  <2>3. Gathers(st, text, c)
    BY <1>3, <1>6, <1>11 DEF Gathers
  <2> QED
    BY <1>1, <1>5, <1>6, <1>7, <1>11, <2>2, <2>3
<1>12. CASE value # NoText /\ value.size # 0
  <2>1. value \in Solid /\ Separator \in Solid
    BY <1>12, PiecesAreTyped DEF Solid, Pieces, Framework
  <2>2. Gathers(st, text, c)
    BY <1>3, <1>6, <1>12 DEF Gathers
  <2>3. PICK s1, t1 :
          /\ s1 = IF frame.textStarted THEN st ELSE Insert(st, Separator)
          /\ t1 = IF frame.textStarted THEN text ELSE Append(text, Separator)
    OBVIOUS
  <2>4. s1 \in StreamValues /\ t1 \in Seq(Pieces) /\ Gathers(s1, t1, c)
    <3>1. CASE frame.textStarted
      BY <1>1, <1>5, <2>2, <2>3, <3>1
    <3>2. CASE ~frame.textStarted
      BY <1>1, <1>5, <2>1, <2>2, <2>3, <3>2, InsertGathers
    <3> QED
      BY <3>1, <3>2
  <2>5. PICK stream : stream = Insert(s1, value)
    OBVIOUS
  <2>6. stream \in StreamValues /\ Gathers(stream, Append(t1, value), c)
    BY <2>1, <2>4, <2>5, InsertGathers
  <2>7. MessageText(frame.message, more) = Append(t1, value)
    BY <1>1, <1>5, <1>12, <2>3
  <2>8. TextOf(more) # <<>>
    BY <1>6, <1>12
  <2>9. next = [[[frame EXCEPT !.stream = stream] EXCEPT !.textStarted = TRUE]
                 EXCEPT !.written = more]
    <3>1. Write(frame, value) = [frame EXCEPT !.stream = stream, !.textStarted = TRUE]
      BY <1>12, <2>3, <2>5 DEF Write, st
    <3> QED
      BY <3>1 DEF more, Wrote
  <2>10. PICK started \in BOOLEAN : started = TRUE
    OBVIOUS
  <2> QED
    BY <1>7, <2>6, <2>7, <2>8, <2>9, <2>10
<1> QED
  BY <1>10, <1>11, <1>12

\* The stream of a new call has the ID.
LEMMA NewFrameHolds ==
    ASSUME NEW message \in Messages, NEW attributes \in Attributes, NEW frame,
           calls \in Nat, StackHolds(frames, calls), frame = NewFrame(message, attributes)
    PROVE  /\ frame \in FrameValues
           /\ frame.call = calls + 1 /\ frame.within = Within(frames) /\ frame.step = "Render"
           /\ frame.message = message /\ frame.attributes = attributes /\ frame.written = <<>>
           /\ IsRendered(message) => FrameHolds(frame, calls + 1)
<1> DEFINE s0 == WithLevel(Logger, message.level)
<1> DEFINE s1 == Insert(s0, IdPrefix)
<1> DEFINE s2 == Insert(s1, message.id)
<1>1. IdPrefix \in Solid /\ message.id \in Solid /\ Solid \subseteq Pieces
  BY PiecesAreTyped DEF Framework
<1>2. IsEnabled(Logger, message.level) \in BOOLEAN
  BY DEF IsEnabled
<1>3. s0 \in StreamValues
  BY <1>2, CapacityAssumption DEF WithLevel, StreamValues
<1>4. s1 \in StreamValues /\ s2 \in StreamValues
  <2> HIDE DEF s0
  <2> QED
    BY <1>1, <1>3, InsertIsTyped
<1>5. Within(frames) \in [call : Nat, step : {"Idle", "Render", "Trace"}]
  <2>1. CASE frames = <<>>
    BY <2>1 DEF Within
  <2>2. CASE frames # <<>>
    <3>1. frames \in Seq(FrameValues)
      BY DEF StackHolds
    <3>2. frames[Len(frames)] \in FrameValues
      BY <2>2, <3>1
    <3> QED
      BY <2>2, <3>2 DEF Within, FrameValues
  <2> QED
    BY <2>1, <2>2
<1>6. frame = [call |-> calls + 1, message |-> message, attributes |-> attributes,
               within |-> Within(frames), step |-> "Render", textStarted |-> FALSE,
               written |-> <<>>, stream |-> s2]
  BY DEF NewFrame, Within, Top
<1> HIDE DEF s2
<1>7. frame \in FrameValues
  BY <1>4, <1>5, <1>6 DEF FrameValues
<1>8. ASSUME IsRendered(message) PROVE FrameHolds(frame, calls + 1)
  <2>1. PICK b \in BOOLEAN : b = FALSE
    OBVIOUS
  <2>2. Bytes(<<>>) = 0
    <3>1. \A p \in Pieces : p.size \in Nat
      BY PiecesAreTyped
    <3> QED
      BY <3>1, BytesOfText
  <2>3. Gathers(s0, <<>>, b)
    BY <1>8, <2>1, <2>2 DEF Gathers, WithLevel, IsRendered
  <2>4. PICK none \in Seq(Pieces) : none = <<>>
    <3>1. <<>> \in Seq(Pieces)
      OBVIOUS
    <3> QED
      BY <3>1
  <2> HIDE DEF s0
  <2>5. s1 \in StreamValues /\ Append(none, IdPrefix) \in Seq(Pieces)
          /\ Gathers(s1, Append(none, IdPrefix), b)
    BY <1>1, <1>3, <2>3, <2>4, InsertGathers
  <2> HIDE DEF s1
  <2>6. Gathers(s2, Append(Append(none, IdPrefix), message.id), b)
    BY <1>1, <2>5, InsertGathers DEF s2
  <2>7. MessageText(message, <<>>) = <<IdPrefix, message.id>>
    <3>1. TextOf(<<>>) = <<>>
      BY TextOfPieces
    <3> QED
      BY <3>1 DEF MessageText
  <2>8. Append(Append(none, IdPrefix), message.id) = <<IdPrefix, message.id>>
    BY <1>1, <2>4, FewPieces
  <2>9. ~WroteNull(frame)
    BY <1>6 DEF WroteNull, ToSet
  <2>10. TextOf(<<>>) = <<>>
    BY TextOfPieces
  <2>11. Gathers(frame.stream, MessageText(frame.message, frame.written), WroteNull(frame))
    BY <1>6, <2>1, <2>6, <2>7, <2>8, <2>9 DEF Gathers
  <2>12. calls + 1 \in 1..(calls + 1)
    OBVIOUS
  <2> QED
    BY <1>4, <1>6, <1>7, <1>8, <2>10, <2>11, <2>12 DEF FrameHolds
<1> QED
  BY <1>6, <1>7, <1>8

\* When Render returns the stream is submitted if the record is complete, and has
\* exactly its text.
LEMMA SubmitsComplete ==
    ASSUME NEW frame, NEW n, FrameHolds(frame, n), frame.step = "Render", NEW stream,
           stream = FoldLeft(AppendAttribute, frame.stream, frame.attributes)
    PROVE  /\ Submits(stream) <=> IsComplete(frame)
           /\ Submits(stream) => stream.content = RecordText(frame)
           /\ RecordText(frame) \in Seq(Pieces)
<1> DEFINE text == MessageText(frame.message, frame.written)
<1>1. /\ frame \in FrameValues /\ frame.stream \in StreamValues /\ IsRendered(frame.message)
      /\ Gathers(frame.stream, text, WroteNull(frame))
      /\ frame.message \in Messages /\ frame.written \in Seq(Texts) /\ frame.attributes \in Attributes
  BY DEF FrameHolds, FrameValues
<1>2. frame.attributes \in Seq(Passed)
  BY <1>1, AttributesAreTyped
<1>3. PICK b \in BOOLEAN : b <=> WroteNull(frame)
  BY DEF WroteNull
<1>4. Gathers(frame.stream, text, b)
  BY <1>1, <1>3 DEF Gathers
<1>5. text \in Seq(Pieces) /\ Bytes(text) \in Nat /\ Bytes(text) > 0
  <2>1. PICK id : id = <<IdPrefix, frame.message.id>>
    OBVIOUS
  <2>2. IdPrefix \in Solid /\ frame.message.id \in Solid /\ Separator \in Solid
          /\ Solid \subseteq Pieces
    BY <1>1, PiecesAreTyped DEF Framework
  <2>3. id \in Seq(Pieces) /\ Bytes(id) \in Nat /\ Bytes(id) > 0
    <3>1. \A p \in Pieces : p.size \in Nat
      BY PiecesAreTyped
    <3>2. PICK first : first = Append(<<>>, IdPrefix)
      OBVIOUS
    <3>3. <<>> \in Seq(Pieces) /\ first \in Seq(Pieces) /\ id = Append(first, frame.message.id)
      BY <2>1, <2>2, <3>2
    <3>4. Bytes(first) \in Nat /\ Bytes(id) = Bytes(first) + frame.message.id.size
      BY <2>2, <3>3, OneMorePiece
    <3>5. frame.message.id.size \in Nat /\ frame.message.id.size # 0 /\ frame.message.id \in Pieces
      BY <2>2, <3>1 DEF Solid
    <3>6. id \in Seq(Pieces)
      BY <3>3, <3>5
    <3> QED
      BY <3>4, <3>5, <3>6
  <2>4. PICK rest \in Seq(Pieces) : text = id \o rest
    <3>1. TextOf(frame.written) \in Seq(Texts)
      BY <1>1, TextOfPieces
    <3>2. TextOf(frame.written) \in Seq(Pieces)
      BY <3>1 DEF Pieces
    <3>3. <<>> \in Seq(Pieces) /\ <<Separator>> \o TextOf(frame.written) \in Seq(Pieces)
      BY <2>2, <3>2, FewPieces
    <3> QED
      BY <2>1, <3>3 DEF MessageText
  <2>5. text \in Seq(Pieces) /\ Bytes(text) \in Nat /\ Bytes(text) >= Bytes(id)
    <3> HIDE DEF text
    <3> QED
      BY <2>3, <2>4, TextsGrow
  <2> QED
    BY <2>3, <2>5
<1> HIDE DEF text
<1>6. PICK all : all = text \o AttributesText(frame.attributes)
  OBVIOUS
<1>7. stream \in StreamValues /\ AttributesText(frame.attributes) \in Seq(Pieces)
        /\ Gathers(stream, all, b)
  BY <1>1, <1>2, <1>4, <1>5, <1>6, AttributesGather DEF AppendAttributes
<1>8. all \in Seq(Pieces) /\ Bytes(all) \in Nat /\ Bytes(all) > 0
  <2>1. all \in Seq(Pieces) /\ Bytes(all) \in Nat /\ Bytes(all) >= Bytes(text)
    BY <1>5, <1>6, <1>7, TextsGrow
  <2> QED
    BY <1>5, <2>1
<1>9. RecordText(frame) = all
  BY <1>6 DEF RecordText, text
<1>10. stream.size \in 0..Capacity /\ stream.failed \in BOOLEAN /\ stream.logger = Logger
  BY <1>7 DEF StreamValues
<1>11. IsComplete(frame) <=> ~b /\ ~(Bytes(all) > Capacity)
  <2>1. Bytes(all) <= Capacity <=> ~(Bytes(all) > Capacity)
    BY <1>8, CapacityAssumption
  <2> QED
    BY <1>1, <1>3, <1>9, <2>1 DEF IsComplete
<1>12. Submits(stream) <=> ~stream.failed
  <2>1. ASSUME ~stream.failed PROVE stream.size # 0
    BY <1>7, <1>8, <2>1 DEF Gathers
  <2> QED
    BY <1>7, <1>10, <2>1, LoggerAssumption DEF Submits, Accumulates, Gathers
<1>13. ~stream.failed => ~b /\ ~(Bytes(all) > Capacity) /\ stream.content = all
  BY <1>7, <1>8, <1>10, CapacityAssumption DEF Gathers
<1>14. stream.failed => b \/ Bytes(all) > Capacity
  BY <1>7 DEF Gathers
<1> QED
  BY <1>8, <1>9, <1>11, <1>12, <1>13, <1>14

-----------------------------------------------------------------------------
(* The history, one event at a time *)

\* One more event changes the events of its own kind and call only.
LEMMA OneMoreEvent ==
    ASSUME NEW past \in Seq(EventValues), NEW e \in EventValues, NEW kind, NEW call
    PROVE  EventsIn(Append(past, e), kind, call) =
             IF e.kind = kind /\ e.call = call
             THEN EventsIn(past, kind, call) \cup {Len(past) + 1}
             ELSE EventsIn(past, kind, call)
<1> DEFINE n == Len(past)
<1> DEFINE next == Append(past, e)
<1>1. /\ n \in Nat /\ DOMAIN past = 1..n /\ DOMAIN next = 1..(n + 1) /\ next[n + 1] = e
      /\ \A i \in 1..n : next[i] = past[i]
  OBVIOUS
<1> HIDE DEF n, next
<1>2. \A i : i \in 1..(n + 1) <=> i \in 1..n \/ i = n + 1
  BY <1>1
<1>3. EventsIn(next, kind, call) = IF e.kind = kind /\ e.call = call
                                   THEN EventsIn(past, kind, call) \cup {n + 1}
                                   ELSE EventsIn(past, kind, call)
  BY <1>1, <1>2 DEF EventsIn
<1> QED
  BY <1>3 DEF n, next

\* What happened, of another kind or to another call, is what it was.
LEMMA OthersHappened ==
    ASSUME NEW past \in Seq(EventValues), NEW e \in EventValues, NEW kind, NEW call, NEW once,
           ~(e.kind = kind /\ e.call = call), Happened(past, kind, call, once)
    PROVE  Happened(Append(past, e), kind, call, once)
<1>1. EventsIn(Append(past, e), kind, call) = EventsIn(past, kind, call)
  BY OneMoreEvent
<1>2. \A i \in DOMAIN past : i \in DOMAIN Append(past, e)
  OBVIOUS
<1> QED
  BY <1>1, <1>2 DEF Happened

\* What had not happened has happened once.
LEMMA ThisHappened ==
    ASSUME NEW past \in Seq(EventValues), NEW e \in EventValues,
           EventsIn(past, e.kind, e.call) = {}, NEW once, once
    PROVE  /\ EventsIn(Append(past, e), e.kind, e.call) = {Len(past) + 1}
           /\ Happened(Append(past, e), e.kind, e.call, once)
<1>1. EventsIn(Append(past, e), e.kind, e.call) = EventsIn(past, e.kind, e.call) \cup {Len(past) + 1}
  BY OneMoreEvent
<1>2. Len(past) + 1 \in DOMAIN Append(past, e)
  OBVIOUS
<1> QED
  BY <1>1, <1>2 DEF Happened

\* Other calls have done what they had.
LEMMA OthersHaveDone ==
    ASSUME NEW past \in Seq(EventValues), NEW e \in EventValues, NEW call, e.call # call,
           NEW submitted, NEW traced, HasDone(past, call, submitted, traced)
    PROVE  HasDone(Append(past, e), call, submitted, traced)
<1>1. EventsIn(Append(past, e), "return", call) = {}
  BY OneMoreEvent DEF HasDone
<1>2. Happened(Append(past, e), "trace", call, traced)
  BY OthersHappened DEF HasDone
<1>3. Happened(Append(past, e), "submit", call, submitted)
  BY OthersHappened DEF HasDone
<1> QED
  BY <1>1, <1>2, <1>3 DEF HasDone

\* The call of an event is none of those under way.
IsApart(stack, call) == \A m \in DOMAIN stack : stack[m].call # call

\* What an event must meet.
IsTimely(past, e) ==
    /\ EventsIn(past, "return", e.call) = {}
    /\ e.kind = "submit" => /\ e.content = RecordText(e)
                            /\ EventsIn(past, "trace", e.call) = {}
    /\ e.kind = "return" =>
         /\ Happened(past, "trace", e.call, e.message.toTrace)
         /\ Happened(past, "submit", e.call, IsComplete(e))
         /\ \A j \in DOMAIN past : past[j].kind \in {"submit", "trace"} =>
              e.within # [call |-> past[j].call, step |-> "Render"]

\* One more event keeps the history.
LEMMA EventKeepsPast ==
    ASSUME NEW stack \in Seq(FrameValues), NEW past, NEW n, PastHolds(stack, past, n),
           NEW e \in EventValues, e.call \in 1..n, IsApart(stack, e.call), IsTimely(past, e)
    PROVE  PastHolds(stack, Append(past, e), n)
<1> DEFINE size == Len(past)
<1> DEFINE next == Append(past, e)
<1>1. past \in Seq(EventValues)
  BY DEF PastHolds
<1>2. /\ next \in Seq(EventValues)
      /\ size \in Nat /\ DOMAIN past = 1..size /\ DOMAIN next = 1..(size + 1) /\ next[size + 1] = e
      /\ \A i \in 1..size : next[i] = past[i]
  BY <1>1
<1> HIDE DEF size
<1>3. \A i : i \in 1..(size + 1) <=> i \in 1..size \/ i = size + 1
  BY <1>2
<1>4. \A i \in DOMAIN next : next[i].call \in 1..n
  BY <1>2, <1>3 DEF PastHolds
<1>5. FramesHaveDone(stack, next)
  <2> SUFFICES ASSUME NEW m \in DOMAIN stack
               PROVE  HasDone(next, stack[m].call,
                              stack[m].step = "Trace" /\ IsComplete(stack[m]),
                              stack[m].step = "Trace")
    BY DEF FramesHaveDone
  <2>1. HasDone(past, stack[m].call,
                stack[m].step = "Trace" /\ IsComplete(stack[m]), stack[m].step = "Trace")
    BY DEF PastHolds, FramesHaveDone
  <2>2. stack[m].call # e.call
    BY DEF IsApart
  <2>3. PICK submitted, traced :
          /\ submitted = (stack[m].step = "Trace" /\ IsComplete(stack[m]))
          /\ traced = (stack[m].step = "Trace")
    OBVIOUS
  <2>4. HasDone(past, stack[m].call, submitted, traced)
    BY <2>1, <2>3
  <2>5. HasDone(next, stack[m].call, submitted, traced)
    BY <1>1, <2>2, <2>4, OthersHaveDone
  <2> QED
    BY <2>3, <2>5
<1>6. ReturnsAreLast(next)
  <2> SUFFICES ASSUME NEW i \in DOMAIN next, next[i].kind = "return"
               PROVE  /\ EventsIn(next, "return", next[i].call) = {i}
                      /\ Happened(next, "trace", next[i].call, next[i].message.toTrace)
                      /\ Happened(next, "submit", next[i].call, IsComplete(next[i]))
    BY DEF ReturnsAreLast
  <2>1. CASE i \in 1..size
    <3>1. next[i] = past[i] /\ i \in DOMAIN past
      BY <1>2, <2>1
    <3>2. /\ EventsIn(past, "return", past[i].call) = {i}
          /\ Happened(past, "trace", past[i].call, past[i].message.toTrace)
          /\ Happened(past, "submit", past[i].call, IsComplete(past[i]))
      BY <3>1 DEF PastHolds, ReturnsAreLast
    <3>3. e.call # past[i].call
      BY <3>2 DEF IsTimely
    <3>4. EventsIn(next, "return", past[i].call) = {i}
      BY <1>1, <3>2, <3>3, OneMoreEvent
    <3>5. Happened(next, "trace", past[i].call, past[i].message.toTrace)
      BY <1>1, <3>2, <3>3, OthersHappened
    <3>6. Happened(next, "submit", past[i].call, IsComplete(past[i]))
      BY <1>1, <3>2, <3>3, OthersHappened
    <3> QED
      BY <3>1, <3>4, <3>5, <3>6
  <2>2. CASE i = size + 1
    <3>1. next[i] = e /\ e.kind = "return"
      BY <1>2, <2>2
    <3>2. EventsIn(next, "return", e.call) = {size + 1}
      <4>1. EventsIn(past, e.kind, e.call) = {}
        BY <3>1 DEF IsTimely
      <4>2. EventsIn(next, e.kind, e.call) = EventsIn(past, e.kind, e.call) \cup {Len(past) + 1}
        BY <1>1, OneMoreEvent
      <4> QED
        BY <3>1, <4>1, <4>2 DEF size
    <3>3. Happened(next, "trace", e.call, e.message.toTrace)
      BY <1>1, <3>1, OthersHappened DEF IsTimely
    <3>4. Happened(next, "submit", e.call, IsComplete(e))
      BY <1>1, <3>1, OthersHappened DEF IsTimely
    <3> QED
      BY <2>2, <3>1, <3>2, <3>3, <3>4
  <2> QED
    BY <1>2, <1>3, <2>1, <2>2
<1>7. RecordsMatch(next)
  <2>1. \A i \in 1..size : past[i].kind = "submit" => past[i].content = RecordText(past[i])
    BY <1>2 DEF PastHolds, RecordsMatch
  <2>2. e.kind = "submit" => e.content = RecordText(e)
    BY DEF IsTimely
  <2> HIDE DEF next
  <2> QED
    BY <1>2, <1>3, <2>1, <2>2 DEF RecordsMatch
<1>8. EventsAreOrdered(next)
  <2>1. ASSUME NEW i \in DOMAIN next, NEW j \in DOMAIN next,
               next[i].kind = "submit", next[j].kind = "trace", next[i].call = next[j].call
        PROVE  i < j
    <3>1. CASE i \in 1..size /\ j \in 1..size
      <4>1. next[i] = past[i] /\ next[j] = past[j] /\ i \in DOMAIN past /\ j \in DOMAIN past
        BY <1>2, <3>1
      <4> QED
        BY <2>1, <4>1 DEF PastHolds, EventsAreOrdered
    <3>2. CASE i \in 1..size /\ j = size + 1
      BY <1>2, <3>2
    <3>3. CASE i = size + 1 /\ j \in 1..size
      <4>1. next[i] = e /\ next[j] = past[j] /\ j \in DOMAIN past
        BY <1>2, <3>3
      <4>2. j \in EventsIn(past, "trace", e.call)
        BY <2>1, <4>1 DEF EventsIn
      <4> QED
        BY <2>1, <4>1, <4>2 DEF IsTimely
    <3>4. CASE i = size + 1 /\ j = size + 1
      BY <2>1, <3>4
    <3> QED
      BY <1>2, <1>3, <3>1, <3>2, <3>3, <3>4
  <2>2. ASSUME NEW i \in DOMAIN next, NEW j \in DOMAIN next,
               next[i].kind = "return", next[j].kind \in {"submit", "trace"},
               next[i].within = [call |-> next[j].call, step |-> "Render"]
        PROVE  i < j
    <3>1. CASE i \in 1..size /\ j \in 1..size
      <4>1. next[i] = past[i] /\ next[j] = past[j] /\ i \in DOMAIN past /\ j \in DOMAIN past
        BY <1>2, <3>1
      <4> QED
        BY <2>2, <4>1 DEF PastHolds, EventsAreOrdered
    <3>2. CASE i \in 1..size /\ j = size + 1
      BY <1>2, <3>2
    <3>3. CASE i = size + 1 /\ j \in 1..size
      <4>1. next[i] = e /\ next[j] = past[j] /\ j \in DOMAIN past
        BY <1>2, <3>3
      <4> QED
        BY <2>2, <4>1 DEF IsTimely
    <3>4. CASE i = size + 1 /\ j = size + 1
      BY <2>2, <3>4
    <3> QED
      BY <1>2, <1>3, <3>1, <3>2, <3>3, <3>4
  <2> HIDE DEF next
  <2> QED
    BY <2>1, <2>2 DEF EventsAreOrdered
<1> QED
  BY <1>2, <1>4, <1>5, <1>6, <1>7, <1>8 DEF PastHolds

-----------------------------------------------------------------------------
(* The stack of calls *)

\* A call on top of these.
IsOnTop(stack, frame) ==
    /\ frame.within = Within(stack)
    /\ \A m \in DOMAIN stack : stack[m].call < frame.call

\* One more call.
LEMMA PushHolds ==
    ASSUME NEW stack, NEW n, StackHolds(stack, n), NEW frame, FrameHolds(frame, n),
           IsOnTop(stack, frame)
    PROVE  StackHolds(Append(stack, frame), n)
<1> DEFINE size == Len(stack)
<1> DEFINE next == Append(stack, frame)
<1>1. stack \in Seq(FrameValues) /\ frame \in FrameValues
  BY DEF StackHolds, FrameHolds
<1>2. /\ next \in Seq(FrameValues) /\ size \in Nat /\ DOMAIN stack = 1..size
      /\ DOMAIN next = 1..(size + 1) /\ next[size + 1] = frame
      /\ \A i \in 1..size : next[i] = stack[i]
      /\ stack = <<>> <=> size = 0
  BY <1>1
<1> HIDE DEF size, next
<1>3. ASSUME NEW m \in DOMAIN next
      PROVE  /\ FrameHolds(next[m], n)
             /\ \A l \in 1..(m - 1) : next[l].call < next[m].call
             /\ next[m].within = IF m = 1 THEN [call |-> 0, step |-> "Idle"]
                                 ELSE [call |-> next[m - 1].call, step |-> next[m - 1].step]
  <2>1. CASE m \in 1..size
    <3>1. m \in DOMAIN stack /\ next[m] = stack[m]
          /\ \A l \in 1..(m - 1) : l \in 1..size /\ next[l] = stack[l]
      BY <1>2, <2>1
    <3>2. m # 1 => next[m - 1] = stack[m - 1]
      <4>1. m # 1 => m - 1 \in 1..size
        BY <1>2, <2>1
      <4> QED
        BY <1>2, <4>1
    <3> QED
      BY <3>1, <3>2 DEF StackHolds
  <2>2. CASE m = size + 1
    <3>1. next[m] = frame /\ m - 1 = size
      BY <1>2, <2>2
    <3>2. \A l \in 1..(m - 1) : next[l].call < next[m].call
      BY <1>2, <3>1 DEF IsOnTop
    <3>3. CASE size = 0
      <4>1. m = 1 /\ stack = <<>>
        BY <1>2, <2>2, <3>3
      <4> QED
        BY <3>1, <3>2, <4>1 DEF IsOnTop, Within
    <3>4. CASE size # 0
      <4>1. m # 1 /\ stack # <<>> /\ next[m - 1] = stack[size]
        BY <1>2, <2>2, <3>1, <3>4
      <4> QED
        BY <3>1, <3>2, <4>1 DEF IsOnTop, Within, size
    <3> QED
      BY <3>3, <3>4
  <2> QED
    BY <1>2, <1>3, <2>1, <2>2
<1>4. StackHolds(next, n)
  BY <1>2, <1>3 DEF StackHolds
<1> QED
  BY <1>4 DEF next

\* One call less.
LEMMA PopHolds ==
    ASSUME NEW stack, NEW n, StackHolds(stack, n), stack # <<>>
    PROVE  /\ StackHolds(Front(stack), n)
           /\ FrameHolds(stack[Len(stack)], n) /\ IsOnTop(Front(stack), stack[Len(stack)])
           /\ Len(Front(stack)) = Len(stack) - 1
           /\ \A i \in DOMAIN Front(stack) : i \in DOMAIN stack /\ Front(stack)[i] = stack[i]
<1> DEFINE size == Len(stack)
<1> DEFINE front == Front(stack)
<1>1. stack \in Seq(FrameValues) /\ size \in Nat /\ size # 0 /\ DOMAIN stack = 1..size
  BY DEF StackHolds
<1>2. /\ front \in Seq(FrameValues) /\ Len(front) = size - 1 /\ DOMAIN front = 1..(size - 1)
      /\ \A i \in 1..(size - 1) : front[i] = stack[i]
  <2>1. front = SubSeq(stack, 1, size - 1)
    BY DEF Front
  <2> QED
    BY <1>1, <2>1
<1> HIDE DEF size, front
<1>3. \A m \in 1..size : /\ FrameHolds(stack[m], n)
                         /\ \A l \in 1..(m - 1) : stack[l].call < stack[m].call
                         /\ stack[m].within = IF m = 1 THEN [call |-> 0, step |-> "Idle"]
                              ELSE [call |-> stack[m - 1].call, step |-> stack[m - 1].step]
  BY <1>1 DEF StackHolds
<1>4. StackHolds(front, n)
  <2> SUFFICES ASSUME NEW m \in 1..(size - 1)
               PROVE  /\ FrameHolds(front[m], n)
                      /\ \A l \in 1..(m - 1) : front[l].call < front[m].call
                      /\ front[m].within = IF m = 1 THEN [call |-> 0, step |-> "Idle"]
                           ELSE [call |-> front[m - 1].call, step |-> front[m - 1].step]
    BY <1>2 DEF StackHolds
  <2>1. m \in 1..size /\ front[m] = stack[m]
        /\ \A l \in 1..(m - 1) : l \in 1..(size - 1) /\ front[l] = stack[l]
    BY <1>1, <1>2
  <2>2. m # 1 => front[m - 1] = stack[m - 1]
    <3>1. m # 1 => m - 1 \in 1..(size - 1)
      BY <1>1
    <3> QED
      BY <1>2, <3>1
  <2> QED
    BY <1>3, <2>1, <2>2
<1>5. size \in 1..size /\ FrameHolds(stack[size], n)
  <2>1. size \in 1..size
    BY <1>1
  <2> QED
    BY <1>3, <2>1
<1>6. IsOnTop(front, stack[size])
  <2>1. \A l \in 1..(size - 1) : front[l].call < stack[size].call
    BY <1>2, <1>3, <1>5
  <2>2. stack[size].within = Within(front)
    <3>1. CASE size = 1
      <4>1. front = <<>>
        BY <1>2, <3>1
      <4> QED
        BY <1>3, <1>5, <3>1, <4>1 DEF Within
    <3>2. CASE size # 1
      <4>1. front # <<>> /\ size - 1 \in 1..(size - 1)
        BY <1>1, <1>2, <3>2
      <4>2. front[Len(front)] = stack[size - 1]
        BY <1>2, <4>1
      <4> QED
        BY <1>3, <1>5, <3>2, <4>1, <4>2 DEF Within
    <3> QED
      BY <3>1, <3>2
  <2> QED
    BY <1>2, <2>1, <2>2 DEF IsOnTop
<1>7. \A i \in DOMAIN front : i \in DOMAIN stack /\ front[i] = stack[i]
  BY <1>1, <1>2
<1> QED
  BY <1>2, <1>4, <1>5, <1>6, <1>7 DEF size, front

-----------------------------------------------------------------------------
(* What the steps add to the history *)

\* An event of a call.
LEMMA EventIsTyped ==
    ASSUME NEW kind \in {"submit", "trace", "return"}, NEW frame \in FrameValues,
           NEW content \in Seq(Pieces), NEW e, e = Event(kind, frame, content)
    PROVE  /\ e \in EventValues
           /\ e.kind = kind /\ e.call = frame.call /\ e.within = frame.within
           /\ e.message = frame.message /\ e.content = content
           /\ IsComplete(e) <=> IsComplete(frame)
           /\ RecordText(e) = RecordText(frame)
<1>1. /\ frame.call \in Nat /\ frame.within \in [call : Nat, step : {"Idle", "Render", "Trace"}]
      /\ frame.message \in Messages /\ frame.attributes \in Attributes /\ frame.written \in Seq(Texts)
  BY DEF FrameValues
<1>2. /\ e.kind = kind /\ e.call = frame.call /\ e.within = frame.within
      /\ e.message = frame.message /\ e.content = content
      /\ e.attributes = frame.attributes /\ e.written = frame.written
  BY DEF Event
<1>3. e \in EventValues
  BY <1>1 DEF EventValues, Event
<1>4. RecordText(e) = RecordText(frame)
  BY <1>2 DEF RecordText
<1>5. IsComplete(e) <=> IsComplete(frame)
  BY <1>2, <1>4 DEF IsComplete, WroteNull
<1> QED
  BY <1>2, <1>3, <1>4, <1>5

\* The call that made another has done nothing while it renders.
LEMMA OuterHasDoneNothing ==
    ASSUME NEW stack, NEW past, NEW n, StackHolds(stack, n), PastHolds(stack, past, n),
           NEW frame, IsOnTop(stack, frame),
           NEW j \in DOMAIN past, past[j].kind \in {"submit", "trace"}
    PROVE  frame.within # [call |-> past[j].call, step |-> "Render"]
<1> SUFFICES ASSUME frame.within = [call |-> past[j].call, step |-> "Render"] PROVE FALSE
  OBVIOUS
<1>1. Within(stack).step = "Render" /\ Within(stack).call = past[j].call
  BY DEF IsOnTop
<1>2. stack # <<>>
  BY <1>1 DEF Within
<1>3. stack \in Seq(FrameValues)
  BY DEF StackHolds
<1>4. Len(stack) \in DOMAIN stack
  BY <1>2, <1>3
<1>5. PICK outer : outer = stack[Len(stack)]
  OBVIOUS
<1>6. outer.step = "Render" /\ outer.call = past[j].call
  BY <1>1, <1>2, <1>5 DEF Within
<1>7. HasDone(past, outer.call, outer.step = "Trace" /\ IsComplete(outer), outer.step = "Trace")
  BY <1>4, <1>5 DEF PastHolds, FramesHaveDone
<1>8. EventsIn(past, "trace", outer.call) = {} /\ EventsIn(past, "submit", outer.call) = {}
  BY <1>6, <1>7 DEF HasDone, Happened
<1> QED
  BY <1>6, <1>8 DEF EventsIn

\* A return, once everything else has been done.
LEMMA ReturnKeepsPast ==
    ASSUME NEW stack, NEW past, NEW n, StackHolds(stack, n), PastHolds(stack, past, n),
           NEW frame \in FrameValues, frame.call \in 1..n, IsOnTop(stack, frame),
           NEW submitted, NEW traced, HasDone(past, frame.call, submitted, traced),
           submitted <=> IsComplete(frame), traced <=> frame.message.toTrace
    PROVE  PastHolds(stack, Append(past, Event("return", frame, <<>>)), n)
<1>1. PICK e : e = Event("return", frame, <<>>)
  OBVIOUS
<1>2. stack \in Seq(FrameValues)
  BY DEF StackHolds
<1>3. /\ e \in EventValues /\ e.kind = "return" /\ e.call = frame.call /\ e.within = frame.within
      /\ e.message = frame.message /\ (IsComplete(e) <=> IsComplete(frame))
  <2>1. PICK kind \in {"submit", "trace", "return"}, none \in Seq(Pieces) :
          kind = "return" /\ none = <<>>
    <3>1. "return" \in {"submit", "trace", "return"} /\ <<>> \in Seq(Pieces)
      OBVIOUS
    <3> QED
      BY <3>1, Zenon
  <2>2. e = Event(kind, frame, none)
    BY <1>1, <2>1
  <2>3. /\ e \in EventValues /\ e.kind = kind /\ e.call = frame.call /\ e.within = frame.within
        /\ e.message = frame.message /\ (IsComplete(e) <=> IsComplete(frame))
    BY <2>2, EventIsTyped
  <2> QED
    BY <2>1, <2>3
<1>4. IsApart(stack, e.call)
  <2>1. ASSUME NEW m \in DOMAIN stack PROVE stack[m].call # frame.call
    <3>1. stack[m].call < frame.call /\ stack[m].call \in 1..n
      BY DEF IsOnTop, StackHolds, FrameHolds
    <3> QED
      BY <3>1
  <2> QED
    BY <1>3, <2>1 DEF IsApart
<1>5. IsTimely(past, e)
  <2>1. EventsIn(past, "return", e.call) = {}
    BY <1>3 DEF HasDone
  <2>2. Happened(past, "trace", e.call, e.message.toTrace)
    BY <1>3 DEF HasDone, Happened
  <2>3. Happened(past, "submit", e.call, IsComplete(e))
    BY <1>3 DEF HasDone, Happened
  <2>4. \A j \in DOMAIN past : past[j].kind \in {"submit", "trace"} =>
          e.within # [call |-> past[j].call, step |-> "Render"]
    BY <1>3, OuterHasDoneNothing
  <2> QED
    BY <1>3, <2>1, <2>2, <2>3, <2>4 DEF IsTimely
<1>6. PastHolds(stack, Append(past, e), n)
  BY <1>2, <1>3, <1>4, <1>5, EventKeepsPast
<1> QED
  BY <1>1, <1>6

\* A submission or a trace of a call on top of these.
LEMMA OtherEventKeepsPast ==
    ASSUME NEW stack, NEW past, NEW n, StackHolds(stack, n), PastHolds(stack, past, n),
           NEW frame \in FrameValues, frame.call \in 1..n, IsOnTop(stack, frame),
           NEW e \in EventValues, e.call = frame.call, IsTimely(past, e)
    PROVE  PastHolds(stack, Append(past, e), n)
<1>1. stack \in Seq(FrameValues)
  BY DEF StackHolds
<1>2. IsApart(stack, e.call)
  <2>1. ASSUME NEW m \in DOMAIN stack PROVE stack[m].call # frame.call
    <3>1. stack[m].call < frame.call /\ stack[m].call \in 1..n
      BY DEF IsOnTop, StackHolds, FrameHolds
    <3> QED
      BY <3>1
  <2> QED
    BY <2>1 DEF IsApart
<1> QED
  BY <1>1, <1>2, EventKeepsPast

\* One more call under way.
LEMMA PushKeepsPast ==
    ASSUME NEW stack \in Seq(FrameValues), NEW past, NEW n, PastHolds(stack, past, n),
           NEW frame \in FrameValues, NEW submitted, NEW traced,
           HasDone(past, frame.call, submitted, traced),
           submitted <=> frame.step = "Trace" /\ IsComplete(frame), traced <=> frame.step = "Trace"
    PROVE  PastHolds(Append(stack, frame), past, n)
<1> DEFINE size == Len(stack)
<1> DEFINE next == Append(stack, frame)
<1>1. /\ size \in Nat /\ DOMAIN stack = 1..size /\ DOMAIN next = 1..(size + 1)
      /\ next[size + 1] = frame /\ \A i \in 1..size : next[i] = stack[i]
  OBVIOUS
<1> HIDE DEF size, next
<1>2. ASSUME NEW m \in DOMAIN next
      PROVE  HasDone(past, next[m].call, next[m].step = "Trace" /\ IsComplete(next[m]),
                     next[m].step = "Trace")
  <2>1. CASE m \in 1..size
    BY <1>1, <2>1 DEF PastHolds, FramesHaveDone
  <2>2. CASE m = size + 1
    <3>1. HasDone(past, frame.call, frame.step = "Trace" /\ IsComplete(frame), frame.step = "Trace")
      BY DEF HasDone, Happened
    <3> QED
      BY <1>1, <2>2, <3>1
  <2>3. m \in 1..size \/ m = size + 1
    BY <1>1
  <2> QED
    BY <2>1, <2>2, <2>3
<1>3. PastHolds(next, past, n)
  BY <1>2 DEF PastHolds, FramesHaveDone
<1> QED
  BY <1>3 DEF next

\* The call is over for the logger.
LEMMA FinishHolds ==
    ASSUME NEW before, NEW past, NEW n, StackHolds(before, n), PastHolds(before, past, n),
           NEW frame \in FrameValues, frame.call \in 1..n, IsOnTop(before, frame),
           NEW submitted, NEW traced, HasDone(past, frame.call, submitted, traced),
           submitted <=> IsComplete(frame), ~traced,
           TraceOrReturn(frame, before, past)
    PROVE  StackHolds(frames', n) /\ PastHolds(frames', history', n)
<1>1. frame.message \in Messages /\ frame.message.toTrace \in BOOLEAN
  BY MessagesAssumption DEF FrameValues
<1>2. CASE frame.message.toTrace
  <2>1. PICK top, e : /\ top = [frame EXCEPT !.step = "Trace", !.stream = Null]
                      /\ e = Event("trace", frame, <<>>)
    OBVIOUS
  <2>2. frames' = Append(before, top) /\ history' = Append(past, e)
    BY <1>2, <2>1 DEF TraceOrReturn
  <2>3. /\ top \in FrameValues /\ top.step = "Trace" /\ top.stream = Null
        /\ top.call = frame.call /\ top.within = frame.within /\ top.message = frame.message
        /\ top.attributes = frame.attributes /\ top.written = frame.written
    BY <2>1 DEF FrameValues
  <2>4. IsComplete(top) <=> IsComplete(frame)
    <3>1. RecordText(top) = RecordText(frame)
      BY <2>3 DEF RecordText
    <3> QED
      BY <2>3, <3>1 DEF IsComplete, WroteNull
  <2>5. FrameHolds(top, n) /\ IsOnTop(before, top)
    BY <1>2, <2>3 DEF FrameHolds, IsOnTop
  <2>6. PICK kind \in {"submit", "trace", "return"}, none \in Seq(Pieces) :
          kind = "trace" /\ none = <<>>
    <3>1. "trace" \in {"submit", "trace", "return"} /\ <<>> \in Seq(Pieces)
      OBVIOUS
    <3> QED
      BY <3>1, Zenon
  <2>7. e \in EventValues /\ e.kind = "trace" /\ e.call = frame.call
    <3>1. e = Event(kind, frame, none)
      BY <2>1, <2>6
    <3>2. e \in EventValues /\ e.kind = kind /\ e.call = frame.call
      BY <3>1, EventIsTyped
    <3> QED
      BY <2>6, <3>2
  <2>8. IsTimely(past, e)
    BY <2>7 DEF IsTimely, HasDone
  <2>9. PastHolds(before, history', n)
    BY <2>2, <2>7, <2>8, OtherEventKeepsPast
  <2>10. past \in Seq(EventValues) /\ before \in Seq(FrameValues)
    BY DEF PastHolds, StackHolds
  <2>11. PICK yes \in BOOLEAN : yes
    OBVIOUS
  <2>12. HasDone(history', top.call, submitted, yes)
    <3>1. EventsIn(past, "trace", frame.call) = {}
      BY DEF HasDone, Happened
    <3>2. Happened(history', "trace", frame.call, yes)
      BY <2>2, <2>7, <2>10, <2>11, <3>1, ThisHappened
    <3>3. Happened(history', "submit", frame.call, submitted)
      BY <2>2, <2>7, <2>10, OthersHappened DEF HasDone
    <3>4. EventsIn(history', "return", frame.call) = {}
      BY <2>2, <2>7, <2>10, OneMoreEvent DEF HasDone
    <3> QED
      BY <2>3, <3>2, <3>3, <3>4 DEF HasDone
  <2>13. PastHolds(frames', history', n)
    BY <2>2, <2>3, <2>4, <2>9, <2>10, <2>11, <2>12, PushKeepsPast
  <2> QED
    BY <2>2, <2>5, <2>13, PushHolds
<1>3. CASE ~frame.message.toTrace
  <2>1. frames' = before /\ history' = Append(past, Event("return", frame, <<>>))
    BY <1>3 DEF TraceOrReturn
  <2>2. PastHolds(before, Append(past, Event("return", frame, <<>>)), n)
    BY <1>3, ReturnKeepsPast
  <2> QED
    BY <2>1, <2>2
<1> QED
  BY <1>1, <1>2, <1>3

-----------------------------------------------------------------------------
(* The steps *)

\* At first there are no calls.
LEMMA InitHolds == Init => Inv
<1> SUFFICES ASSUME Init PROVE Inv
  OBVIOUS
<1>1. frames = <<>> /\ history = <<>> /\ calls = 0
  BY DEF Init
<1>2. StackHolds(frames, calls)
  BY <1>1 DEF StackHolds
<1>3. PastHolds(frames, history, calls)
  BY <1>1 DEF PastHolds, FramesHaveDone, ReturnsAreLast, RecordsMatch, EventsAreOrdered
<1>4. calls \in 0..MaxCalls
  BY <1>1, BoundsAssumption
<1> QED
  BY <1>2, <1>3, <1>4 DEF Inv

\* A call.
LEMMA CallHolds ==
    ASSUME Inv, NEW message \in Messages, NEW attributes \in Attributes, LogWith(message, attributes)
    PROVE  Inv'
<1> DEFINE n == calls + 1
<1>1. /\ calls \in Nat /\ calls' = n /\ n \in 0..MaxCalls
      /\ StackHolds(frames, calls) /\ PastHolds(frames, history, calls)
  BY BoundsAssumption DEF Inv, LogWith, MayCall
<1>2. PICK frame : frame = NewFrame(message, attributes)
  OBVIOUS
<1>3. /\ frame \in FrameValues
      /\ frame.call = n /\ frame.within = Within(frames) /\ frame.step = "Render"
      /\ frame.message = message
      /\ IsRendered(message) => FrameHolds(frame, n)
  BY <1>1, <1>2, NewFrameHolds
<1>4. \A c \in 1..calls : c \in 1..n /\ c # n /\ c < n
  BY <1>1
<1>5. n \in 1..n
  BY <1>1
<1> HIDE DEF n
<1>6. StackHolds(frames, n)
  BY <1>1, <1>4 DEF StackHolds, FrameHolds
<1>7. PastHolds(frames, history, n)
  BY <1>1, <1>4 DEF PastHolds
<1>8. IsOnTop(frames, frame)
  BY <1>1, <1>3, <1>4 DEF IsOnTop, StackHolds, FrameHolds
<1>9. PICK no \in BOOLEAN : ~no
  OBVIOUS
<1>10. HasDone(history, frame.call, no, no)
  <2>1. \A kind : EventsIn(history, kind, n) = {}
    BY <1>1, <1>4 DEF EventsIn, PastHolds
  <2> QED
    BY <1>3, <1>9, <2>1 DEF HasDone, Happened
<1>11. StackHolds(frames', n) /\ PastHolds(frames', history', n)
  <2>1. CASE IsRendered(message)
    <3>1. frames' = Append(frames, frame) /\ history' = history
      BY <1>2, <2>1 DEF LogWith
    <3>2. frames \in Seq(FrameValues)
      BY <1>6 DEF StackHolds
    <3>3. PastHolds(frames', history', n)
      BY <1>3, <1>7, <1>9, <1>10, <3>1, <3>2, PushKeepsPast
    <3> QED
      BY <1>3, <1>6, <1>8, <2>1, <3>1, <3>3, PushHolds
  <2>2. CASE ~IsRendered(message)
    <3>1. TraceOrReturn(frame, frames, history)
      BY <1>2, <2>2 DEF LogWith
    <3>2. ~IsComplete(frame)
      BY <1>3, <2>2 DEF IsComplete
    <3> QED
      BY <1>3, <1>5, <1>6, <1>7, <1>8, <1>9, <1>10, <3>1, <3>2, FinishHolds
  <2> QED
    BY <2>1, <2>2
<1> QED
  BY <1>1, <1>11 DEF Inv

\* What is below the innermost call, and what that call has done.
LEMMA TopHolds ==
    ASSUME Inv, frames # <<>>, NEW before, before = Front(frames)
    PROVE  /\ StackHolds(before, calls) /\ PastHolds(before, history, calls)
           /\ before \in Seq(FrameValues) /\ Top \in FrameValues
           /\ FrameHolds(Top, calls) /\ IsOnTop(before, Top) /\ Top.call \in 1..calls
           /\ HasDone(history, Top.call, Top.step = "Trace" /\ IsComplete(Top), Top.step = "Trace")
<1>1. StackHolds(frames, calls) /\ PastHolds(frames, history, calls)
  BY DEF Inv
<1>2. /\ StackHolds(before, calls) /\ FrameHolds(Top, calls) /\ IsOnTop(before, Top)
      /\ \A i \in DOMAIN before : i \in DOMAIN frames /\ before[i] = frames[i]
  BY <1>1, PopHolds DEF Top
<1>3. PastHolds(before, history, calls)
  BY <1>1, <1>2 DEF PastHolds, FramesHaveDone
<1>4. Len(frames) \in DOMAIN frames
  <2>1. frames \in Seq(FrameValues)
    BY <1>1 DEF StackHolds
  <2> QED
    BY <2>1
<1>5. HasDone(history, Top.call, Top.step = "Trace" /\ IsComplete(Top), Top.step = "Trace")
  BY <1>1, <1>4 DEF PastHolds, FramesHaveDone, Top
<1> QED
  BY <1>2, <1>3, <1>5 DEF StackHolds, FrameHolds

\* Render writes a value.
LEMMA WritesHolds ==
    ASSUME Inv, NEW value \in Texts, RenderWrites(value)
    PROVE  Inv'
<1>1. PICK before, frame, next :
        before = Front(frames) /\ frame = Top /\ next = Wrote(frame, value)
  OBVIOUS
<1>2. frames # <<>> /\ frame.step = "Render" /\ UNCHANGED <<calls, history>>
  BY <1>1 DEF RenderWrites
<1>3. /\ StackHolds(before, calls) /\ PastHolds(before, history, calls)
      /\ before \in Seq(FrameValues) /\ frame \in FrameValues
      /\ FrameHolds(frame, calls) /\ IsOnTop(before, frame)
      /\ HasDone(history, frame.call, frame.step = "Trace" /\ IsComplete(frame), frame.step = "Trace")
  BY <1>1, <1>2, TopHolds
<1>4. /\ FrameHolds(next, calls)
      /\ next.call = frame.call /\ next.within = frame.within /\ next.step = frame.step
  BY <1>1, <1>2, <1>3, WriteGathers
<1>5. frames' = Append(before, next)
  BY <1>1 DEF RenderWrites
<1>6. StackHolds(frames', calls)
  <2>1. IsOnTop(before, next)
    BY <1>3, <1>4 DEF IsOnTop
  <2> QED
    BY <1>3, <1>4, <1>5, <2>1, PushHolds
<1>7. PastHolds(frames', history, calls)
  <2>1. PICK no \in BOOLEAN : ~no
    OBVIOUS
  <2>2. HasDone(history, next.call, no, no)
    BY <1>2, <1>3, <1>4, <2>1 DEF HasDone, Happened
  <2>3. next \in FrameValues /\ next.step = "Render"
    BY <1>2, <1>4 DEF FrameHolds
  <2> QED
    BY <1>3, <1>5, <2>1, <2>2, <2>3, PushKeepsPast
<1> QED
  BY <1>2, <1>6, <1>7 DEF Inv

\* Render returns.
LEMMA RenderHolds ==
    ASSUME Inv, RenderReturns
    PROVE  Inv'
<1>1. PICK before, frame, stream : /\ before = Front(frames) /\ frame = Top
                                   /\ stream = FoldLeft(AppendAttribute, Top.stream, Top.attributes)
  OBVIOUS
<1>2. frames # <<>> /\ frame.step = "Render" /\ UNCHANGED calls
  BY <1>1 DEF RenderReturns
<1>3. /\ StackHolds(before, calls) /\ PastHolds(before, history, calls)
      /\ before \in Seq(FrameValues) /\ frame \in FrameValues
      /\ FrameHolds(frame, calls) /\ IsOnTop(before, frame) /\ frame.call \in 1..calls
      /\ HasDone(history, frame.call, frame.step = "Trace" /\ IsComplete(frame), frame.step = "Trace")
  BY <1>1, <1>2, TopHolds
<1>4. /\ Submits(stream) <=> IsComplete(frame)
      /\ Submits(stream) => stream.content = RecordText(frame)
      /\ RecordText(frame) \in Seq(Pieces)
  <2>1. stream = FoldLeft(AppendAttribute, frame.stream, frame.attributes)
    BY <1>1
  <2> QED
    BY <1>2, <1>3, <2>1, SubmitsComplete
<1>5. PICK no \in BOOLEAN : ~no
  OBVIOUS
<1>6. HasDone(history, frame.call, no, no)
  BY <1>2, <1>3, <1>5 DEF HasDone, Happened
<1>7. PICK past : past = IF Submits(stream)
                         THEN Append(history, Event("submit", frame, stream.content))
                         ELSE history
  OBVIOUS
<1>8. TraceOrReturn(frame, before, past)
  BY <1>1, <1>7 DEF RenderReturns
<1>9. StackHolds(frames', calls) /\ PastHolds(frames', history', calls)
  <2>1. CASE Submits(stream)
    <3>1. PICK e : e = Event("submit", frame, RecordText(frame))
      OBVIOUS
    <3>2. past = Append(history, e)
      BY <1>4, <1>7, <2>1, <3>1
    <3>3. /\ e \in EventValues /\ e.kind = "submit" /\ e.call = frame.call
          /\ e.content = RecordText(frame) /\ RecordText(e) = RecordText(frame)
      BY <1>3, <1>4, <3>1, EventIsTyped
    <3>4. IsTimely(history, e)
      BY <1>5, <1>6, <3>3 DEF IsTimely, HasDone, Happened
    <3>5. PastHolds(before, past, calls)
      BY <1>3, <3>2, <3>3, <3>4, OtherEventKeepsPast
    <3>6. PICK yes \in BOOLEAN : yes
      OBVIOUS
    <3>7. HasDone(past, frame.call, yes, no)
      <4>1. history \in Seq(EventValues)
        BY <1>3 DEF PastHolds
      <4>2. EventsIn(history, "submit", frame.call) = {}
        BY <1>5, <1>6 DEF HasDone, Happened
      <4>3. Happened(past, "submit", frame.call, yes)
        BY <3>2, <3>3, <3>6, <4>1, <4>2, ThisHappened
      <4>4. Happened(past, "trace", frame.call, no)
        BY <1>6, <3>2, <3>3, <4>1, OthersHappened DEF HasDone
      <4>5. EventsIn(past, "return", frame.call) = {}
        BY <1>6, <3>2, <3>3, <4>1, OneMoreEvent DEF HasDone
      <4> QED
        BY <4>3, <4>4, <4>5 DEF HasDone
    <3> QED
      BY <1>3, <1>4, <1>5, <1>8, <2>1, <3>5, <3>6, <3>7, FinishHolds
  <2>2. CASE ~Submits(stream)
    <3>1. past = history /\ ~IsComplete(frame)
      BY <1>4, <1>7, <2>2
    <3> QED
      BY <1>3, <1>5, <1>6, <1>8, <3>1, FinishHolds
  <2> QED
    BY <2>1, <2>2
<1> QED
  BY <1>2, <1>9 DEF Inv

\* The trace artifact returns.
LEMMA TraceHolds ==
    ASSUME Inv, TraceReturns
    PROVE  Inv'
<1>1. PICK before, frame : before = Front(frames) /\ frame = Top
  OBVIOUS
<1>2. /\ frames # <<>> /\ frame.step = "Trace" /\ UNCHANGED calls
      /\ frames' = before /\ history' = Append(history, Event("return", frame, <<>>))
  BY <1>1 DEF TraceReturns
<1>3. /\ StackHolds(before, calls) /\ PastHolds(before, history, calls)
      /\ before \in Seq(FrameValues) /\ frame \in FrameValues
      /\ FrameHolds(frame, calls) /\ IsOnTop(before, frame) /\ frame.call \in 1..calls
      /\ HasDone(history, frame.call, frame.step = "Trace" /\ IsComplete(frame), frame.step = "Trace")
  BY <1>1, <1>2, TopHolds
<1>4. PICK submitted, yes \in BOOLEAN : (submitted <=> IsComplete(frame)) /\ yes
  <2>1. IsComplete(frame) \in BOOLEAN
    BY DEF IsComplete, IsRendered, IsEnabled
  <2> QED
    BY <2>1
<1>5. HasDone(history, frame.call, submitted, yes)
  BY <1>2, <1>3, <1>4 DEF HasDone, Happened
<1>6. frame.message.toTrace
  BY <1>2, <1>3 DEF FrameHolds
<1>7. PastHolds(before, Append(history, Event("return", frame, <<>>)), calls)
  BY <1>3, <1>4, <1>5, <1>6, ReturnKeepsPast
<1> QED
  BY <1>2, <1>3, <1>7 DEF Inv

\* Every step keeps the invariant.
LEMMA NextHolds == Inv /\ [Next]_vars => Inv'
<1> SUFFICES ASSUME Inv, [Next]_vars PROVE Inv'
  OBVIOUS
<1>1. CASE UNCHANGED vars
  BY <1>1 DEF Inv, vars
<1>2. CASE Next
  <2>1. CASE \E message \in Messages, attributes \in Attributes : LogWith(message, attributes)
    BY <2>1, CallHolds
  <2>2. CASE \E value \in Texts : RenderWrites(value)
    BY <2>2, WritesHolds
  <2>3. CASE RenderReturns
    BY <2>3, RenderHolds
  <2>4. CASE TraceReturns
    BY <2>4, TraceHolds
  <2>5. CASE Finished
    BY <2>5 DEF Finished, Inv, vars
  <2> QED
    BY <1>2, <2>1, <2>2, <2>3, <2>4, <2>5 DEF Next
<1> QED
  BY <1>1, <1>2

\* The invariant holds.
LEMMA AlwaysHolds == Spec => []Inv
<1> QED
  BY InitHolds, NextHolds, PTL DEF Spec

-----------------------------------------------------------------------------
(* What the invariant says *)

\* Every call on the stack is of the shape its step requires: one that renders
\* has a stream within its capacity, one that traces has none.
THEOREM TypeCorrect == Spec => []TypeOK
<1>1. Inv => TypeOK
  <2> SUFFICES ASSUME Inv PROVE TypeOK
    OBVIOUS
  <2>1. ASSUME NEW i \in DOMAIN frames
        PROVE  /\ frames[i].message \in Messages /\ frames[i].attributes \in Attributes
               /\ frames[i].step \in {"Render", "Trace"}
               /\ frames[i].textStarted \in BOOLEAN
               /\ frames[i].written \in Seq(Texts)
               /\ frames[i].step = "Render" => frames[i].stream.size <= Capacity
               /\ frames[i].step = "Trace" => frames[i].stream = Null
    <3>1. FrameHolds(frames[i], calls)
      BY DEF Inv, StackHolds
    <3>2. frames[i].step = "Render" => frames[i].stream.size \in 0..Capacity
      BY <3>1 DEF FrameHolds, StreamValues
    <3> QED
      BY <3>1, <3>2, CapacityAssumption DEF FrameHolds, FrameValues
  <2>2. \A i \in DOMAIN history : history[i].kind \in {"submit", "trace", "return"}
    <3>1. history \in Seq(EventValues)
      BY DEF Inv, PastHolds
    <3>2. \A i \in DOMAIN history : history[i] \in EventValues
      BY <3>1
    <3> QED
      BY <3>2 DEF EventValues
  <2>3. calls \in 0..MaxCalls
    BY DEF Inv
  <2> QED
    BY <2>1, <2>2, <2>3 DEF TypeOK
<1> QED
  BY <1>1, AlwaysHolds, PTL

\* Every record submitted has exactly the text of its own call, however calls
\* nest.
THEOREM RecordsMatchTheirCalls == Spec => []SubmittedRecordsMatchTheirCalls
<1>1. Inv => SubmittedRecordsMatchTheirCalls
  BY DEF Inv, PastHolds, RecordsMatch, SubmittedRecordsMatchTheirCalls
<1> QED
  BY <1>1, AlwaysHolds, PTL

\* A record is complete before its trace, and before the record its Render
\* interrupted.
THEOREM RecordsAreOrdered == Spec => []RecordsCompleteInOrder
<1>1. Inv => RecordsCompleteInOrder
  BY DEF Inv, PastHolds, EventsAreOrdered, RecordsCompleteInOrder
<1> QED
  BY <1>1, AlwaysHolds, PTL

\* What happened once is one event.
LEMMA Counted ==
    ASSUME NEW kind, NEW call, NEW once, Happened(history, kind, call, once)
    PROVE  Cardinality(Events(kind, call)) = IF once THEN 1 ELSE 0
<1>1. Events(kind, call) = EventsIn(history, kind, call)
  BY DEF Events, EventsIn
<1>2. CASE once
  <2>1. PICK i \in DOMAIN history : Events(kind, call) = {i}
    BY <1>1, <1>2 DEF Happened
  <2>2. Cardinality({i}) = 1
    BY FS_Singleton
  <2> QED
    BY <1>2, <2>1, <2>2
<1>3. CASE ~once
  <2>1. Events(kind, call) = {}
    BY <1>1, <1>3 DEF Happened
  <2>2. Cardinality({}) = 0
    BY FS_EmptySet
  <2> QED
    BY <1>3, <2>1, <2>2
<1> QED
  BY <1>2, <1>3

\* A call that has returned has reached each of its destinations once, and no
\* other.
THEOREM CallsAreRoutedOnce == Spec => []EveryCallIsRoutedOnce
<1>1. Inv => EveryCallIsRoutedOnce
  <2> SUFFICES ASSUME Inv, NEW r \in DOMAIN history, history[r].kind = "return"
               PROVE  /\ Cardinality(Events("return", history[r].call)) = 1
                      /\ Cardinality(Events("trace", history[r].call)) =
                           IF history[r].message.toTrace THEN 1 ELSE 0
                      /\ Cardinality(Events("submit", history[r].call)) =
                           IF /\ IsRendered(history[r].message)
                              /\ NoText \notin ToSet(history[r].written)
                              /\ Bytes(RecordText(history[r])) <= Capacity
                           THEN 1 ELSE 0
    BY DEF EveryCallIsRoutedOnce
  <2>1. PICK event : event = history[r]
    OBVIOUS
  <2>2. /\ EventsIn(history, "return", event.call) = {r}
        /\ Happened(history, "trace", event.call, event.message.toTrace)
        /\ Happened(history, "submit", event.call, IsComplete(event))
    BY <2>1 DEF Inv, PastHolds, ReturnsAreLast
  <2>3. Cardinality(Events("return", event.call)) = 1
    <3>1. Events("return", event.call) = {r}
      BY <2>2 DEF Events, EventsIn
    <3>2. Cardinality({r}) = 1
      BY FS_Singleton
    <3> QED
      BY <3>1, <3>2
  <2>4. Cardinality(Events("trace", event.call)) = IF event.message.toTrace THEN 1 ELSE 0
    BY <2>2, Counted
  <2>5. PICK once : once = IsComplete(event)
    OBVIOUS
  <2>6. Cardinality(Events("submit", event.call)) = IF once THEN 1 ELSE 0
    BY <2>2, <2>5, Counted
  <2>7. IsComplete(event) <=> /\ IsRendered(event.message) /\ NoText \notin ToSet(event.written)
                              /\ Bytes(RecordText(event)) <= Capacity
    BY DEF IsComplete, WroteNull
  <2> QED
    BY <2>1, <2>3, <2>4, <2>5, <2>6, <2>7
<1> QED
  BY <1>1, AlwaysHolds, PTL

\* The quotes of a submitted record delimit exactly the values that were passed,
\* whatever characters they have.
THEOREM AttributesReadBack == Spec => []AttributesCanBeReadBack
<1>1. Inv => AttributesCanBeReadBack
  <2> SUFFICES ASSUME Inv, NEW i \in DOMAIN history, history[i].kind = "submit"
               PROVE  Unescape(SubSeq(history[i].content,
                                      Len(MessageText(history[i].message, history[i].written)) + 1,
                                      Len(history[i].content))) =
                        [escaped |-> FALSE, value |-> <<>>,
                         values |-> [k \in DOMAIN history[i].attributes |->
                                       ShownValue(history[i].attributes[k])]]
    BY DEF AttributesCanBeReadBack
  <2>1. PICK event : event = history[i]
    OBVIOUS
  <2>2. history \in Seq(EventValues)
    BY DEF Inv, PastHolds
  <2>3. event \in EventValues
    BY <2>1, <2>2
  <2>4. /\ event.message \in Messages /\ event.attributes \in Attributes
        /\ event.written \in Seq(Texts)
    BY <2>3 DEF EventValues
  <2>5. event.attributes \in Seq(Passed)
    BY <2>4, AttributesAreTyped
  <2>6. event.content = RecordText(event)
    BY <2>1 DEF Inv, PastHolds, RecordsMatch
  <2>7. PICK text, more : /\ text = MessageText(event.message, event.written)
                          /\ more = AttributesText(event.attributes)
    OBVIOUS
  <2>8. more \in Seq(Pieces)
    BY <2>5, <2>7, AttributesTextFolds
  <2>9. text \in Seq(Pieces)
    <3>1. IdPrefix \in Solid /\ event.message.id \in Solid /\ Separator \in Solid
            /\ Solid \subseteq Pieces
      BY <2>4, PiecesAreTyped DEF Framework
    <3>2. TextOf(event.written) \in Seq(Pieces)
      <4>1. TextOf(event.written) \in Seq(Texts)
        BY <2>4, TextOfPieces
      <4> QED
        BY <4>1 DEF Pieces
    <3>3. <<IdPrefix, event.message.id>> \in Seq(Pieces) /\ <<Separator>> \in Seq(Pieces)
      BY <3>1, FewPieces
    <3> QED
      BY <2>7, <3>2, <3>3 DEF MessageText
  <2>10. event.content = text \o more
    BY <2>6, <2>7 DEF RecordText
  <2>11. SubSeq(event.content, Len(text) + 1, Len(event.content)) = more
    BY <2>8, <2>9, <2>10, Rest
  <2>12. Unescape(more) = [escaped |-> FALSE, value |-> <<>>, values |-> Shown(event.attributes)]
    BY <2>5, <2>7, ReadsAttributes
  <2> QED
    BY <2>1, <2>7, <2>11, <2>12 DEF Shown
<1> QED
  BY <1>1, AlwaysHolds, PTL
=============================================================================
