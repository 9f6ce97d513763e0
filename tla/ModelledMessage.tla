--------------------------- MODULE ModelledMessage ---------------------------
(***************************************************************************)
(* Modelled messages: Logger::Log and Logger::LogWith                      *)
(* (platform/ara-log/include/ara/log/logger.h), MessageWriter, the Location*)
(* and Tag attributes, and trace routing.                                  *)
(*                                                                         *)
(* A message renders itself with application code, and the trace artifact  *)
(* is application code too.  Either may log again while a call is under    *)
(* way, so the calls of a thread form a stack and each owns a stream.  All *)
(* of this is local to one thread; LogPipeline has the concurrency.        *)
(***************************************************************************)
EXTENDS LogStream, TextPieces, FiniteSets

CONSTANTS
    Logger,     \* the logger used: a record [name, threshold]
    Messages,   \* message types: records [id, level, toLogger, toTrace]
    Attributes, \* the attribute tuples passed: sequences of Location and Tag
    Texts,      \* the values messages write
    MaxCalls,   \* BOUND: how many calls are made in all
    MaxDepth,   \* BOUND: how deep calls nest
    MaxTexts    \* BOUND: how many values a message writes

ASSUME LoggerAssumption == Logger # Null /\ Logger.threshold \in 0..kVerbose

ASSUME BoundsAssumption == {MaxCalls, MaxDepth, MaxTexts} \subseteq Nat

ASSUME TextsAssumption == \A v \in Texts : v.size \in Nat

VARIABLES
    frames,  \* the calls under way, the innermost last
    calls,   \* HISTORY: how many calls have begun; a call is known by its number
    history  \* HISTORY: submissions to the logger, trace artifacts and returns

vars == <<frames, calls, history>>

Init == frames = <<>> /\ calls = 0 /\ history = <<>>

-----------------------------------------------------------------------------
(* The text the framework adds; a literal counts as one byte *)

Literal(text) == [text |-> text, size |-> 1]

IdPrefix == Literal("id=")
Separator == Literal(" ")
Colon == Literal(":")
Quote == Literal("quote")
Backslash == Literal("backslash")

\* A tag has a value; a location has a file, the value here, and a line.
AttributePrefix(kind) == Literal(IF kind = "Location" THEN " location=quote" ELSE " tag=quote")

\* An ID is not empty and has letters, digits and underscores only.
ASSUME MessagesAssumption ==
    \A m \in Messages :
        /\ m.id.size \in Nat \ {0}
        /\ m.toLogger \in BOOLEAN /\ m.toTrace \in BOOLEAN

\* What an attribute adds is no attribute's prefix: its characters are bytes, its
\* line is a number.
IsPlain(p) ==
    /\ p.size \in Nat \ {0}
    /\ p \notin {AttributePrefix("Tag"), AttributePrefix("Location")}

ASSUME AttributesAssumption ==
    \A attributes \in Attributes :
        /\ attributes \in Seq(ToSet(attributes))
        /\ \A a \in ToSet(attributes) :
             /\ a.kind \in {"Location", "Tag"}
             /\ a.value \in Seq(ToSet(a.value)) /\ \A c \in ToSet(a.value) : IsPlain(c)
             /\ a.kind = "Location" => IsPlain(a.line) /\ a.line \notin {Quote, Backslash}

IsEscaped(character) == character \in {Quote, Backslash}

\* MUTANT: backslashes are written as they are.
AppendAttributeValue_QuotesOnly(stream, value) ==
    FoldLeft(LAMBDA s, c : IF s.failed THEN s
                           ELSE Insert(IF c = Quote THEN Insert(s, Backslash) ELSE s, c),
             stream, value)

AppendAttributeValue(stream, value) ==
    FoldLeft(LAMBDA s, c : IF s.failed THEN s
                           ELSE Insert(IF IsEscaped(c) THEN Insert(s, Backslash) ELSE s, c),
             stream, value)

AppendAttribute(stream, attribute) ==
    LET opened == Insert(stream, AttributePrefix(attribute.kind))
        named  == AppendAttributeValue(opened, attribute.value)
        lined  == Insert(Insert(named, Colon), attribute.line)
    IN  Insert(IF attribute.kind = "Location" THEN lined ELSE named, Quote)

-----------------------------------------------------------------------------
(* MessageWriter::operator<< *)

\* MUTANT: empty text is preceded by a separator like any other.
Write_SeparatesEmptyText(frame, value) ==
    IF value = NoText THEN [frame EXCEPT !.stream = Insert(@, value)]
    ELSE [frame EXCEPT !.stream = Insert(IF frame.textStarted THEN @ ELSE Insert(@, Separator),
                                         value),
                       !.textStarted = TRUE]

\* A null pointer fails the record; empty text is skipped; other text follows
\* one separator.
Write(frame, value) ==
    IF value = NoText THEN [frame EXCEPT !.stream = Insert(@, value)]
    ELSE IF value.size = 0 THEN frame
    ELSE [frame EXCEPT !.stream = Insert(IF frame.textStarted THEN @ ELSE Insert(@, Separator),
                                         value),
                       !.textStarted = TRUE]

-----------------------------------------------------------------------------
(* Logger::LogWith *)

Top == frames[Len(frames)]

Event(kind, frame, content) ==
    [kind |-> kind, call |-> frame.call, within |-> frame.within, message |-> frame.message,
     attributes |-> frame.attributes, written |-> frame.written, content |-> content]

\* The routing of the message type and the filter admit the record.
IsRendered(message) == message.toLogger /\ IsEnabled(Logger, message.level)

\* An idle thread calls, or the Render or TraceArti of the innermost call does.
MayCall == calls < MaxCalls /\ Len(frames) < MaxDepth

NewFrame(message, attributes) ==
    [call |-> calls + 1, message |-> message, attributes |-> attributes,
     within |-> IF frames = <<>> THEN [call |-> 0, step |-> "Idle"]
                ELSE [call |-> Top.call, step |-> Top.step],
     step |-> "Render", textStarted |-> FALSE, written |-> <<>>,
     stream |-> Insert(Insert(WithLevel(Logger, message.level), IdPrefix), message.id)]

\* The call is over for the logger: what is left is the trace and the return.
\* `before` are the frames around it, `past` the history up to here.
TraceOrReturn(frame, before, past) ==
    IF frame.message.toTrace
    THEN /\ frames' = Append(before, [frame EXCEPT !.step = "Trace", !.stream = Null])
         /\ history' = Append(past, Event("trace", frame, <<>>))
    ELSE /\ frames' = before
         /\ history' = Append(past, Event("return", frame, <<>>))

LogWith(message, attributes) ==
    /\ MayCall
    /\ calls' = calls + 1
    /\ LET frame == NewFrame(message, attributes)
       IN  IF IsRendered(message)
           THEN frames' = Append(frames, frame) /\ UNCHANGED history
           ELSE TraceOrReturn(frame, frames, history)

Wrote(frame, value) == [Write(frame, value) EXCEPT !.written = Append(frame.written, value)]

\* Render is application code; every value it writes is one step.
RenderWrites(value) ==
    /\ frames # <<>> /\ Top.step = "Render"
    /\ Len(Top.written) < MaxTexts
    /\ frames' = Append(Front(frames), Wrote(Top, value))
    /\ UNCHANGED <<calls, history>>

\* MUTANT: only a message whose record was submitted is traced.
RenderReturns_TracesSubmitted ==
    /\ frames # <<>> /\ Top.step = "Render"
    /\ LET stream == FoldLeft(AppendAttribute, Top.stream, Top.attributes)
       IN  IF Submits(stream)
           THEN TraceOrReturn(Top, Front(frames),
                              Append(history, Event("submit", Top, stream.content)))
           ELSE /\ frames' = Front(frames)
                /\ history' = Append(history, Event("return", Top, <<>>))
    /\ UNCHANGED calls

\* MUTANT: the stream lives until the call returns, past the trace.
RenderReturns_TracesFirst ==
    /\ frames # <<>> /\ Top.step = "Render"
    /\ Top.message.toTrace
    /\ LET stream == FoldLeft(AppendAttribute, Top.stream, Top.attributes)
       IN  /\ Submits(stream)
           /\ frames' = [frames EXCEPT ![Len(frames)].step = "Trace"]
           /\ history' = history \o <<Event("trace", Top, <<>>),
                                      Event("submit", Top, stream.content)>>
    /\ UNCHANGED calls

\* The attributes follow, the stream is destroyed, which submits it, and the
\* trace artifact is called.
RenderReturns ==
    /\ frames # <<>> /\ Top.step = "Render"
    /\ LET stream == FoldLeft(AppendAttribute, Top.stream, Top.attributes)
       IN  TraceOrReturn(Top, Front(frames),
                         IF Submits(stream)
                         THEN Append(history, Event("submit", Top, stream.content))
                         ELSE history)
    /\ UNCHANGED calls

TraceReturns ==
    /\ frames # <<>> /\ Top.step = "Trace"
    /\ frames' = Front(frames)
    /\ history' = Append(history, Event("return", Top, <<>>))
    /\ UNCHANGED calls

Finished == calls = MaxCalls /\ frames = <<>> /\ UNCHANGED vars

Next ==
    \/ \E message \in Messages, attributes \in Attributes : LogWith(message, attributes)
    \/ \E value \in Texts : RenderWrites(value)
    \/ RenderReturns \/ TraceReturns
    \/ Finished

Spec == Init /\ [][Next]_vars

-----------------------------------------------------------------------------
(* Properties *)

TypeOK ==
    /\ \A i \in DOMAIN frames :
         /\ frames[i].message \in Messages /\ frames[i].attributes \in Attributes
         /\ frames[i].step \in {"Render", "Trace"}
         /\ frames[i].textStarted \in BOOLEAN
         /\ frames[i].written \in Seq(Texts)
         /\ frames[i].step = "Render" => frames[i].stream.size <= Capacity
         /\ frames[i].step = "Trace" => frames[i].stream = Null
    /\ calls \in 0..MaxCalls
    /\ \A i \in DOMAIN history : history[i].kind \in {"submit", "trace", "return"}

Events(kind, call) == {i \in DOMAIN history : history[i].kind = kind /\ history[i].call = call}

\* The reference text of a record, written without a stream: the ID, the texts
\* that are not empty after one separator, then each attribute.
EscapedCharacter(c) == IF IsEscaped(c) THEN <<Backslash, c>> ELSE <<c>>

Escape(value) == FoldLeft(LAMBDA text, c : text \o EscapedCharacter(c), <<>>, value)

AttributeText(a) ==
    <<AttributePrefix(a.kind)>> \o Escape(a.value)
      \o (IF a.kind = "Location" THEN <<Colon, a.line>> ELSE <<>>) \o <<Quote>>

AttributesText(attributes) ==
    FoldLeft(LAMBDA text, a : text \o AttributeText(a), <<>>, attributes)

MessageText(message, written) ==
    LET texts == TextOf(written)
    IN  <<IdPrefix, message.id>> \o (IF texts = <<>> THEN <<>> ELSE <<Separator>> \o texts)

RecordText(event) ==
    MessageText(event.message, event.written) \o AttributesText(event.attributes)

\* One record per message, with exactly the text of its own call, however the
\* calls nest (AP-R3-LOG-010).
SubmittedRecordsMatchTheirCalls ==
    \A i \in DOMAIN history :
        history[i].kind = "submit" => history[i].content = RecordText(history[i])

\* Every call reaches each of its destinations once: the trace whenever the
\* routing says so, filtered or not, discarded or not, and the logger whenever
\* the routing and the filter admit the message and its record is complete
\* (AP-R3-LOG-011).
EveryCallIsRoutedOnce ==
    \A r \in DOMAIN history :
        LET event == history[r]
        IN  event.kind = "return" =>
              /\ Cardinality(Events("return", event.call)) = 1
              /\ Cardinality(Events("trace", event.call)) = IF event.message.toTrace THEN 1 ELSE 0
              /\ Cardinality(Events("submit", event.call)) =
                   IF /\ IsRendered(event.message)
                      /\ NoText \notin ToSet(event.written)
                      /\ Bytes(RecordText(event)) <= Capacity
                   THEN 1 ELSE 0

\* A record is complete before its trace artifact sees the message, and what a
\* Render logs on the way is complete before the record it interrupted.
RecordsCompleteInOrder ==
    \A i, j \in DOMAIN history :
        /\ history[i].kind = "submit" /\ history[j].kind = "trace"
             /\ history[i].call = history[j].call => i < j
        /\ history[i].kind = "return" /\ history[j].kind \in {"submit", "trace"}
             /\ history[i].within = [call |-> history[j].call, step |-> "Render"] => i < j

\* What a reader makes of the attributes of a record: values end at the first
\* quote that is not escaped.
UnescapePiece(state, c) ==
    IF state.escaped THEN [state EXCEPT !.escaped = FALSE, !.value = Append(@, c)]
    ELSE IF c = Backslash THEN [state EXCEPT !.escaped = TRUE]
    ELSE IF c = Quote THEN [state EXCEPT !.values = Append(@, state.value), !.value = <<>>]
    ELSE IF c \in {AttributePrefix("Tag"), AttributePrefix("Location")} THEN state
    ELSE [state EXCEPT !.value = Append(@, c)]

Unescape(text) ==
    FoldLeft(UnescapePiece, [escaped |-> FALSE, value |-> <<>>, values |-> <<>>], text)

\* What it should make of an attribute.
ShownValue(a) == a.value \o IF a.kind = "Location" THEN <<Colon, a.line>> ELSE <<>>

\* Attribute values survive quoting: whatever a file name or tag contains, the
\* quotes of a submitted record delimit exactly the values that were passed.
AttributesCanBeReadBack ==
    \A i \in DOMAIN history :
        LET event == history[i]
            text  == SubSeq(event.content, Len(MessageText(event.message, event.written)) + 1,
                            Len(event.content))
        IN  event.kind = "submit" =>
              Unescape(text) =
                [escaped |-> FALSE, value |-> <<>>,
                 values |-> [k \in DOMAIN event.attributes |-> ShownValue(event.attributes[k])]]
=============================================================================
