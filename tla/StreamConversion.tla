-------------------------- MODULE StreamConversion --------------------------
(***************************************************************************)
(* The answer of an upstream on its way to a client of another protocol,   *)
(* internal/protocol: chunks of an OpenAI chat stream become events of an  *)
(* Anthropic message (convert.go), of an OpenAI response                   *)
(* (responses_stream.go), or chat chunks with the reasoning merged into    *)
(* the content (reasoning_inject.go). The same files convert an answer     *)
(* that is not streamed, which is what a stream is compared with.          *)
(***************************************************************************)
EXTENDS Naturals, Sequences, SequencesExt

CONSTANTS MaxChunks     \* bound: chunks of a stream

Formats == {"anthropic", "responses", "reasoning"}

VARIABLES
    format,     \* the client's protocol; "reasoning" is chat with merged reasoning
    in,         \* the upstream's chunks so far
    s,          \* the converter's state, anthropicStreamWriter and the like
    out,        \* the events written to the client so far
    ended       \* the stream is over and the converter has returned

vars == <<format, in, s, out, ended>>

-----------------------------------------------------------------------------
(* A chunk: what its first choice adds. Each piece of text is the position *)
(* of its chunk, so that all are different; blank: the content is there,   *)
(* and is empty.                                                           *)
Plain == [text |-> <<>>, blank |-> FALSE, reasoning |-> <<>>, calls |-> <<>>, finish |-> ""]

Chunks(n) ==
    {Plain, [Plain EXCEPT !.text = <<n>>]}
    \cup (IF format = "reasoning"
          THEN {[Plain EXCEPT !.reasoning = r, !.blank = b] :
                    r \in {<<>>, <<n>>}, b \in BOOLEAN}
               \cup {[Plain EXCEPT !.reasoning = <<n>>, !.text = <<n>>]}
          ELSE {[Plain EXCEPT !.calls = <<[index |-> i, args |-> a]>>] :
                    i \in 0 .. 1, a \in {<<>>, <<n>>}}
               \cup {[Plain EXCEPT !.finish = f] : f \in {"stop", "tool_calls", "length"}})

Event(name, index, type, data) ==
    [name |-> name, index |-> index, type |-> type, data |-> data]

(* id "" and the model are left out, and so are the token counts. *)
Start == [sent |-> FALSE, next |-> 0, open |-> FALSE, type |-> "", tool |-> 0, finish |-> "",
          buffer |-> <<>>, merged |-> FALSE, out |-> <<>>]

Emit(w, e) == [w EXCEPT !.out = Append(@, e)]

EnsureMessageStart(w) ==
    IF w.sent THEN w
    ELSE [Emit(w, Event("message_start", 0, "", <<>>)) EXCEPT !.sent = TRUE]

CloseBlock(w) ==
    IF ~w.open THEN w
    ELSE [Emit(w, Event("content_block_stop", w.next - 1, w.type, <<>>)) EXCEPT !.open = FALSE]

OpenBlock(w, type, tool) ==
    [Emit(w, Event("content_block_start", w.next, type, <<>>)) EXCEPT
        !.next = @ + 1, !.open = TRUE, !.type = type, !.tool = tool]

Delta(w, data) == Emit(w, Event("content_block_delta", w.next - 1, w.type, data))

TextDelta(w, text) ==
    IF text = <<>> THEN w
    ELSE Delta(IF w.open /\ w.type = "text" THEN w
               ELSE OpenBlock(CloseBlock(w), "text", w.tool), text)

(* Mutant of CallDelta: the tool's index is not looked at. *)
CallDeltaSameBlock(w, call) ==
    LET in_block == IF w.open /\ w.type = "tool_use" THEN w
                    ELSE OpenBlock(CloseBlock(w), "tool_use", call.index)
    IN IF call.args = <<>> THEN in_block ELSE Delta(in_block, call.args)

CallDelta(w, call) ==
    LET in_block == IF w.open /\ w.type = "tool_use" /\ w.tool = call.index THEN w
                    ELSE OpenBlock(CloseBlock(w), "tool_use", call.index)
    IN IF call.args = <<>> THEN in_block ELSE Delta(in_block, call.args)

(* handleChunk of anthropicStreamWriter. *)
AnthropicChunk(w, c) ==
    LET started == EnsureMessageStart(w)
        noted == IF c.finish = "" THEN started ELSE [started EXCEPT !.finish = c.finish]
    IN FoldLeft(CallDelta, TextDelta(noted, c.text), c.calls)

(* anthropicStopReason. *)
StopReason(finish, hasToolUse) ==
    CASE hasToolUse \/ finish = "tool_calls" -> "tool_use"
      [] ~hasToolUse /\ finish = "length" -> "max_tokens"
      [] OTHER -> "end_turn"

(* finish: also of a stream that was cut. *)
AnthropicEnd(w) ==
    Emit(Emit(CloseBlock(EnsureMessageStart(w)),
              Event("message_delta", 0, StopReason(w.finish, w.finish = "tool_calls"), <<>>)),
         Event("message_stop", 0, "", <<>>))

(* TranslateStream: text only. *)
ResponsesChunk(w, c) ==
    IF c.text = <<>> THEN w ELSE Emit(w, Event("delta", 0, "text", c.text))

(* processReasoningChunk: reasoning is kept back and put, once, before the *)
(* next content; a chunk with nothing else is not passed on. Content that  *)
(* carries reasoning is of type "think".                                   *)
ReasoningChunk(w, c) ==
    LET buffer == w.buffer \o c.reasoning
        merges == buffer # <<>> /\ ~w.merged /\ (c.text # <<>> \/ c.blank)
    IN IF c.reasoning # <<>> /\ c.text = <<>> /\ ~c.blank THEN [w EXCEPT !.buffer = buffer]
       ELSE IF merges
       THEN [Emit(Emit(w, Event("content", 0, "think", buffer)), Event("content", 0, "text", c.text))
                EXCEPT !.buffer = <<>>, !.merged = TRUE]
       ELSE [Emit(w, Event("content", 0, "text", c.text)) EXCEPT !.buffer = buffer]

-----------------------------------------------------------------------------
Init ==
    /\ format \in Formats
    /\ in = <<>>
    /\ s = Start
    /\ out = IF format = "responses" THEN <<Event("created", 0, "", <<>>)>> ELSE <<>>
    /\ ended = FALSE

Converted(w, c) ==
    CASE format = "anthropic" -> AnthropicChunk(w, c)
      [] format = "responses" -> ResponsesChunk(w, c)
      [] format = "reasoning" -> ReasoningChunk(w, c)

Ending(w) ==
    CASE format = "anthropic" -> AnthropicEnd(w)
      [] format = "responses" -> Emit(w, Event("completed", 0, "", <<>>))
      [] format = "reasoning" -> w

(* The converter's state, with what it has just written. *)
Writes(w) ==
    /\ s' = [w EXCEPT !.out = <<>>]
    /\ out' = out \o w.out

(* A line of the stream is read and handled. *)
Chunk ==
    /\ ~ended
    /\ Len(in) < MaxChunks
    /\ \E c \in Chunks(Len(in) + 1) :
          in' = Append(in, c) /\ Writes(Converted(s, c))
    /\ UNCHANGED <<format, ended>>

(* [DONE], or the upstream closes the stream: the converter returns. *)
End ==
    /\ ~ended
    /\ ended' = TRUE
    /\ Writes(Ending(s))
    /\ UNCHANGED <<format, in>>

Next == Chunk \/ End

Spec == Init /\ [][Next]_vars

-----------------------------------------------------------------------------
(* The answer the same upstream gives without streaming: one message.      *)
Joined(seqs) == FlattenSeq(seqs)

TextIn == Joined([i \in 1 .. Len(in) |-> in[i].text])
ReasoningIn == Joined([i \in 1 .. Len(in) |-> in[i].reasoning])

CallsIn == Joined([i \in 1 .. Len(in) |-> in[i].calls])

ToolsIn == {CallsIn[i].index : i \in 1 .. Len(CallsIn)}

Args(tool) ==
    LET own == SelectSeq(CallsIn, LAMBDA c : c.index = tool)
    IN Joined([i \in 1 .. Len(own) |-> own[i].args])

FinishIn ==
    LET all == SelectSeq([i \in 1 .. Len(in) |-> in[i].finish], LAMBDA f : f # "")
    IN IF all = <<>> THEN "" ELSE Last(all)

Block(type, data) == [type |-> type, data |-> data]

(* convertOpenAIToAnthropic: its content and its stop reason. *)
AnthropicBody ==
    (IF TextIn = <<>> THEN <<>> ELSE <<Block("text", TextIn)>>)
    \o [i \in 1 .. Cardinality(ToolsIn) |->
           Block("tool_use", Args(SetToSortSeq(ToolsIn, <)[i]))]

AnthropicBodyStop ==
    IF FinishIn = "" THEN "end_turn" ELSE StopReason(FinishIn, ToolsIn # {})

(* TranslateFromChatCompletions: the text alone. *)
ResponsesBody == TextIn

(* ExtractReasoningFromResponse and MergeReasoningIntoContent. *)
ReasoningBody ==
    (IF ReasoningIn = <<>> THEN <<>> ELSE <<Block("think", ReasoningIn)>>)
    \o (IF TextIn = <<>> THEN <<>> ELSE <<Block("text", TextIn)>>)

-----------------------------------------------------------------------------
(* What a client puts together from the events. *)
DataOf(events) == Joined([i \in 1 .. Len(events) |-> events[i].data])

TextOut == DataOf(SelectSeq(out, LAMBDA e : e.type = "text"))

BlocksOut ==
    LET starts == SelectSeq(out, LAMBDA e : e.name = "content_block_start")
    IN [i \in 1 .. Len(starts) |->
           Block(starts[i].type,
                 DataOf(SelectSeq(out, LAMBDA e : /\ e.name = "content_block_delta"
                                                  /\ e.index = starts[i].index)))]

ThinkOut == DataOf(SelectSeq(out, LAMBDA e : e.type = "think"))

ContentOut ==
    (IF ThinkOut = <<>> THEN <<>> ELSE <<Block("think", ThinkOut)>>)
    \o (IF TextOut = <<>> THEN <<>> ELSE <<Block("text", TextOut)>>)

(* Upstreams send the text before the tool calls and one tool's call after *)
(* another's; and reasoning before the text, of which there is some, and   *)
(* with no empty content in its midst.                                     *)
InOrder ==
    /\ \A i, j \in 1 .. Len(in) : i < j => in[i].calls = <<>> \/ in[j].text = <<>>
    /\ \A i, j \in 1 .. Len(CallsIn) : i < j => CallsIn[i].index <= CallsIn[j].index
    /\ \A i, j \in 1 .. Len(in) : i < j => in[i].text = <<>> \/ in[j].reasoning = <<>>
    /\ ReasoningIn # <<>> => TextIn # <<>>
    /\ \A i, j \in 1 .. Len(in) : i < j /\ in[i].blank /\ in[j].reasoning # <<>>
                                  => \A h \in 1 .. i : in[h].reasoning = <<>>

TypeOK ==
    /\ format \in Formats /\ ended \in BOOLEAN
    /\ s \in [sent : BOOLEAN, next : 0 .. MaxChunks, open : BOOLEAN,
              type : {"", "text", "tool_use"}, tool : 0 .. 1,
              finish : {"", "stop", "tool_calls", "length"}, buffer : Seq(1 .. MaxChunks),
              merged : BOOLEAN, out : {<<>>}]

(* May e follow d in an Anthropic message: blocks one after the other,     *)
(* numbered from 0, each with its deltas between its start and its stop.   *)
MayFollow(d, e) ==
    CASE e.name = "message_start" -> FALSE
      [] e.name = "content_block_start" ->
            IF d.name = "content_block_stop" THEN e.index = d.index + 1
            ELSE d.name = "message_start" /\ e.index = 0
      [] e.name \in {"content_block_delta", "content_block_stop"} ->
            /\ d.name \in {"content_block_start", "content_block_delta"}
            /\ e.index = d.index /\ e.type = d.type
      [] e.name = "message_delta" -> d.name \in {"message_start", "content_block_stop"}
      [] e.name = "message_stop" -> d.name = "message_delta"

(* Whatever chunks arrive, in whatever order, and wherever the stream is   *)
(* cut, an Anthropic client gets a well-formed message, which is closed    *)
(* when the converter returns.                                             *)
AnthropicWellFormed ==
    format = "anthropic" =>
        /\ out # <<>> => out[1].name = "message_start"
        /\ \A i \in 2 .. Len(out) : MayFollow(out[i - 1], out[i])
        /\ ended => Last(out).name = "message_stop"

(* A client that streams gets what one that does not stream gets: the same *)
(* blocks of text and tool input, the same stop reason if the upstream     *)
(* gives the reason its tool calls require, the same text, the same merged *)
(* reasoning.                                                              *)
StreamAgreesWithBody ==
    ended /\ InOrder =>
        CASE format = "anthropic" ->
                /\ BlocksOut = AnthropicBody
                /\ (ToolsIn # {} <=> FinishIn = "tool_calls") =>
                      out[Len(out) - 1].type = AnthropicBodyStop
          [] format = "responses" -> TextOut = ResponsesBody
          [] format = "reasoning" -> ContentOut = ReasoningBody
=============================================================================
