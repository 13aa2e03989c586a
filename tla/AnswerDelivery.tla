---------------------------- MODULE AnswerDelivery ----------------------------
(***************************************************************************)
(* The way of an upstream's answer to the client of the gateway. A stream  *)
(* passes a goroutine of the executor, which translates the provider's     *)
(* events (adapter.go, gemini.go), one that converts them for a client of  *)
(* another protocol (convert.go), and the handler, which copies them to    *)
(* the client and notes the usage it sees (service.go, usage.go), each     *)
(* reading the pipe of the one before. The upstream may stop anywhere, the *)
(* client may leave. Requests come by HTTP or as messages of a WebSocket   *)
(* (ws.go), for chat or for another modality (handler_modal.go).           *)
(***************************************************************************)
EXTENDS Naturals, Sequences, Sublists

CONSTANTS
    Asked,      \* the requests that are considered
    MaxEvents   \* bound: events, or pieces of a body, of an answer

VARIABLES
    ask,        \* the request
    sent,       \* what the upstream has sent
    read,       \* how much of it has been read
    conn,       \* the connection to it: "open", "ended", "cut", "closed"
    translator, \* the executor's goroutine
    converter,  \* the goroutine of ConvertStreamToSource
    handler,    \* "waiting" for the upstream, "decoding", "reading", "copying", "returned"
    client,     \* "there" or "gone"
    got,        \* what was written to the client
    status,     \* the status written to it, 0 if none is
    captured,   \* the usage that has passed: "none", "output" or "full"
    records,    \* what the handler recorded
    reply       \* a WebSocket's message: "none", "sent", "dropped"

vars == <<ask, sent, read, conn, translator, converter, handler, client, got, status,
          captured, records, reply>>

-----------------------------------------------------------------------------
(* Requests. Images and speech are handled as embeddings are; an upload is *)
(* a multipart request for a transcription.                                *)
Endpoints == {"chat", "embeddings", "images", "speech", "upload"}
Upload == ask.endpoint = "upload"
Providers == {"openai", "anthropic", "gemini", "grant"}
Ask(provider, stream, source, reasoning, via, endpoint) ==
    [provider |-> provider, stream |-> stream, source |-> source, reasoning |-> reasoning,
     via |-> via, endpoint |-> endpoint]

Chat == ask.endpoint = "chat"
Dialect == ask.source # "chat" /\ ask.provider # "grant"

(* translateAnthropicStream and translateGeminiStream are used. *)
Translates == Chat /\ ask.stream /\ ask.provider \in {"anthropic", "gemini"}
Converts == ask.stream /\ Dialect
(* translateAnthropicResponse and translateGeminiResponse. *)
Decodes == Chat /\ ~ ask.stream /\ ask.provider \in {"anthropic", "gemini"}
(* The body is collected to be rewritten: for another protocol, or to have *)
(* the reasoning merged into it.                                           *)
Rewrites == Chat /\ ~ ask.stream /\ ask.provider # "grant" /\ (Dialect \/ ask.reasoning)

(* The executors' clients have a timeout for the whole answer; that of     *)
(* uploads has none.                                                       *)
HasTimeout == ~ Upload

Item(kind, n) == [kind |-> kind, n |-> n]

(* What the upstream may send next: text n, tool calls and the like, the   *)
(* token counts, the end; of a body that is not streamed, its pieces.      *)
EventKinds ==
    IF ~ ask.stream THEN {"text"}
    ELSE IF ask.provider = "gemini" THEN {"text", "other"}
    ELSE {"text", "other", "usage", "done"}

-----------------------------------------------------------------------------
(* The executor's goroutine: what it writes for an event.                  *)
NoStage == [run |-> "none", todo |-> <<>>, first |-> TRUE]

Role(stage) == IF stage.first THEN <<Item("role", 0)>> ELSE <<>>

(* Mutant of Translated: the role is sent in the place of the first text. *)
TranslatedRoleOrText(stage, e) ==
    CASE e.kind = "text" -> IF stage.first THEN Role(stage) ELSE <<e>>
      [] e.kind = "other" -> Role(stage)
      [] e.kind = "usage" -> <<Item("finish", 0)>>
      [] OTHER -> <<e>>

(* The counts are in the message_delta, of which the reason to stop is     *)
(* kept; events of other names give nothing.                               *)
Translated(stage, e) ==
    CASE e.kind = "text" -> Role(stage) \o <<e>>
      [] e.kind = "other" -> Role(stage)
      [] e.kind = "usage" -> <<Item("finish", 0)>>
      [] OTHER -> <<e>>

(* The converter's: an Anthropic message starts with the first chunk and   *)
(* ends with the output's count; a response starts at once. The Gemini     *)
(* dialect is copied.                                                      *)
Converted(stage, item) ==
    CASE ask.source = "anthropic" ->
           (IF stage.first THEN <<Item("start", 0)>> ELSE <<>>)
           \o CASE item.kind = "text" -> <<item>>
                [] item.kind = "done" -> <<Item("output", 0), item>>
                [] OTHER -> <<>>
      [] ask.source = "responses" -> IF item.kind \in {"text", "done"} THEN <<item>> ELSE <<>>
      [] OTHER -> <<item>>

(* The source ended, in whatever way, without [DONE]. *)
ConvertedEnd(stage) ==
    IF ask.source \in {"anthropic", "responses"} THEN Converted(stage, Item("done", 0)) ELSE <<>>

-----------------------------------------------------------------------------
(* Reading. Of a cut connection, what has arrived may still be read or be  *)
(* lost; a closed one gives an error. Once the handler has returned it has *)
(* closed what it and the converter read from.                             *)
Closed == handler = "returned"
Shut == IF conn = "open" THEN "closed" ELSE conn

UpstreamHas == read < Len(sent) /\ conn \in {"open", "ended", "cut"}
UpstreamEnded == read = Len(sent) /\ conn = "ended"
UpstreamBroken == conn \in {"cut", "closed"}

Has(stage) == stage.todo # <<>>
Over(stage) == stage.run \in {"over", "failed"} /\ stage.todo = <<>>

(* What the converter, and what the handler, reads from. *)
BodyHas == IF Translates THEN Has(translator) ELSE UpstreamHas
BodyOver == IF Translates THEN Over(translator) ELSE UpstreamEnded \/ UpstreamBroken
NextOfBody == IF Translates THEN Head(translator.todo) ELSE sent[read + 1]
TakeOfBody ==
    IF Translates THEN translator' = [translator EXCEPT !.todo = Tail(@)] /\ UNCHANGED read
    ELSE read' = read + 1 /\ UNCHANGED translator

-----------------------------------------------------------------------------
Init ==
    /\ ask \in Asked
    /\ sent = <<>> /\ read = 0 /\ conn = "open"
    /\ translator = NoStage /\ converter = NoStage
    /\ handler = "waiting" /\ client = "there"
    /\ got = <<>> /\ status = 0 /\ captured = "none" /\ records = <<>> /\ reply = "none"

(* The environment: the upstream, the network and the client. *)
UpstreamSends ==
    /\ conn = "open" /\ handler # "waiting" /\ Len(sent) < MaxEvents
    /\ sent # <<>> => sent[Len(sent)].kind # "done"
    /\ \E k \in EventKinds : sent' = Append(sent, Item(k, Len(sent) + 1))
    /\ UNCHANGED <<ask, read, conn, translator, converter, handler, client, got, status,
                   captured, records, reply>>

UpstreamEnds ==
    /\ conn = "open" /\ handler # "waiting"
    /\ conn' = "ended"
    /\ UNCHANGED <<ask, sent, read, translator, converter, handler, client, got, status,
                   captured, records, reply>>

UpstreamCuts ==
    /\ conn = "open" /\ handler # "waiting"
    /\ conn' = "cut"
    /\ UNCHANGED <<ask, sent, read, translator, converter, handler, client, got, status,
                   captured, records, reply>>

(* Its context ends the upstream's call; a WebSocket's message has none. *)
ClientLeaves ==
    /\ client = "there"
    /\ client' = "gone"
    /\ conn' = IF ask.via = "http" THEN "closed" ELSE conn
    /\ UNCHANGED <<ask, sent, read, translator, converter, handler, got, status, captured,
                   records, reply>>

-----------------------------------------------------------------------------
(* The goroutine of the executor.                                          *)
TranslatorReads ==
    /\ translator.run = "on" /\ translator.todo = <<>> /\ UpstreamHas
    /\ LET e == sent[read + 1]
       IN translator' = [translator EXCEPT
              !.todo = Translated(translator, e),
              !.first = @ /\ e.kind \notin {"text", "other"}]
    /\ read' = read + 1
    /\ UNCHANGED <<ask, sent, conn, converter, handler, client, got, status, captured,
                   records, reply>>

(* Its deferred calls close the pipe and the upstream's body; a read error *)
(* is passed on through the pipe, not by translateGeminiStream.            *)
TranslatorStops(how) ==
    /\ translator' = [translator EXCEPT !.run = how, !.todo = <<>>]
    /\ conn' = Shut
    /\ UNCHANGED <<ask, sent, read, converter, handler, client, got, status, captured,
                   records, reply>>
TranslatorEnds ==
    /\ translator.run = "on" /\ translator.todo = <<>>
    /\ \/ UpstreamEnded /\ TranslatorStops("over")
       \/ UpstreamBroken /\ TranslatorStops(IF ask.provider = "gemini" THEN "over" ELSE "failed")

(* The pipe's reader is closed: translateGeminiStream does not look.       *)
TranslatorWriteFails ==
    /\ translator.run = "on" /\ translator.todo # <<>> /\ Closed
    /\ IF ask.provider = "gemini"
       THEN /\ translator' = [translator EXCEPT !.todo = <<>>]
            /\ UNCHANGED <<ask, sent, read, conn, converter, handler, client, got, status,
                           captured, records, reply>>
       ELSE TranslatorStops("failed")

TranslatorStep == TranslatorReads \/ TranslatorEnds \/ TranslatorWriteFails

-----------------------------------------------------------------------------
(* The goroutine of ConvertStreamToSource. It returns after [DONE], unless *)
(* it only copies.                                                         *)
ConverterReads ==
    /\ converter.run = "on" /\ converter.todo = <<>> /\ BodyHas /\ ~ Closed
    /\ LET last == NextOfBody.kind = "done" /\ ask.source \in {"anthropic", "responses"}
       IN converter' = [run |-> IF last THEN "over" ELSE "on",
                        todo |-> Converted(converter, NextOfBody), first |-> FALSE]
    /\ TakeOfBody
    /\ UNCHANGED <<ask, sent, conn, handler, client, got, status, captured, records, reply>>

ConverterEnds ==
    /\ converter.run = "on" /\ converter.todo = <<>> /\ (BodyOver \/ Closed)
    /\ converter' = [converter EXCEPT !.run = "over", !.todo = ConvertedEnd(converter)]
    /\ UNCHANGED <<ask, sent, read, conn, translator, handler, client, got, status, captured,
                   records, reply>>

ConverterWriteFails ==
    /\ converter.todo # <<>> /\ Closed
    /\ converter' = [converter EXCEPT !.todo = <<>>]
    /\ UNCHANGED <<ask, sent, read, conn, translator, handler, client, got, status, captured,
                   records, reply>>

ConverterStep == ConverterReads \/ ConverterEnds \/ ConverterWriteFails

-----------------------------------------------------------------------------
(* The handler.                                                            *)
OwnText(s) == Sublist(s, {k \in DOMAIN s : s[k].kind = "text"})

(* A WebSocket's message is answered with what bodyRecorder has collected; *)
(* json.Marshal refuses it unless it is JSON or nothing.                   *)
Recorder == ask.via = "ws"
Reply(body, json) ==
    IF ~ Recorder THEN "none"
    ELSE IF client = "there" /\ (json \/ body = <<>>) THEN "sent" ELSE "dropped"

(* What the deferred calls record: a log of chat requests, and usage.      *)
Recorded(code, seen) ==
    (IF Chat THEN <<[log |-> code < 400, usage |-> "none"]>> ELSE <<>>)
    \o IF code < 400 /\ (Chat \/ seen # "none") THEN <<[log |-> FALSE, usage |-> seen]>> ELSE <<>>

(* It returns: the request's context, which the upstream's call has, ends, *)
(* and what it was reading is closed.                                      *)
Return(code, body, json, seen) ==
    /\ handler' = "returned" /\ status' = code /\ got' = body /\ captured' = seen
    /\ conn' = IF ~ Recorder \/ ~ Translates THEN Shut ELSE conn
    /\ records' = Recorded(code, seen) /\ reply' = Reply(body, json)
    /\ UNCHANGED <<ask, sent, read, converter, client>>

(* The upstream accepts: the status is written, unless the executor first  *)
(* decodes the whole answer.                                               *)
Respond ==
    /\ handler = "waiting" /\ conn = "open"
    /\ handler' = IF Decodes THEN "decoding" ELSE IF Rewrites THEN "reading" ELSE "copying"
    /\ status' = IF Decodes THEN 0 ELSE 200
    /\ translator' = IF Translates THEN [NoStage EXCEPT !.run = "on"] ELSE NoStage
    /\ converter' = IF Converts
                    THEN [NoStage EXCEPT !.run = "on",
                              !.todo = IF ask.source = "responses" THEN <<Item("start", 0)>> ELSE <<>>]
                    ELSE NoStage
    /\ UNCHANGED <<ask, sent, read, conn, client, got, captured, records, reply>>

(* A modality's request is refused before the upstream is asked. *)
Refuse ==
    /\ handler = "waiting" /\ ~ Chat
    /\ Return(400, <<Item("error", 0)>>, TRUE, captured) /\ UNCHANGED translator

(* The upstream does not accept: a grant is followed by the request's      *)
(* candidates (which ForwardRequest models), else the client gets an error.*)
RespondFails ==
    /\ handler = "waiting"
    /\ IF ask.provider = "grant"
       THEN /\ ask' = [ask EXCEPT !.provider = "openai"]
            /\ UNCHANGED <<sent, read, conn, translator, converter, handler, client, got, status,
                           captured, records, reply>>
       ELSE Return(502, <<Item("error", 0)>>, TRUE, captured) /\ UNCHANGED translator

Timeout == HasTimeout /\ (UpstreamCuts \/ RespondFails)

(* A piece of the body is collected.                                       *)
Collect ==
    /\ handler \in {"decoding", "reading"} /\ UpstreamHas
    /\ read' = read + 1
    /\ UNCHANGED <<ask, sent, conn, translator, converter, handler, client, got, status, captured,
                   records, reply>>

(* It is whole, and is written at once, with its usage. The reasoning that *)
(* is merged into it makes it longer than the upstream's Content-Length,   *)
(* if there is one, and net/http then refuses it.                          *)
WriteWhole ==
    /\ handler \in {"decoding", "reading"} /\ UpstreamEnded
    /\ \E fits \in IF handler = "reading" /\ ~ Dialect /\ ~ Recorder THEN BOOLEAN ELSE {TRUE} :
           Return(200, IF fits THEN sent ELSE <<>>, TRUE, "full")
    /\ UNCHANGED translator

(* It is not: the executor returns an error; a handler that has written    *)
(* the status returns.                                                     *)
CollectFails ==
    /\ handler \in {"decoding", "reading"} /\ UpstreamBroken
    /\ IF handler = "decoding" THEN Return(502, <<Item("error", 0)>>, TRUE, captured)
       ELSE Return(200, <<>>, FALSE, captured)
    /\ UNCHANGED translator

(* io.Copy from the last stage.                                            *)
CopyHas == IF Converts THEN Has(converter) ELSE BodyHas
CopyOver == IF Converts THEN Over(converter) ELSE BodyOver
NextOfCopy == IF Converts THEN Head(converter.todo) ELSE NextOfBody
TakeOfCopy ==
    IF Converts
    THEN converter' = [converter EXCEPT !.todo = Tail(@)] /\ UNCHANGED <<read, translator>>
    ELSE TakeOfBody /\ UNCHANGED converter

(* usageCapture sees what is written, received or not. *)
Seen(item) == CASE item.kind = "usage" -> "full"
                [] item.kind = "output" -> "output"
                [] OTHER -> captured

Copy ==
    /\ handler = "copying" /\ CopyHas
    /\ TakeOfCopy
    /\ captured' = Seen(NextOfCopy)
    /\ got' = IF ~ Recorder /\ client = "gone" THEN got ELSE Append(got, NextOfCopy)
    /\ UNCHANGED <<ask, sent, conn, handler, client, status, records, reply>>

(* The last stage ends, however it ends, or a write fails. The usage in a  *)
(* body that is not streamed is found when the body is whole.              *)
CopyEnds ==
    /\ handler = "copying"
    /\ CopyOver \/ (~ Recorder /\ client = "gone")
    /\ LET whole == ~ ask.stream /\ UpstreamEnded
       IN Return(status, got, whole, IF whole /\ ~ Upload THEN "full" ELSE captured)
    /\ UNCHANGED translator

HandlerStep == Collect \/ WriteWhole \/ CollectFails \/ Copy \/ CopyEnds

Next ==
    \/ UpstreamSends \/ UpstreamEnds \/ UpstreamCuts \/ ClientLeaves
    \/ Refuse \/ Respond \/ RespondFails
    \/ TranslatorStep \/ ConverterStep \/ HandlerStep

Spec ==
    /\ Init /\ [][Next]_vars
    /\ WF_vars(TranslatorStep) /\ WF_vars(ConverterStep) /\ WF_vars(HandlerStep) /\ WF_vars(Timeout)

-----------------------------------------------------------------------------
ConstantsOK ==
    /\ MaxEvents \in Nat
    /\ \A a \in Asked : a.endpoint \in Endpoints
    /\ \A a \in Asked : a.endpoint # "chat" => ~ a.stream /\ a.source = "chat" /\ ~ a.reasoning

Stages == [run : {"none", "on", "over", "failed"}, todo : Seq([kind : STRING, n : 0..MaxEvents]),
           first : BOOLEAN]

TypeOK ==
    /\ ask.provider \in Providers
    /\ sent \in Seq([kind : EventKinds, n : 1..MaxEvents])
    /\ read \in 0..Len(sent)
    /\ conn \in {"open", "ended", "cut", "closed"}
    /\ translator \in Stages /\ converter \in Stages
    /\ handler \in {"waiting", "decoding", "reading", "copying", "returned"}
    /\ client \in {"there", "gone"} /\ status \in {0, 200, 400, 502}
    /\ captured \in {"none", "output", "full"}
    /\ Len(records) <= 2 /\ reply \in {"none", "sent", "dropped"}

(* The client gets the upstream's text in order, without a gap; a [DONE]   *)
(* follows the whole text that was read; and of an answer the upstream     *)
(* ended, a client that stayed gets all the text, unless it was refused    *)
(* for its length, and, in the chat protocol, the upstream's [DONE].       *)
InOrder == \E n \in 0 .. Len(OwnText(sent)) : OwnText(got) = SubSeq(OwnText(sent), 1, n)
DoneIsLast == \A k \in 1..Len(got) :
    got[k].kind = "done" => k = Len(got) /\ OwnText(got) = OwnText(SubSeq(sent, 1, read))
Whole ==
    handler = "returned" /\ client = "there" /\ conn = "ended" /\ status = 200 /\ got # <<>> =>
        /\ OwnText(got) = OwnText(sent)
        /\ ask.source = "chat" => (\E k \in 1..Len(got) : got[k].kind = "done")
                                     = (\E k \in 1..Len(sent) : sent[k].kind = "done")

(* A chat request is logged once and charged at most once, as soon as it   *)
(* has been answered, with the counts its client was shown.                *)
ChargedOnce ==
    /\ Chat => Len(records) = IF handler # "returned" THEN 0 ELSE IF status >= 400 THEN 1 ELSE 2
    /\ \A k \in 1..Len(records) : k = 2 /\ (\E i \in 1..Len(got) : got[i].kind = "usage")
           => records[k].usage = "full"

AnswerIsWhole == InOrder /\ DoneIsLast /\ Whole /\ ChargedOnce

-----------------------------------------------------------------------------
(* What makes it whole: the parts of an inductive invariant.               *)
ItemKinds == {"start", "role", "text", "other", "usage", "output", "finish", "done", "error"}
Items == [kind : ItemKinds, n : Nat]
HasKind(s, kind) == \E k \in DOMAIN s : s[k].kind = kind
Kinds(s, kinds) == \A k \in DOMAIN s : s[k].kind \in kinds
LastOnly(s) == \A k \in DOMAIN s : s[k].kind = "done" => k = Len(s)
Stage(s, runs) == DOMAIN s = {"run", "todo", "first"} /\ s.run \in runs /\ s.todo \in Seq(Items)

(* Before the upstream has accepted nothing is there; the kinds of items   *)
(* each pipe carries, of which [DONE] is the last.                         *)
Shapes ==
    /\ sent \in Seq(Items) /\ got \in Seq(Items) /\ read \in 0 .. Len(sent)
    /\ Kinds(sent, {"text", "other", "usage", "done"}) /\ LastOnly(sent)
    /\ ~ ask.stream => Kinds(sent, {"text"})
    /\ Stage(translator, IF Translates THEN {"none", "on", "over", "failed"} ELSE {"none"})
    /\ Stage(converter, IF Converts THEN {"none", "on", "over"} ELSE {"none"})
    /\ Kinds(translator.todo, {"role", "text", "finish", "done"}) /\ LastOnly(translator.todo)
    /\ LastOnly(converter.todo)
    /\ translator.run = "none" => translator.todo = <<>>
    /\ converter.run = "none" => converter.todo = <<>>
    /\ Kinds(converter.todo, IF ask.source \in {"anthropic", "responses"}
                             THEN {"start", "text", "output", "done"}
                             ELSE {"role", "text", "other", "usage", "finish", "done"})
    /\ handler \in {"waiting", "decoding", "reading", "copying", "returned"}
    /\ client \in {"there", "gone"}
    /\ handler = "waiting" => sent = <<>> /\ captured = "none"
    /\ handler # "returned" => records = <<>>
    /\ handler \in {"waiting", "decoding", "reading"} =>
          got = <<>> /\ translator = NoStage /\ converter = NoStage
    /\ handler \in {"decoding", "reading"} => ~ ask.stream /\ captured = "none"
    /\ handler = "copying" => (Translates => translator.run # "none") /\ (Converts => converter.run # "none")
    /\ handler \in {"reading", "copying"} => status = 200

(* Nothing is sent or read any more: the upstream's [DONE] was read, or    *)
(* whoever reads from it has stopped.                                      *)
Finished == sent # <<>> /\ sent[Len(sent)].kind = "done"
Final == read = Len(sent) /\ Finished
Halted ==
    IF Translates THEN translator.run # "on" \/ Final
    ELSE Final \/ (Converts /\ converter.run = "over")
ConverterDone ==
    Converts =>
        \/ converter.run = "over"
        \/ translator.todo = <<>> /\ ask.source \notin {"anthropic", "responses"}

(* While the handler copies, what has been read of the text is what the    *)
(* client has got and then what the pipes hold, as long as it can be told  *)
(* of any; a stage that has stopped has passed on all the upstream sent.   *)
Live == Recorder \/ client = "there"
InFlight == OwnText(got) \o OwnText(converter.todo) \o OwnText(translator.todo)
Flows == handler = "copying" /\ Live => InFlight = OwnText(SubSeq(sent, 1, read))
Stops ==
    /\ HasKind(translator.todo, "done") => Final /\ Len(translator.todo) = 1
    /\ translator.run \in {"over", "failed"} =>
          conn # "open" /\ (handler = "copying" /\ conn = "ended" => read = Len(sent))
    /\ handler = "copying" /\ converter.run = "over" =>
          /\ translator.todo = <<>> /\ Halted
          /\ conn \in {"open", "ended"} => read = Len(sent)
          /\ conn = "open" => Finished
    /\ handler = "copying" /\ HasKind(converter.todo, "done") =>
          translator.todo = <<>> /\ Halted /\ ConverterDone

(* What the client has got of the end.                                     *)
Ending ==
    /\ HasKind(got, "done") =>
          /\ LastOnly(got) /\ OwnText(got) = OwnText(SubSeq(sent, 1, read)) /\ Halted
          /\ handler = "copying" =>
                translator.todo = <<>> /\ converter.todo = <<>> /\ ConverterDone
    /\ handler = "copying" /\ Live /\ ~ Converts =>
          (HasKind(got, "done") \/ HasKind(translator.todo, "done"))
              = HasKind(SubSeq(sent, 1, read), "done")
    /\ handler = "returned" /\ client = "there" /\ status = 200 /\ got # <<>>
       /\ conn \in {"open", "ended"} =>
          /\ OwnText(got) = OwnText(sent) /\ (conn = "open" => Finished)
          /\ ask.source = "chat" => HasKind(got, "done") = HasKind(sent, "done")

Accounts ==
    /\ HasKind(got, "usage") => ask.source \notin {"anthropic", "responses"} \/ ~ Converts
    /\ handler = "copying" /\ HasKind(got, "usage") => captured = "full"
    /\ records \in Seq([log : BOOLEAN, usage : {"none", "output", "full"}])
    /\ captured \in {"none", "output", "full"}

DeliveryInv == Shapes /\ InOrder /\ Flows /\ Stops /\ Ending /\ Accounts /\ ChargedOnce

-----------------------------------------------------------------------------
(* Every request with a timeout is answered, and its goroutines and its    *)
(* connection to the upstream end.                                         *)
Ended == /\ handler = "returned" /\ conn # "open"
         /\ translator.run # "on" /\ converter.run # "on" /\ converter.todo = <<>>
AnswerEnds == HasTimeout ~> Ended
=============================================================================
