------------------------------- MODULE ChatBody -------------------------------
(***************************************************************************)
(* What the client gateway makes of a chat request's body on its way to an *)
(* upstream: handleChat governs the content, parses the client's dialect   *)
(* into canonical messages, flattens, rewrites and compresses them, writes *)
(* them back for the paths that forward the body itself, and the executor  *)
(* of each candidate's provider renders them in that provider's dialect.   *)
(*                                                                         *)
(* A text is a sequence of pieces that keep their number through all this. *)
(***************************************************************************)
EXTENDS Naturals, Sequences, SequencesExt

CONSTANTS
    Requests,       \* bodies: [format, system, msgs, tools]
    Plans           \* provider types of a plan's candidates, in order

Formats == {"openai", "anthropic", "responses", "gemini", "vertex"}
Dialects == {"openai", "anthropic", "gemini", "vertex"}  \* of the executors

(* A message's content: a string, a list of parts, the list of parts that  *)
(* the Gemini translator builds (of another Go type), or nothing.          *)
String(ps) == [form |-> "string", parts |-> <<[type |-> "text", text |-> ps]>>]
Pieces(content) == FlattenSeq([i \in DOMAIN content.parts |-> content.parts[i].text])
Message(role, content) == [role |-> role, content |-> content]
OfType(parts, types) == SelectSeq(parts, LAMBDA p : p.type \in types)
AllText(content) == /\ content.form = "parts" /\ content.parts # <<>>
                    /\ \A i \in DOMAIN content.parts : content.parts[i].type = "text"

(* Messages that came out empty are left out. *)
NoContent == [form |-> "none", parts |-> <<>>]
Each(f(_), msgs) == [i \in DOMAIN msgs |-> f(msgs[i])]
Without(msgs) == SelectSeq(msgs, LAMBDA m : m.content.form # "none")

-----------------------------------------------------------------------------
(* governRequestBody: it looks at the strings of "messages". If it detects *)
(* something, it masks that and the values of assignments.                 *)
Strings(b) == IF b.format \in {"openai", "anthropic"}
              THEN {i \in DOMAIN b.msgs : b.msgs[i].content.form = "string"} ELSE {}
Has(b, kind) == \E i \in Strings(b) : \E j \in DOMAIN Pieces(b.msgs[i].content) :
                    Pieces(b.msgs[i].content)[j].kind = kind
MaskPiece(p) == IF p.kind \in {"private", "assignment"} THEN [p EXCEPT !.kind = "masked"] ELSE p
Masked(b) ==
    [b EXCEPT !.msgs = [i \in DOMAIN b.msgs |->
        IF i \in Strings(b)
        THEN [b.msgs[i] EXCEPT !.content = String([j \in DOMAIN Pieces(@) |-> MaskPiece(Pieces(@)[j])])]
        ELSE b.msgs[i]]]

-----------------------------------------------------------------------------
(* The translators into canonical messages. *)
SystemMessage(ps) == IF ps = <<>> THEN <<>> ELSE <<Message("system", String(ps))>>
FirstPiece(ps) == SubSeq(ps, 1, 1)

(* Mutant of Collapsed: the first of the text parts only. *)
CollapsedFirst(content) == FirstPiece(Pieces(content))

(* collapseContent: the texts of all parts. *)
Collapsed(content) == Pieces(content)

FromResponses(m) ==
    CASE m.content.form = "string" -> m
      [] Collapsed(m.content) # <<>> -> Message(m.role, String(Collapsed(m.content)))
      [] OTHER -> Message(m.role, NoContent)

FromGemini(m) ==
    LET kept == OfType(m.content.parts, {"text", "image"})
    IN Message(CASE m.role = "model" -> "assistant" [] m.role = "system" -> "system"
                 [] OTHER -> "user",
               CASE m.content.parts = <<>> -> NoContent
                 [] Len(kept) = 1 /\ AllText([form |-> "parts", parts |-> kept]) ->
                        String(kept[1].text)
                 [] OTHER -> [form |-> "typed", parts |-> kept])

Parsed(b) ==
    CASE b.format = "responses" -> Without(Each(FromResponses, b.msgs))
      [] b.format = "gemini" -> SystemMessage(FirstPiece(b.system)) \o Without(Each(FromGemini, b.msgs))
      [] b.format = "anthropic" -> SystemMessage(b.system) \o b.msgs
      [] OTHER -> b.msgs

(* flattenMessagesContent: parts that are all text become one string. *)
Flattened(m) == IF AllText(m.content) THEN [m EXCEPT !.content = String(Pieces(@))] ELSE m

(* CavemanInjectIntoCanonical: into the first system message, if that is a *)
(* string without it, or a new one.                                        *)
Prompt == [n |-> 0, kind |-> "prompt"]
Injected(msgs) ==
    LET systems == {i \in DOMAIN msgs : msgs[i].role = "system"}
    IN IF systems = {} THEN <<Message("system", String(<<Prompt>>))>> \o msgs
       ELSE LET i == CHOOSE i \in systems : \A j \in systems : i <= j
                ps == Pieces(msgs[i].content)
            IN IF msgs[i].content.form = "string" /\ ~ Contains(ps, Prompt)
               THEN [msgs EXCEPT ![i].content = String(Append(ps, Prompt))] ELSE msgs

(* ApplyPipelineToMessages: outputs of tools that a filter knows are cut. *)
Cut(p) == IF p.kind = "output" THEN [p EXCEPT !.kind = "cut"] ELSE p
Compressed(m) ==
    IF m.role \in {"tool", "function"} /\ m.content.form = "string"
    THEN [m EXCEPT !.content = String([i \in DOMAIN Pieces(@) |-> Cut(Pieces(@)[i])])] ELSE m

-----------------------------------------------------------------------------
(* DedupToolsInRequest. Only tools whose name is at the top level have one *)
(* here; if one of an MCP server is among them, all are rebuilt from name, *)
(* description and parameters, without the builtins it stands for.         *)
EquivalentOf == [fs_read |-> "read_file"]
NameOf(t) == IF t.shape = "nested" THEN "" ELSE t.name
IsMCP(t) == NameOf(t) \in DOMAIN EquivalentOf
Deduped(tools) ==
    LET mcp == SelectSeq(tools, IsMCP)
        covered == {EquivalentOf[mcp[i].name] : i \in DOMAIN mcp}
        builtin == SelectSeq(tools, LAMBDA t : ~ IsMCP(t) /\ NameOf(t) \notin covered)
        all == builtin \o mcp
    IN IF mcp = <<>> THEN tools
       ELSE [i \in DOMAIN all |-> [name |-> NameOf(all[i]), shape |-> "bare"]]

-----------------------------------------------------------------------------
(* The executors: the system text and the conversation their provider reads.*)
Spoken(msgs) == SelectSeq(msgs, LAMBDA m : m.role # "system")
SystemOf(msgs) ==
    LET s == SelectSeq(msgs, LAMBDA m : m.role = "system" /\ m.content.form = "string")
    IN FlattenSeq([i \in DOMAIN s |-> Pieces(s[i].content)])
Turns(msgs) == [i \in DOMAIN msgs |-> [role |-> msgs[i].role, text |-> Pieces(msgs[i].content)]]

(* ToAnthropicMessages: blocks of text; a system message is also a user's. *)
ForAnthropic(msgs) ==
    LET said(m) == Message(IF m.role = "system" THEN "user" ELSE m.role,
                     IF m.content.form \in {"string", "parts"} /\ Pieces(m.content) # <<>>
                     THEN [m.content EXCEPT !.parts = OfType(@, {"text"})]
                     ELSE NoContent)
    IN Turns(Without(Each(said, msgs)))

(* CanonicalToGemini: strings, and the texts and images of parts. *)
ForGemini(msgs) ==
    LET said(m) == Message(IF m.role = "assistant" THEN "assistant" ELSE "user",
                     IF m.content.form \in {"string", "parts"} /\ Pieces(m.content) # <<>>
                     THEN m.content ELSE NoContent)
    IN Turns(Without(Each(said, Spoken(msgs))))

Rendered(dialect, msgs, tools) ==
    [system |-> SystemOf(msgs), tools |-> tools,
     turns |-> CASE dialect = "anthropic" -> ForAnthropic(msgs)
                 [] dialect = "gemini" -> ForGemini(msgs)
                 [] OTHER -> Turns(Spoken(msgs))]

ShouldPassthrough(format, dialect) ==
    \/ format \in {"openai", "responses"} /\ dialect = "openai"
    \/ format = "gemini" /\ dialect = "gemini"
-----------------------------------------------------------------------------
VARIABLES
    at,         \* "govern", "parse", "rewrite", "plan", "grant", "candidates", "done"
    conf,       \* the configuration the request runs under
    asked,      \* the client's body
    raw,        \* rawBody
    bytes,      \* bodyBytes
    msgs,       \* req.Messages
    tools,      \* of req.Extra
    attack,     \* the injection finding
    plan,       \* the candidates not tried yet
    sent        \* the last body sent: to the grant's relay or a candidate

vars == <<at, conf, asked, raw, bytes, msgs, tools, attack, plan, sent>>

Nothing == [system |-> <<>>, turns |-> <<>>, tools |-> <<>>]
Configs == [mask : BOOLEAN, block : BOOLEAN, caveman : BOOLEAN, rtk : BOOLEAN, grant : BOOLEAN]

Init ==
    /\ at = "govern" /\ conf \in Configs
    /\ asked \in Requests /\ raw = asked /\ bytes = asked
    /\ msgs = <<>> /\ tools = <<>>
    /\ attack = FALSE
    /\ plan \in Plans
    /\ sent = [to |-> "nobody", body |-> Nothing]

Govern ==
    /\ at = "govern" /\ at' = "parse"
    /\ attack' = (conf.block /\ Has(raw, "attack"))
    /\ raw' = IF conf.mask /\ Has(raw, "private") THEN Masked(raw) ELSE raw
    /\ bytes' = raw'
    /\ UNCHANGED <<conf, asked, msgs, tools, plan, sent>>

(* ParseRequest; a body without a usable message is refused. *)
Parse ==
    /\ at = "parse"
    /\ msgs' = Parsed(bytes) /\ tools' = bytes.tools
    /\ at' = IF msgs' = <<>> /\ bytes.format \in {"openai", "anthropic", "responses"}
             THEN "done" ELSE "rewrite"
    /\ UNCHANGED <<conf, asked, raw, bytes, attack, plan, sent>>

(* Flattening, tools, prompt and compression; only an OpenAI body is       *)
(* written back.                                                           *)
Rewrite ==
    /\ at = "rewrite" /\ at' = "plan"
    /\ LET flat == Each(Flattened, msgs)
           told == IF conf.caveman THEN Injected(flat) ELSE flat
       IN msgs' = IF conf.rtk THEN Each(Compressed, told) ELSE told
    /\ tools' = Deduped(raw.tools)
    /\ IF asked.format = "openai"
       THEN /\ raw' = [raw EXCEPT !.tools = tools', !.msgs = msgs']
            /\ bytes' = raw'
       ELSE raw' = [raw EXCEPT !.tools = tools'] /\ UNCHANGED bytes
    /\ UNCHANGED <<conf, asked, attack, plan, sent>>

(* If the first candidate's provider reads the client's dialect, the body  *)
(* takes the place of all other fields of the request.                     *)
Passthrough ==
    /\ at = "plan"
    /\ tools' = IF ShouldPassthrough(asked.format, plan[1]) THEN <<>> ELSE tools
    /\ at' = CASE attack -> "done" [] conf.grant /\ ~attack -> "grant" [] OTHER -> "candidates"
    /\ UNCHANGED <<conf, asked, raw, bytes, msgs, attack, plan, sent>>

(* forwardViaGrant: the body, read as the client's dialect is; if the      *)
(* relay fails, the candidates.                                            *)
ForwardViaGrant ==
    /\ at = "grant"
    /\ sent' = [to |-> "grant",
                body |-> Rendered("openai", Each(Flattened, Parsed(bytes)), bytes.tools)]
    /\ at' \in {"done", "candidates"}
    /\ UNCHANGED <<conf, asked, raw, bytes, msgs, tools, attack, plan>>

(* forwardRequest: a candidate answers, or the next one is tried. *)
ForwardRequest ==
    /\ at = "candidates" /\ plan # <<>>
    /\ sent' = [to |-> Head(plan), body |-> Rendered(Head(plan), msgs, tools)]
    /\ plan' = Tail(plan)
    /\ at' \in {"done", "candidates"}
    /\ UNCHANGED <<conf, asked, raw, bytes, msgs, tools, attack>>

Next == Govern \/ Parse \/ Rewrite \/ Passthrough \/ ForwardViaGrant \/ ForwardRequest

Spec == Init /\ [][Next]_vars

ConstantsOK ==
    /\ \A r \in Requests : r.format \in Formats
    /\ \A p \in Plans : p # <<>> /\ \A i \in DOMAIN p : p[i] \in Dialects

-----------------------------------------------------------------------------
(* Every variable has its type. *)
TypeOK ==
    /\ at \in {"govern", "parse", "rewrite", "plan", "grant", "candidates", "done"}
    /\ conf \in Configs /\ asked \in Requests
    /\ raw.format = asked.format /\ bytes.format = asked.format
    /\ \A i \in DOMAIN msgs : msgs[i].content.form \in {"string", "parts", "typed"}
    /\ attack \in BOOLEAN
    /\ sent.to \in Dialects \cup {"nobody", "grant"}


Numbers(ps) == LET own == SelectSeq(ps, LAMBDA p : p.n # 0) IN [i \in DOMAIN own |-> own[i].n]
SaidBy(turns, roles) ==
    LET own == SelectSeq(turns, LAMBDA t : t.role \in roles)
    IN FlattenSeq([i \in DOMAIN own |-> own[i].text])

Assistant == {"assistant", "model"}
User == {"user", "tool"}
Asked(roles) == Numbers(SaidBy(Turns(asked.msgs), roles))
AskedSystem == (IF asked.format = "gemini" THEN FirstPiece(asked.system) ELSE asked.system)
               \o SystemOf(Each(Flattened, asked.msgs))

(* The Gemini translator's lists of parts are not read by these executors. *)
Unread == sent.to \in {"anthropic", "gemini"} /\ \E i \in DOMAIN msgs : msgs[i].content.form = "typed"

(* Whoever is sent the request reads each text of the assistant, of the    *)
(* user and its tools, and of the system once, in order and from the side  *)
(* that said it, whatever the dialects, the rewriting and the failed       *)
(* attempts before. (An Anthropic model reads the system's twice.)         *)
ConversationKept ==
    sent.to # "nobody" /\ ~ Unread =>
        /\ Numbers(SaidBy(sent.body.turns, Assistant)) = Asked(Assistant)
        /\ SelectSeq(Numbers(SaidBy(sent.body.turns, User)), LAMBDA n : n \in Range(Asked(User)))
             = Asked(User)
        /\ Numbers(sent.body.system) = Numbers(AskedSystem)

(* No path sends what was found in a message's string and had to be masked *)
(* or to be blocked.                                                       *)
GovernedBeforeSent ==
    sent.to # "nobody" =>
        /\ ~ (conf.block /\ Has(asked, "attack"))
        /\ LET found == {p.n : p \in {q \in UNION {Range(Pieces(asked.msgs[i].content)) : i \in Strings(asked)} :
                                       q.kind = "private"}}
               told == UNION {Range(sent.body.turns[i].text) : i \in DOMAIN sent.body.turns}
                       \cup Range(sent.body.system)
           IN conf.mask => \A p \in told : p.n \in found => p.kind # "private"

(* A provider that does not read the client's dialect is sent each of the  *)
(* client's tools, or the one that stands for it.                          *)
ToolsKept ==
    sent.to # "nobody" /\ (tools # <<>> \/ sent.to = "grant") =>
        \A t \in Range(asked.tools) : \E u \in Range(sent.body.tools) :
            u.name = t.name \/ (u.name \in DOMAIN EquivalentOf /\ EquivalentOf[u.name] = t.name)
=============================================================================
