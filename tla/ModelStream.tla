------------------------------ MODULE ModelStream ------------------------------
(***************************************************************************)
(* How an answer of the model reaches the client and the session:          *)
(* internal/provider/anthropic.go and openai.go (the server's events, read *)
(* whole by Chat and chunk by chunk by ChatStream), the relay goroutine of *)
(* HandleMessageStream in internal/agent/loop.go, and the loop of          *)
(* internal/api/openai.go that writes the chunks to the client.  A         *)
(* response is asked for twice: Chat decides that there are no tool calls, *)
(* then ChatStream asks again for the text that is shown and stored.       *)
(*                                                                         *)
(* An event opens a block, adds a part to it, adds a piece of text, or     *)
(* ends the message.  Pieces of text are numbered as the server sends      *)
(* them; a part of a block is only counted.  The HTTP exchange, JSON, the  *)
(* signatures of thinking blocks and events that do not parse are left out.*)
(***************************************************************************)
EXTENDS Integers, Sequences, SequencesExt, FiniteSets

CONSTANTS
    MaxEvents,      (* bound on the events of a response before its end      *)
    ChunkCap        (* capacity of the two chunk channels (64)               *)

VARIABLES
    api,            (* which provider                                        *)
    phase,          (* chat, ask (for the stream), stream, calls, or over    *)
    sent,           (* history: the events of the current response           *)
    wire,           (* those not read yet                                    *)
    connection,     (* open, ended by the server, or broken                  *)
    cancelled,      (* the client's request is gone                          *)
    blocks,         (* the parser's block states, by index                   *)
    content,        (* the text Chat has read                                *)
    result,         (* what Chat returned                                    *)
    chunks,         (* channel between provider and relay                    *)
    streaming,      (* the provider's goroutine runs, its channel is open    *)
    full,           (* the text the relay has collected                      *)
    out,            (* channel between relay and client                      *)
    relaying,       (* the relay runs, its channel is open                   *)
    shown,          (* text written to the client                            *)
    last,           (* the calls of the Done chunk the client saw            *)
    reading,        (* the client loop runs                                  *)
    stored          (* the message appended to the session                   *)

vars == <<api, phase, sent, wire, connection, cancelled, blocks, content, result, chunks,
          streaming, full, out, relaying, shown, last, reading, stored>>

Apis == {"anthropic", "openai"}
Nothing == [n \in {-1} |-> 0]              \* neither a text nor calls, which are numbered from 0

Text(n)    == [kind |-> "text", n |-> n]
Open(n, t) == [kind |-> "open", n |-> n, type |-> t]
Part(n)    == [kind |-> "part", n |-> n]
Stop       == [kind |-> "stop"]

At(es, k)  == {i \in DOMAIN es : es[i].kind = k}
TextOf(es) == [i \in 1 .. Cardinality(At(es, "text")) |-> i]
Ended(es)  == At(es, "stop") # {}

\* The calls a response makes, by definition: each tool block, by its number, with the number of
\* its parts.
CallsOf(es) ==
    LET tools == {es[i].n : i \in {j \in At(es, "open") : es[j].type = "tool"}}
    IN  [n \in tools |-> Cardinality({i \in At(es, "part") : es[i].n = n})]

Init ==
    /\ api \in Apis /\ phase = "chat" /\ connection = "open" /\ cancelled = FALSE
    /\ sent = <<>> /\ wire = <<>> /\ blocks = <<>> /\ content = <<>>
    /\ result = [ok |-> FALSE, calls |-> <<>>]
    /\ chunks = <<>> /\ streaming = FALSE /\ full = <<>>
    /\ out = <<>> /\ relaying = FALSE
    /\ shown = <<>> /\ last = Nothing /\ reading = FALSE /\ stored = Nothing

ends == <<chunks, streaming, full, out, relaying, shown, last, reading, stored>>

----------------------------------------------------------------------------------
\* The server (external).

\* An Anthropic response numbers all its blocks, text and thinking among them; an OpenAI one its
\* tool calls.  Parts belong to the block opened last.
Types == IF api = "anthropic" THEN {"text", "thinking", "tool"} ELSE {"tool"}
Opened == Cardinality(At(sent, "open"))
Latest == {sent[i] : i \in {j \in At(sent, "open") : sent[j].n = Opened - 1}}
NextEvents ==
    {Text(Cardinality(At(sent, "text")) + 1)} \cup {Open(Opened, t) : t \in Types}
    \cup {Part(e.n) : e \in {b \in Latest : b.type # "text"}}

Emit ==
    /\ phase \in {"chat", "stream"} /\ connection = "open" /\ ~Ended(sent)
    /\ \E e \in NextEvents \cup {Stop} :
        /\ e # Stop => Len(sent) < MaxEvents
        /\ sent' = Append(sent, e)
        /\ wire' = Append(wire, e)
    /\ UNCHANGED <<api, phase, connection, cancelled, blocks, content, result, ends>>

\* The body ends (after the message, or short of it) or the connection breaks.
Hangup ==
    /\ phase \in {"chat", "stream"} /\ connection = "open"
    /\ connection' \in {"ended", "broken"}
    /\ UNCHANGED <<api, phase, sent, wire, cancelled, blocks, content, result, ends>>

\* The client goes away; its context ends the request to the server as well.
Cancel ==
    /\ ~cancelled
    /\ cancelled' = TRUE
    /\ connection' = "broken"
    /\ UNCHANGED <<api, phase, sent, wire, blocks, content, result, ends>>

----------------------------------------------------------------------------------
\* The parsers.  A block is its type and the number of parts collected.

\* Anthropic: a part of a block that was never opened is dropped.
AnthropicBlocks(e) ==
    CASE e.kind = "open" -> Append(blocks, [type |-> e.type, parts |-> 0])
      [] e.kind = "part" /\ e.n < Len(blocks) -> [blocks EXCEPT ![e.n + 1].parts = @ + 1]
      [] OTHER -> blocks

\* OpenAI: the first delta with an index makes the call, later ones are added to it.
OpenAICalls(e) ==
    CASE e.kind \in {"open", "part"} /\ e.n >= Len(blocks) -> Append(blocks, [type |-> "tool", parts |-> 0])
      [] e.kind = "part" /\ e.n < Len(blocks) -> [blocks EXCEPT ![e.n + 1].parts = @ + 1]
      [] OTHER -> blocks

Taken(e) == IF api = "anthropic" THEN AnthropicBlocks(e) ELSE OpenAICalls(e)

\* The calls collected, by their index, in whose order the code lists them.
Collected ==
    LET tools == {i \in DOMAIN blocks : blocks[i].type = "tool"}
    IN  [n \in {i - 1 : i \in tools} |-> blocks[n + 1].parts]

\* Anthropic's parseSSE reads to the end of the body, OpenAI's to [DONE].
ChatReads ==
    /\ phase = "chat" /\ wire # <<>>
    /\ wire' = Tail(wire)
    /\ blocks' = Taken(Head(wire))
    /\ content' = IF Head(wire).kind = "text" THEN Append(content, Head(wire).n) ELSE content
    /\ connection' = IF Head(wire) = Stop /\ api = "openai" THEN "ended" ELSE connection
    /\ UNCHANGED <<api, phase, sent, cancelled, result, ends>>

\* A read error fails the request and the turn answers with a fixed sentence.
ChatFails ==
    /\ phase = "chat" /\ wire = <<>> /\ connection = "broken"
    /\ phase' = "over"
    /\ UNCHANGED <<api, sent, wire, connection, cancelled, blocks, content, result, ends>>

\* A body that ends, even short of its last event, is a response: the turn runs its calls
\* (AgentTurn), or asks again for the answer as a stream.
ChatReturns ==
    /\ phase = "chat" /\ wire = <<>> /\ connection = "ended"
    /\ result' = [ok |-> TRUE, calls |-> Collected]
    /\ phase' = IF Collected = <<>> THEN "ask" ELSE "calls"
    /\ UNCHANGED <<api, sent, wire, connection, cancelled, blocks, content, ends>>

\* ChatStream is refused: the first answer is stored and shown.
StreamRefused ==
    /\ phase = "ask"
    /\ phase' = "over"
    /\ stored' = content /\ shown' = content
    /\ UNCHANGED <<api, sent, wire, connection, cancelled, blocks, content, result, chunks,
                   streaming, full, out, relaying, last, reading>>

StreamOpens ==
    /\ phase = "ask" /\ ~cancelled
    /\ phase' = "stream"
    /\ sent' = <<>> /\ wire' = <<>> /\ blocks' = <<>> /\ connection' = "open"
    /\ streaming' = TRUE /\ relaying' = TRUE /\ reading' = TRUE
    /\ UNCHANGED <<api, cancelled, content, result, chunks, full, out, shown, last, stored>>

\* One event of the stream.  Text is passed on at once, the calls come with the end of the message;
\* a goroutine whose channel is full waits, and a cancelled one may leave instead of sending.
StreamReads ==
    LET e == Head(wire)
        chunk == IF e = Stop THEN [text |-> <<>>, done |-> TRUE, calls |-> Collected]
                             ELSE [text |-> <<e.n>>, done |-> FALSE, calls |-> <<>>]
    IN  /\ streaming /\ wire # <<>>
        /\ wire' = Tail(wire)
        /\ blocks' = Taken(e)
        /\ IF e.kind \in {"text", "stop"}
             THEN \/ /\ Len(chunks) < ChunkCap
                     /\ chunks' = Append(chunks, chunk)
                     /\ streaming' = (e # Stop)
                  \/ cancelled /\ streaming' = FALSE /\ UNCHANGED chunks
             ELSE UNCHANGED <<chunks, streaming>>
        /\ UNCHANGED <<api, phase, sent, connection, cancelled, content, result, full, out,
                       relaying, shown, last, reading, stored>>

\* The body is at its end: the channel is closed.  A read error goes to StreamReader.err, which the
\* relay never asks for.
StreamCut ==
    /\ streaming /\ wire = <<>> /\ connection # "open"
    /\ streaming' = FALSE
    /\ UNCHANGED <<api, phase, sent, wire, connection, cancelled, blocks, content, result, chunks,
                   full, out, relaying, shown, last, reading, stored>>

----------------------------------------------------------------------------------
\* The relay and the client.

relayLeaves == <<api, phase, sent, wire, connection, cancelled, blocks, content, result, streaming,
                 shown, last, reading>>

\* Faulty variant: a chunk that finds the channel full is dropped, as sendMediaFiles drops a message.
RelayOrDrop ==
    /\ relaying /\ chunks # <<>>
    /\ chunks' = Tail(chunks)
    /\ full' = full \o Head(chunks).text
    /\ out' = IF Len(out) < ChunkCap THEN Append(out, Head(chunks)) ELSE out
    /\ UNCHANGED <<relaying, stored, relayLeaves>>

\* A chunk is collected and passed on; a relay that waits for room leaves when the client is gone,
\* and stores nothing.
Relay ==
    /\ relaying /\ chunks # <<>>
    /\ chunks' = Tail(chunks)
    /\ full' = full \o Head(chunks).text
    /\ \/ Len(out) < ChunkCap /\ out' = Append(out, Head(chunks)) /\ UNCHANGED relaying
       \/ cancelled /\ relaying' = FALSE /\ UNCHANGED out
    /\ UNCHANGED <<stored, relayLeaves>>

\* At the end of the provider's channel, however it came, the text collected is the message.
RelayStores ==
    /\ relaying /\ chunks = <<>> /\ ~streaming
    /\ stored' = full
    /\ relaying' = FALSE
    /\ UNCHANGED <<chunks, full, out, relayLeaves>>

\* streamResponseFromAgent writes chunks until one says Done or the channel is closed.
ClientReads ==
    /\ reading
    /\ \/ /\ out # <<>>
          /\ out' = Tail(out)
          /\ shown' = shown \o Head(out).text
          /\ last' = IF Head(out).done THEN Head(out).calls ELSE last
          /\ reading' = ~Head(out).done
       \/ out = <<>> /\ ~relaying /\ reading' = FALSE /\ UNCHANGED <<out, shown, last>>
    /\ UNCHANGED <<api, phase, sent, wire, connection, cancelled, blocks, content, result, chunks,
                   streaming, full, relaying, stored>>

Next ==
    \/ Emit \/ Hangup \/ Cancel
    \/ ChatReads \/ ChatFails \/ ChatReturns \/ StreamRefused \/ StreamOpens
    \/ StreamReads \/ StreamCut \/ Relay \/ RelayStores \/ ClientReads

Spec == Init /\ [][Next]_vars

----------------------------------------------------------------------------------

TypeOK ==
    /\ phase \in {"chat", "ask", "stream", "calls", "over"}
    /\ connection \in {"open", "ended", "broken"}
    /\ \A i \in DOMAIN blocks : blocks[i].type \in {"text", "thinking", "tool"} /\ blocks[i].parts \in Nat
    /\ Len(chunks) <= ChunkCap /\ Len(out) <= ChunkCap
    /\ {cancelled, streaming, relaying, reading} \subseteq BOOLEAN

\* A response that came whole is returned whole by Chat, with the parts of every call.
ChatWhole == result.ok /\ phase \in {"ask", "calls"} /\ Ended(sent) =>
    result.calls = CallsOf(sent) /\ content = TextOf(sent)

\* The client that saw the end of the message saw all its text and all its calls.
DoneMeansAll == last # Nothing => shown = TextOf(sent) /\ last = CallsOf(sent)

\* What was shown is what is stored: never more, and the same once the client was told the end,
\* unless the client went away.
ShownIsStored ==
    phase = "stream" /\ stored # Nothing =>
        /\ IsPrefix(shown, stored) /\ IsPrefix(stored, TextOf(sent))
        /\ ~reading /\ ~cancelled => shown = stored

\* An answer reaches the client and the session whole: no piece is lost, repeated or out of order on
\* the way through the parser, the two channels and the relay (provider/*.go, agent/loop.go:977).
StreamsWhole == ChatWhole /\ DoneMeansAll /\ ShownIsStored

==================================================================================
