-------------------------------- MODULE AgentTurn --------------------------------
(***************************************************************************)
(* internal/agent/loop.go: the turns of an agent on one session, and what  *)
(* they send to the model.                                                 *)
(*                                                                         *)
(* A turn appends the user's message, reads the history into a prompt and  *)
(* then alternates requests to the model and rounds of tool calls.  It     *)
(* appends each message twice, to the session and to its own prompt.  A    *)
(* "full" turn is HandleMessage, a "stream" turn HandleMessageStream (the  *)
(* API with stream: true), a "retry" the command of that name.  What a     *)
(* message says is left out, its role and the tool calls it makes or       *)
(* answers are not.  Compaction is left out: it blanks tool results and    *)
(* keeps every message.  The session's file, row and cache are in Session. *)
(*                                                                         *)
(* The chat queue runs the turns of a chat one after the other; what can   *)
(* disturb that is listed in Disturbances:                                 *)
(*   "overlap": turns from the web UI, the API and webhooks, which do not  *)
(*              go through the queue;                                      *)
(*   "inject":  messages of other bots in a group, appended at any time;   *)
(*   "crash":   the process stops and a new one reads the stored history;  *)
(*   "stream":  streamed turns.                                            *)
(***************************************************************************)
EXTENDS Integers, Sequences, FiniteSets

CONSTANTS
    Turns,          (* goroutines that run a turn or a command               *)
    Sigs,           (* signatures of tool calls: name and hash of arguments  *)
    NoSig,          (* the zero value of toolCallSig                         *)
    Disturbances,
    MaxIterations,  (* maxToolIterations                                     *)
    MaxCalls,       (* bound on the tool calls of one response               *)
    MaxIds,         (* bound on the tool calls in all                        *)
    MaxInputs       (* bound on the messages and commands that come in       *)

ASSUME TurnAssumption ==
    /\ NoSig \notin Sigs
    /\ Disturbances \subseteq {"overlap", "inject", "crash", "stream"}
    /\ {MaxIterations, MaxCalls, MaxIds, MaxInputs} \subseteq Nat \ {0}

VARIABLES
    history,        (* the session's messages, in memory and in the store    *)
    inputs,         (* messages and commands so far                          *)
    lastId,         (* tool calls made so far                                *)
    pc,             (* where each goroutine is                               *)
    kind,           (* what it runs                                          *)
    messages,       (* its copy of the history, with the system prompt       *)
    iteration,      (* i of the ReAct loop                                   *)
    lastSig,
    consecutive,    (* consecutiveCount                                      *)
    calls,          (* resp.ToolCalls                                        *)
    checked,        (* calls of them the loop detection has looked at        *)
    results,        (* ids of tool results it has yet to append, Resolved    *)
                    (* for one that is not needed                            *)
    ran,            (* history variable: signatures of the calls it executed *)
    alone,          (* history variable: nobody else used the session since  *)
                    (* it began                                              *)
    sound           (* history variable: the history it read was well formed *)

local == <<kind, messages, iteration, lastSig, consecutive, calls, checked, results, ran, sound>>
vars  == <<history, inputs, lastId, pc, alone, local>>

---------------------------------------------------------------------------------
(***************************************************************************)
(* Messages, and what the model's API makes of a list of them.             *)
(***************************************************************************)
SystemPrompt   == [role |-> "system", text |-> "prompt"]
Warning        == [role |-> "system", text |-> "loop detected"]
User           == [role |-> "user"]
Assistant(ids) == [role |-> "assistant", calls |-> ids]
Tool(id)       == [role |-> "tool", id |-> id]

Loc      == {"idle", "read", "request", "check", "results", "pad", "padding", "return",
             "stream", "trim"}
Ids      == 1 .. MaxIds
Resolved == 0
Call     == [id : Ids, sig : Sigs]
Message  == {SystemPrompt, Warning, User} \cup {Tool(i) : i \in Ids}
                \cup [role : {"assistant"}, calls : Seq(Ids)]
IdsOf(c) == [i \in 1 .. Len(c) |-> c[i].id]

Range1(s) == {s[i] : i \in 1 .. Len(s)}

\* The API takes a list in which the tool calls of every assistant message are
\* answered, each once, by the tool results right after it, and nothing else is.
\* System messages are pulled out of the list before.
Asked(m) == IF m.role = "assistant" THEN m.calls ELSE <<>>
Answers(msgs, i, id, j) ==
    /\ i < j /\ msgs[j] = Tool(id)
    /\ \A k \in i + 1 .. j - 1 : msgs[k].role \in {"tool", "system"}

\* The first n messages of the list are such a list.
CompleteTo(msgs, n) ==
    /\ \A j \in 1 .. n : msgs[j].role = "tool" =>
        \E i \in 1 .. n : \E id \in Range1(Asked(msgs[i])) : Answers(msgs, i, id, j)
    /\ \A i \in 1 .. n : \A id \in Range1(Asked(msgs[i])) :
        \E j \in 1 .. n : /\ Answers(msgs, i, id, j)
                         /\ \A k \in 1 .. n : Answers(msgs, i, id, k) => k = j
WellFormed(msgs) == CompleteTo(msgs, Len(msgs))

---------------------------------------------------------------------------------
Init ==
    /\ history = <<>>
    /\ inputs = 0
    /\ lastId = 0
    /\ pc = [t \in Turns |-> "idle"]
    /\ kind = [t \in Turns |-> "full"]
    /\ messages = [t \in Turns |-> <<>>]
    /\ iteration = [t \in Turns |-> 0]
    /\ lastSig = [t \in Turns |-> NoSig]
    /\ consecutive = [t \in Turns |-> 0]
    /\ calls = [t \in Turns |-> <<>>]
    /\ checked = [t \in Turns |-> 0]
    /\ results = [t \in Turns |-> <<>>]
    /\ ran = [t \in Turns |-> <<>>]
    /\ alone = [t \in Turns |-> FALSE]
    /\ sound = [t \in Turns |-> FALSE]

Goto(t, loc) == pc' = [pc EXCEPT ![t] = loc]

\* The goroutines in S are over and what they held is gone.
Forget(S) ==
    /\ pc' = [t \in Turns |-> IF t \in S THEN "idle" ELSE pc[t]]
    /\ kind' = [t \in Turns |-> IF t \in S THEN "full" ELSE kind[t]]
    /\ messages' = [t \in Turns |-> IF t \in S THEN <<>> ELSE messages[t]]
    /\ iteration' = [t \in Turns |-> IF t \in S THEN 0 ELSE iteration[t]]
    /\ lastSig' = [t \in Turns |-> IF t \in S THEN NoSig ELSE lastSig[t]]
    /\ consecutive' = [t \in Turns |-> IF t \in S THEN 0 ELSE consecutive[t]]
    /\ calls' = [t \in Turns |-> IF t \in S THEN <<>> ELSE calls[t]]
    /\ checked' = [t \in Turns |-> IF t \in S THEN 0 ELSE checked[t]]
    /\ results' = [t \in Turns |-> IF t \in S THEN <<>> ELSE results[t]]
    /\ ran' = [t \in Turns |-> IF t \in S THEN <<>> ELSE ran[t]]
    /\ alone' = [t \in Turns |-> t \notin S /\ alone[t]]
    /\ sound' = [t \in Turns |-> t \notin S /\ sound[t]]

Append1(m) == history' = Append(history, m)

\* Appended to the session and to the prompt.
Record(t, m) == Append1(m) /\ messages' = [messages EXCEPT ![t] = Append(@, m)]

Input == inputs < MaxInputs /\ inputs' = inputs + 1

\* Whoever begins disturbs those at work.  The goroutine that collects a
\* streamed answer outlives its turn.
Enter(t) ==
    /\ pc[t] = "idle"
    /\ Input
    /\ "overlap" \in Disturbances \/ \A u \in Turns : pc[u] \in {"idle", "stream"}

Alone(t) == alone' = [u \in Turns |-> u = t /\ \A v \in Turns : pc[v] = "idle"]
NobodyAlone == alone' = [u \in Turns |-> FALSE]

---------------------------------------------------------------------------------
(***************************************************************************)
(* The turn.                                                               *)
(***************************************************************************)
BeginTurn(t, k) ==
    /\ k = "full" \/ "stream" \in Disturbances
    /\ Enter(t)
    /\ Alone(t)
    /\ Append1(User)
    /\ kind' = [kind EXCEPT ![t] = k]
    /\ Goto(t, "read")
    /\ UNCHANGED <<lastId, messages, iteration, lastSig, consecutive, calls, checked, results, ran, sound>>

ReadHistory(t) ==
    /\ pc[t] = "read"
    /\ messages' = [messages EXCEPT ![t] = <<SystemPrompt>> \o history]
    /\ sound' = [sound EXCEPT ![t] = WellFormed(history)]
    /\ Goto(t, "request")
    /\ UNCHANGED <<history, inputs, lastId, kind, iteration, lastSig, consecutive, calls, checked, results, ran, alone>>

\* HandleMessage pads on return, whichever way it returns.
Return(t) == Goto(t, IF kind[t] = "full" THEN "pad" ELSE "return")

\* An error of any kind, the refusal of a malformed list included.
ModelFails(t) ==
    /\ pc[t] = "request"
    /\ Return(t)
    /\ UNCHANGED <<history, inputs, lastId, alone, local>>

\* A full turn appends the answer; a stream asks once more, for a stream.
ModelAnswers(t) ==
    /\ pc[t] = "request"
    /\ WellFormed(messages[t])
    /\ IF kind[t] = "full" THEN Append1(Assistant(<<>>)) /\ Return(t)
       ELSE Goto(t, "stream") /\ UNCHANGED history
    /\ UNCHANGED <<inputs, lastId, alone, local>>

\* ChatStream fails: the first answer is used.
StreamRefused(t) ==
    /\ pc[t] = "request"
    /\ kind[t] = "stream"
    /\ WellFormed(messages[t])
    /\ Append1(Assistant(<<>>))
    /\ Return(t)
    /\ UNCHANGED <<inputs, lastId, alone, local>>

Responses == UNION {[1 .. n -> Sigs] : n \in 1 .. MaxCalls}

ModelCallsTools(t) ==
    /\ pc[t] = "request"
    /\ WellFormed(messages[t])
    /\ \E sigs \in Responses :
        /\ lastId + Len(sigs) <= MaxIds
        /\ lastId' = lastId + Len(sigs)
        /\ calls' = [calls EXCEPT ![t] =
                        [i \in DOMAIN sigs |-> [id |-> lastId + i, sig |-> sigs[i]]]]
        /\ Record(t, Assistant(IdsOf(calls'[t])))
    /\ Goto(t, "check")
    /\ UNCHANGED <<inputs, kind, iteration, lastSig, consecutive, checked, results, ran, alone, sound>>

\* Length of the run of identical calls that ends with the next one.
RunLength(t) ==
    IF calls[t][checked[t] + 1].sig = lastSig[t] THEN consecutive[t] + 1 ELSE 1

\* Faulty variant: the fourth identical call is the first to count as a loop.
CheckForFour(t) ==
    /\ pc[t] = "check"
    /\ checked[t] < Len(calls[t])
    /\ lastSig' = [lastSig EXCEPT ![t] = calls[t][checked[t] + 1].sig]
    /\ consecutive' = [consecutive EXCEPT ![t] = RunLength(t)]
    /\ checked' = [checked EXCEPT ![t] = @ + 1]
    /\ IF RunLength(t) > 3
       THEN Record(t, Warning) /\ Return(t)
       ELSE UNCHANGED <<history, messages, pc>>
    /\ UNCHANGED <<inputs, lastId, kind, iteration, calls, results, ran, alone, sound>>

\* The third identical call in a row ends the turn, with the calls of this
\* response unanswered.
CheckCall(t) ==
    /\ pc[t] = "check"
    /\ checked[t] < Len(calls[t])
    /\ lastSig' = [lastSig EXCEPT ![t] = calls[t][checked[t] + 1].sig]
    /\ consecutive' = [consecutive EXCEPT ![t] = RunLength(t)]
    /\ checked' = [checked EXCEPT ![t] = @ + 1]
    /\ IF RunLength(t) >= 3
       THEN Record(t, Warning) /\ Return(t)
       ELSE UNCHANGED <<history, messages, pc>>
    /\ UNCHANGED <<inputs, lastId, kind, iteration, calls, results, ran, alone, sound>>

\* Faulty variant: the responses the executor gave, and no more.
ZipResponses(c, answered) == SelectSeq(IdsOf(c), LAMBDA id : id \in answered)

\* executeToolsConcurrently: a result for every call, an error for those the
\* executor gave no response to.
ToolResults(c, answered) == IdsOf(c)

\* HandleMessage checks once more that there is one for every call.
Backstop(t, rs) == IF kind[t] = "full" /\ Len(rs) < Len(calls[t]) THEN IdsOf(calls[t]) ELSE rs

\* The executor may be cut short and answer some of the calls only.
ExecuteTools(t) ==
    /\ pc[t] = "check"
    /\ checked[t] = Len(calls[t])
    /\ \E answered \in SUBSET Range1(IdsOf(calls[t])) :
        results' = [results EXCEPT ![t] = Backstop(t, ToolResults(calls[t], answered))]
    /\ ran' = [ran EXCEPT ![t] = @ \o [i \in DOMAIN calls[t] |-> calls[t][i].sig]]
    /\ Goto(t, "results")
    /\ UNCHANGED <<history, inputs, lastId, kind, messages, iteration, lastSig, consecutive, calls, checked, alone, sound>>

\* Faulty variant: the result is kept from the prompt.
AppendResultUnseen(t) ==
    /\ pc[t] = "results"
    /\ results[t] # <<>>
    /\ Append1(Tool(Head(results[t])))
    /\ results' = [results EXCEPT ![t] = Tail(@)]
    /\ UNCHANGED <<inputs, lastId, pc, kind, messages, iteration, lastSig, consecutive, calls, checked, ran, alone, sound>>

AppendResult(t) ==
    /\ pc[t] = "results"
    /\ results[t] # <<>>
    /\ Record(t, Tool(Head(results[t])))
    /\ results' = [results EXCEPT ![t] = Tail(@)]
    /\ UNCHANGED <<inputs, lastId, pc, kind, iteration, lastSig, consecutive, calls, checked, ran, alone, sound>>

\* Faulty variant: one iteration more.
IterateOnceMore(t) ==
    /\ pc[t] = "results"
    /\ results[t] = <<>>
    /\ iteration' = [iteration EXCEPT ![t] = @ + 1]
    /\ calls' = [calls EXCEPT ![t] = <<>>]
    /\ checked' = [checked EXCEPT ![t] = 0]
    /\ IF iteration'[t] > MaxIterations THEN Return(t) ELSE Goto(t, "request")
    /\ UNCHANGED <<history, inputs, lastId, kind, messages, lastSig, consecutive, results, ran, alone, sound>>

NextIteration(t) ==
    /\ pc[t] = "results"
    /\ results[t] = <<>>
    /\ iteration' = [iteration EXCEPT ![t] = @ + 1]
    /\ calls' = [calls EXCEPT ![t] = <<>>]
    /\ checked' = [checked EXCEPT ![t] = 0]
    /\ IF iteration'[t] = MaxIterations THEN Return(t) ELSE Goto(t, "request")
    /\ UNCHANGED <<history, inputs, lastId, kind, messages, lastSig, consecutive, results, ran, alone, sound>>

\* Faulty variant: no padding.
NoOrphans(msgs) == <<>>

\* The calls of the last assistant message that made any, with those crossed
\* out that some later message answers.
Callers(msgs)    == {i \in 1 .. Len(msgs) : Asked(msgs[i]) # <<>>}
LastCaller(msgs) == CHOOSE i \in Callers(msgs) : \A j \in Callers(msgs) : j <= i
Open(msgs, id)   == \A j \in LastCaller(msgs) + 1 .. Len(msgs) : msgs[j] # Tool(id)
Orphans(msgs) ==
    LET asked == Asked(msgs[LastCaller(msgs)])
    IN  IF Callers(msgs) = {} \/ \A id \in Range1(asked) : ~Open(msgs, id) THEN <<>>
        ELSE [i \in DOMAIN asked |-> IF Open(msgs, asked[i]) THEN asked[i] ELSE Resolved]

\* padOrphanToolResults reads the session...
FindOrphans(t) ==
    /\ pc[t] = "pad"
    /\ results' = [results EXCEPT ![t] = Orphans(history)]
    /\ Goto(t, "padding")
    /\ UNCHANGED <<history, inputs, lastId, kind, messages, iteration, lastSig, consecutive, calls, checked, ran, alone, sound>>

\* ... and goes through the calls, appending a result for each that has none.
PadOrphan(t) ==
    /\ pc[t] = "padding"
    /\ results[t] # <<>>
    /\ IF Head(results[t]) = Resolved THEN UNCHANGED history
       ELSE Append1(Tool(Head(results[t])))
    /\ results' = [results EXCEPT ![t] = Tail(@)]
    /\ UNCHANGED <<inputs, lastId, pc, kind, messages, iteration, lastSig, consecutive, calls, checked, ran, alone, sound>>

EndTurn(t) ==
    /\ pc[t] = "return" \/ (pc[t] = "padding" /\ results[t] = <<>>)
    /\ Forget({t})
    /\ UNCHANGED <<history, inputs, lastId>>

\* The streamed answer is appended once the client has all of it...
StreamEnds(t) ==
    /\ pc[t] = "stream"
    /\ Append1(Assistant(<<>>))
    /\ Forget({t})
    /\ UNCHANGED <<inputs, lastId>>

\* ... and never if the client goes away first.
StreamDropped(t) ==
    /\ pc[t] = "stream"
    /\ Forget({t})
    /\ UNCHANGED <<history, inputs, lastId>>

---------------------------------------------------------------------------------
(***************************************************************************)
(* Commands and disturbances.                                              *)
(***************************************************************************)
\* /new, on any channel but the web.
ClearHistory(t) ==
    /\ Enter(t)
    /\ NobodyAlone
    /\ history' = <<>>
    /\ UNCHANGED <<lastId, pc, local>>

\* /retry: the list is read ...
RetryReads(t) ==
    /\ Enter(t)
    /\ Alone(t)
    /\ messages' = [messages EXCEPT ![t] = history]
    /\ sound' = [sound EXCEPT ![t] = WellFormed(history)]
    /\ kind' = [kind EXCEPT ![t] = "retry"]
    /\ Goto(t, "trim")
    /\ UNCHANGED <<history, lastId, iteration, lastSig, consecutive, calls, checked, results, ran>>

\* Everything from the last user message on.
RetryCut(s) ==
    LET users == {i \in 1 .. Len(s) : s[i].role = "user"}
    IN  IF users = {} THEN s ELSE SubSeq(s, 1, (CHOOSE i \in users : \A j \in users : j <= i) - 1)

\* ... and replaced.
RetryTrims(t) ==
    /\ pc[t] = "trim"
    /\ history' = IF RetryCut(messages[t]) = messages[t] THEN history ELSE RetryCut(messages[t])
    /\ Goto(t, "return")
    /\ UNCHANGED <<inputs, lastId, alone, local>>

\* InjectGroupMessage.
Inject ==
    /\ "inject" \in Disturbances
    /\ Input
    /\ Append1(User)
    /\ NobodyAlone
    /\ UNCHANGED <<lastId, pc, local>>

Crash ==
    /\ "crash" \in Disturbances
    /\ \E t \in Turns : pc[t] # "idle"
    /\ Forget(Turns)
    /\ UNCHANGED <<history, inputs, lastId>>

---------------------------------------------------------------------------------
TurnStep(t) ==
    \/ \E k \in {"full", "stream"} : BeginTurn(t, k)
    \/ ReadHistory(t)
    \/ ModelFails(t)
    \/ ModelAnswers(t)
    \/ StreamRefused(t)
    \/ ModelCallsTools(t)
    \/ CheckCall(t)
    \/ ExecuteTools(t)
    \/ AppendResult(t)
    \/ NextIteration(t)
    \/ FindOrphans(t)
    \/ PadOrphan(t)
    \/ EndTurn(t)
    \/ StreamEnds(t)
    \/ StreamDropped(t)

CommandStep(t) ==
    \/ ClearHistory(t)
    \/ RetryReads(t)
    \/ RetryTrims(t)

\* The bound on inputs is reached and all they asked for is done.
AllServed ==
    /\ inputs = MaxInputs
    /\ \A t \in Turns : pc[t] = "idle"
    /\ UNCHANGED vars

Next ==
    \/ \E t \in Turns : TurnStep(t) \/ CommandStep(t)
    \/ Inject
    \/ Crash
    \/ AllServed

Spec == Init /\ [][Next]_vars

---------------------------------------------------------------------------------
(***************************************************************************)
(* Properties.                                                             *)
(***************************************************************************)

\* Types; a turn holds calls and results only inside a round.
TypeOK ==
    /\ history \in Seq(Message)
    /\ inputs \in 0 .. MaxInputs
    /\ lastId \in 0 .. MaxIds
    /\ pc \in [Turns -> Loc]
    /\ kind \in [Turns -> {"full", "stream", "retry"}]
    /\ messages \in [Turns -> Seq(Message)]
    /\ iteration \in [Turns -> 0 .. MaxIterations]
    /\ lastSig \in [Turns -> Sigs \cup {NoSig}]
    /\ consecutive \in [Turns -> 0 .. 3]
    /\ calls \in [Turns -> Seq(Call)]
    /\ \A t \in Turns : checked[t] \in 0 .. Len(calls[t])
    /\ results \in [Turns -> Seq(Ids \cup {Resolved})]
    /\ ran \in [Turns -> Seq(Sigs)]
    /\ alone \in [Turns -> BOOLEAN]
    /\ sound \in [Turns -> BOOLEAN]
    /\ \A t \in Turns :
        /\ results[t] # <<>> => pc[t] \in {"results", "padding"}
        /\ pc[t] = "request" => calls[t] = <<>> /\ iteration[t] < MaxIterations

\* A turn never makes a request the API refuses unless the history it read was
\* already broken, however many of its tools failed to answer and whatever goes
\* on around it.
RoundsComplete ==
    \A t \in Turns : pc[t] = "request" /\ sound[t] => WellFormed(messages[t])

\* What the model is shown is what the session holds, after any number of
\* rounds, for a turn that had the session to itself.
PromptIsHistory ==
    \A t \in Turns :
        pc[t] = "request" /\ alone[t] => messages[t] = <<SystemPrompt>> \o history

\* A turn or command that had the session to itself and found a well-formed
\* history leaves one, whether it ends with an answer, an error, a detected loop
\* or out of iterations ("pad the orphan so the session history stays
\* well-formed", loop.go:521).  Streamed turns do not pad.
LeavesWellFormed ==
    \A t \in Turns :
        /\ pc[t] = "return" \/ (pc[t] = "padding" /\ results[t] = <<>>)
        /\ alone[t] /\ sound[t] /\ kind[t] # "stream"
        => WellFormed(history)

\* No turn executes the same call three times in a row, in one response or over
\* several.
NoThreeAlike ==
    \A t \in Turns : \A i \in 1 .. Len(ran[t]) - 2 :
        ~(ran[t][i] = ran[t][i + 1] /\ ran[t][i] = ran[t][i + 2])

\* No request is refused for a tool call without its result ("can't leave the
\* conversation in a state where the next turn's API call gets a 400 for orphan
\* tool_use ids", loop.go:806).
NeverRefused == \A t \in Turns : pc[t] = "request" => WellFormed(messages[t])

==================================================================================
