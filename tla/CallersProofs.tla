------------------------------ MODULE CallersProofs ------------------------------
(***************************************************************************)
(* What callers and readers are promised, for all values of the constants: *)
(* whoever calls a plugin (PluginHost) or an MCP server (McpClients) gets  *)
(* the answer to that call, a tool with a chain of providers asks those it *)
(* has in order (ToolChain), what a model streams arrives whole            *)
(* (ModelStream), and so does what an agent says in a chat (Channels).     *)
(*                                                                         *)
(* 1. PluginCallsEnd, for any number of callers, calls and notifications:  *)
(*    as long as the plugin lives no answer a caller waits for is lost,    *)
(*    and once Stop has gone through every waiting caller has something to *)
(*    read. Both rest on who is entered in pending (Entered): while the    *)
(*    plugin lives every call under way is, so readLoop passes its answer  *)
(*    on and the sweep, which comes after the kill, finds it. Numbers are  *)
(*    never used twice (Distinct), so that no caller takes another's entry *)
(*    or answer.                                                           *)
(*                                                                         *)
(* 2. AnswersMatched and OneCallAtATime, for any number of servers, tools  *)
(*    and tasks. A client knows an answer by its id alone. That it is the  *)
(*    answer to this very call rests on Fits: the id of every line that    *)
(*    carries a result, be it still with the server or already in its      *)
(*    output, was given out before, and a task that waits for that id is   *)
(*    the one that asked; and on Waiting: who waits has the client's       *)
(*    mutex.                                                               *)
(*                                                                         *)
(* 3. ChainSound, for every catalogue of settings and every chain, however *)
(*    long. Its first two parts need no assumption; that a tool which is   *)
(*    shown is also served needs the references to form a sequence         *)
(*    (ToolAssumed), which SelectSeq returns but no installed prover can   *)
(*    show.                                                                *)
(*                                                                         *)
(* 4. StreamsWhole, for streams of any length and channels of any          *)
(*    capacity. The parser has a block for every one that was opened and   *)
(*    in it the parts that it has read (Parsed), counted in what the       *)
(*    server sent; the chunks in the two channels are the pieces of text   *)
(*    in between, one each and in order (Carries), so that what the loop   *)
(*    stores and the client sees are beginnings of the text (Streaming).   *)
(*                                                                         *)
(* 5. ChannelsDeliver, for any rows, texts and limits. The bus holds the   *)
(*    answers said last (InLine), so parts are posted answer by answer     *)
(*    (PartsPosted); what is being sent goes on where its last post ended  *)
(*    (Underway); and between two posts of a bot, and after its last one,  *)
(*    nothing is missing but what was refused or is still to be sent       *)
(*    (Joined).                                                            *)
(***************************************************************************)
EXTENDS Services, FiniteSetTheorems, SequenceTheorems, WellFoundedInduction, TLAPS

Under == {"entered", "waiting", "answered", "leaving"}
PluginPlace == [at : Under \cup {"idle", "done", "failed"}, id : 1 .. MaxId]

PluginTyped ==
    /\ alive \in BOOLEAN
    /\ nextID \in 1 .. MaxId
    /\ pending \subseteq PluginPart!Ids
    /\ channel \in [PluginPart!Ids -> {"empty", "answer", "stopped"}]
    /\ caller \in [PluginPart!Caller -> PluginPlace]
    /\ reader \in [at : {"off", "reading", "sending", "ended"}, id : PluginPart!Ids \cup {PluginPart!Note}]
    /\ stdin \in Seq(PluginPart!Ids) /\ working \subseteq PluginPart!Ids /\ stdout \in Seq(PluginPart!Ids \cup {PluginPart!Note})

\* Calls under way have numbers that were given out, each its own.
Numbered == \A c \in PluginPart!Caller : caller[c].at \in Under => caller[c].id \in 2 .. nextID
Distinct ==
    \A c, d \in PluginPart!Caller :
        caller[c].at \in Under /\ caller[d].at \in Under /\ caller[c].id = caller[d].id => c = d

\* Only a sweep takes out the entry of a call under way, and it leaves it something to read.
Entered ==
    \A c \in PluginPart!Caller :
        /\ alive /\ caller[c].at \in {"entered", "waiting"} => caller[c].id \in pending
        /\ PluginPart!At(c, "waiting") => caller[c].id \in pending \/ channel[caller[c].id] # "empty"

\* The gateway calls in three places; the process is dead from the kill on.
HostCalls ==
    /\ caller[PluginPart!Host].at # "idle" => host \in {"initialize", "list", "shutdown"}
    /\ host = "discovered" => \A c \in PluginPart!Caller : PluginPart!At(c, "idle")
Dead ==
    /\ mutex = "sweep" => host = "sweep"
    /\ host \in {"sweep", "stopped"} => ~alive

PluginInv ==
    /\ PluginTyped /\ Numbered /\ Distinct /\ Entered /\ HostCalls /\ Dead
    /\ PluginPart!StopLeavesNobodyWaiting /\ PluginPart!NoAnswerLost

PluginSpec == PluginPart!Init /\ [][PluginPart!Next]_(PluginPart!vars)

--------------------------------------------------------------------------------
LEMMA PluginInit == ASSUME PluginAssumed PROVE PluginPart!Init => PluginInv
<1> SUFFICES ASSUME PluginPart!Init PROVE PluginInv
    OBVIOUS
<1>1. \A c \in PluginPart!Caller : caller[c].at = "idle" /\ caller[c].id = 1
    BY DEF PluginPart!Init
<1>2. PluginTyped
    <2>1. 1 \in 1 .. MaxId
        BY DEF PluginAssumed
    <2>2. [at |-> "idle", id |-> 1] \in PluginPlace
        BY <2>1 DEF PluginPlace
    <2>3. caller \in [PluginPart!Caller -> PluginPlace] /\ channel \in [PluginPart!Ids -> {"empty", "answer", "stopped"}]
        BY <2>2 DEF PluginPart!Init
    <2>4. stdin \in Seq(PluginPart!Ids) /\ stdout \in Seq(PluginPart!Ids \cup {PluginPart!Note})
        BY DEF PluginPart!Init
    <2> QED
        BY <2>1, <2>3, <2>4 DEF PluginPart!Init, PluginTyped
<1>3. Numbered /\ Distinct /\ Entered
    BY <1>1 DEF Numbered, Distinct, Entered, PluginPart!At, Under
<1>4. HostCalls /\ Dead
    BY <1>1 DEF PluginPart!Init, HostCalls, Dead, PluginPart!At, PluginPart!Free, PluginPart!Caller
<1>5. PluginPart!StopLeavesNobodyWaiting /\ PluginPart!NoAnswerLost
    BY <1>1 DEF PluginPart!Init, PluginPart!StopLeavesNobodyWaiting, PluginPart!NoAnswerLost, PluginPart!At
<1> QED
    BY <1>2, <1>3, <1>4, <1>5 DEF PluginInv

LEMMA NumberGiven ==
    ASSUME PluginAssumed, PluginInv, NEW c \in PluginPart!Caller, caller[c].at \in Under
    PROVE  caller[c].id \in PluginPart!Ids
<1>1. caller[c].id \in 2 .. nextID /\ nextID \in 1 .. MaxId
    BY DEF PluginInv, PluginTyped, Numbered
<1> QED
    BY <1>1 DEF PluginPart!Ids, PluginAssumed

\* Where the answer a caller waits for may be.
Somewhere(i) ==
    \/ i \in working
    \/ \E k \in DOMAIN stdin : stdin[k] = i
    \/ \E k \in DOMAIN stdout : stdout[k] = i
    \/ reader = [at |-> "sending", id |-> i]
    \/ channel[i] # "empty"

\* A step in which no caller moves: the entries and the answers stay with whoever waits.
LEMMA CallersStay ==
    ASSUME PluginAssumed, PluginInv, PluginTyped', UNCHANGED <<caller, nextID>>,
           alive' => alive, alive' => pending \subseteq pending',
           \A i \in pending : i \in pending' \/ channel'[i] # "empty",
           \A i \in PluginPart!Ids : channel[i] # "empty" => channel'[i] # "empty",
           alive' => \A i \in pending : Somewhere(i) => Somewhere(i)',
           caller[PluginPart!Host].at # "idle" => host' = host, host' # "discovered" \/ host' = host,
           Dead', host' = "stopped" => host = "stopped" \/ pending = {}
    PROVE  PluginInv'
<1>1. Numbered' /\ Distinct'
    BY DEF PluginInv, Numbered, Distinct
<1>2. Entered'
    <2> SUFFICES ASSUME NEW c \in PluginPart!Caller
                 PROVE  /\ alive' /\ caller[c].at \in {"entered", "waiting"} => caller[c].id \in pending'
                        /\ PluginPart!At(c, "waiting") => caller[c].id \in pending' \/ channel'[caller[c].id] # "empty"
        BY DEF Entered, PluginPart!At
    <2>1. PluginPart!At(c, "waiting") => caller[c].id \in PluginPart!Ids
        BY NumberGiven DEF PluginPart!At, Under
    <2> QED
        BY <2>1 DEF PluginInv, Entered
<1>3. HostCalls'
    BY DEF PluginInv, HostCalls, PluginPart!At
<1>4. PluginPart!StopLeavesNobodyWaiting'
    <2> SUFFICES ASSUME host' = "stopped", NEW c \in PluginPart!Caller, PluginPart!At(c, "waiting")
                 PROVE  channel'[caller[c].id] # "empty"
        BY DEF PluginPart!StopLeavesNobodyWaiting, PluginPart!At
    <2>1. caller[c].id \in PluginPart!Ids
        BY NumberGiven DEF PluginPart!At, Under
    <2>2. channel[caller[c].id] # "empty"
        BY DEF PluginInv, PluginPart!StopLeavesNobodyWaiting, Entered
    <2> QED
        BY <2>1, <2>2
<1>5. PluginPart!NoAnswerLost'
    <2> SUFFICES ASSUME alive', NEW c \in PluginPart!Caller, PluginPart!At(c, "waiting")
                 PROVE  Somewhere(caller[c].id)'
        BY DEF PluginPart!NoAnswerLost, PluginPart!At, Somewhere
    <2>1. caller[c].id \in pending
        BY DEF PluginInv, Entered, PluginPart!At
    <2>2. Somewhere(caller[c].id)
        BY DEF PluginInv, PluginPart!NoAnswerLost, Somewhere
    <2>3. (\A i \in pending : Somewhere(i) => Somewhere(i)') => Somewhere(caller[c].id)'
        BY <2>1, <2>2 DEF Somewhere
    <2> QED
        BY <2>3
<1> QED
    BY <1>1, <1>2, <1>3, <1>4, <1>5 DEF PluginInv

\* A caller that waits for nothing more: its call ends, or is given up.
LEMMA CallerLeaves ==
    ASSUME PluginAssumed, PluginInv, PluginTyped', NEW c \in PluginPart!Caller, caller[c].at # "idle",
           NEW x \in PluginPlace, caller' = [caller EXCEPT ![c] = x],
           x.at \notin {"entered", "waiting"}, x.id = caller[c].id,
           x.at \in Under => caller[c].at \in Under,
           UNCHANGED <<nextID, alive, stdin, stdout, working, reader>>,
           caller[c].at \in Under \/ UNCHANGED <<pending, channel>>,
           \A i \in PluginPart!Ids : i # caller[c].id =>
               (i \in pending <=> i \in pending') /\ channel'[i] = channel[i],
           \/ host' = host
           \/ c = PluginPart!Host /\ x.at = "idle" /\ host' \notin {"discovered", "stopped"},
           Dead'
    PROVE  PluginInv'
<1>1. caller'[c] = x /\ \A d \in PluginPart!Caller : d # c => caller'[d] = caller[d]
    BY DEF PluginInv, PluginTyped
<1>2. Numbered' /\ Distinct'
    BY <1>1 DEF PluginInv, Numbered, Distinct
<1>3. \A d \in PluginPart!Caller : caller'[d].at \in {"entered", "waiting"} =>
          /\ d # c /\ caller'[d] = caller[d] /\ caller[d].id \in PluginPart!Ids
          /\ (caller[d].id \in pending <=> caller[d].id \in pending')
          /\ channel'[caller[d].id] = channel[caller[d].id]
    <2> SUFFICES ASSUME NEW d \in PluginPart!Caller, caller'[d].at \in {"entered", "waiting"}
                 PROVE  /\ d # c /\ caller'[d] = caller[d] /\ caller[d].id \in PluginPart!Ids
                        /\ (caller[d].id \in pending <=> caller[d].id \in pending')
                        /\ channel'[caller[d].id] = channel[caller[d].id]
        OBVIOUS
    <2>1. d # c /\ caller'[d] = caller[d]
        BY <1>1
    <2>2. caller[d].at \in Under /\ caller[d].id \in PluginPart!Ids
        BY <2>1, NumberGiven DEF Under
    <2>3. caller[c].at \in Under => caller[d].id # caller[c].id
        BY <2>1, <2>2 DEF PluginInv, Distinct
    <2> QED
        BY <2>1, <2>2, <2>3
<1>4. Entered'
    BY <1>3 DEF PluginInv, Entered, PluginPart!At
<1>5. HostCalls'
    BY <1>1 DEF PluginInv, HostCalls, PluginPart!At
<1>6. PluginPart!StopLeavesNobodyWaiting'
    BY <1>3 DEF PluginInv, PluginPart!StopLeavesNobodyWaiting, PluginPart!At
<1>7. PluginPart!NoAnswerLost'
    BY <1>3 DEF PluginInv, PluginPart!NoAnswerLost, PluginPart!At
<1> QED
    BY <1>2, <1>4, <1>5, <1>6, <1>7 DEF PluginInv

--------------------------------------------------------------------------------
(***************************************************************************)
(* The gateway.                                                            *)
(***************************************************************************)

\* At the start nobody has called.
LEMMA StartStep == ASSUME PluginAssumed, PluginInv, PluginPart!Start PROVE PluginInv'
<1>1. /\ UNCHANGED <<caller, nextID, pending, channel, mutex>> /\ host' = "initialize"
      /\ \A c \in PluginPart!Caller : caller[c].at = "idle"
    BY DEF PluginPart!Start, PluginPart!calls, PluginInv, HostCalls, PluginPart!At
<1>2. mutex # "sweep"
    BY DEF PluginPart!Start, PluginPart!Free
<1>3. PluginTyped'
    <2>1. PluginPart!Note \in PluginPart!Ids \cup {PluginPart!Note}
        OBVIOUS
    <2>2. reader' \in [at : {"off", "reading", "sending", "ended"}, id : PluginPart!Ids \cup {PluginPart!Note}]
        BY <2>1 DEF PluginPart!Start, PluginPart!ReadingOn
    <2> QED
        BY <1>1, <2>2 DEF PluginPart!Start, PluginInv, PluginTyped
<1>4. Numbered' /\ Distinct' /\ Entered' /\ HostCalls' /\ Dead'
    BY <1>1, <1>2 DEF Numbered, Distinct, Entered, HostCalls, Dead, PluginPart!At, Under
<1>5. PluginPart!StopLeavesNobodyWaiting' /\ PluginPart!NoAnswerLost'
    BY <1>1 DEF PluginPart!StopLeavesNobodyWaiting, PluginPart!NoAnswerLost, PluginPart!At
<1> QED
    BY <1>3, <1>4, <1>5 DEF PluginInv

LEMMA GatewayStep ==
    ASSUME PluginAssumed, PluginInv, PluginPart!StartFails \/ PluginPart!Adopt \/ PluginPart!StopAll \/ PluginPart!Close \/ PluginPart!Kill
    PROVE  PluginInv'
<1>1. /\ UNCHANGED <<caller, nextID, pending, channel, stdin, working, stdout, reader>>
      /\ alive' = alive \/ alive' = FALSE
      /\ host \in {"discovered", "adopt", "up", "close", "wait"}
      /\ host' \in {"done", "list", "up", "shutdown", "wait", "sweep"}
      /\ \/ mutex' = mutex /\ host' # "sweep"
         \/ mutex' = "sweep" /\ host' = "sweep" /\ ~alive'
    BY DEF PluginPart!StartFails, PluginPart!Adopt, PluginPart!StopAll, PluginPart!Close, PluginPart!Kill, PluginPart!lock, PluginPart!calls, PluginPart!pipes
<1>2. PluginTyped'
    BY <1>1 DEF PluginInv, PluginTyped
<1>3. Dead'
    BY <1>1 DEF PluginInv, Dead
<1>4. caller[PluginPart!Host].at = "idle"
    BY <1>1 DEF PluginInv, HostCalls, PluginPart!At, PluginPart!Caller
<1>5. \A i : Somewhere(i) => Somewhere(i)'
    BY <1>1 DEF Somewhere
<1> QED
    BY <1>1, <1>2, <1>3, <1>4, <1>5, CallersStay

LEMMA PluginSweepStep == ASSUME PluginAssumed, PluginInv, PluginPart!SweepOne \/ PluginPart!SweepDone PROVE PluginInv'
<1>1. ~alive
    BY DEF PluginInv, Dead, PluginPart!SweepOne, PluginPart!SweepDone
<1>2. CASE PluginPart!SweepOne
    <2>1. PICK i \in pending :
              /\ channel' = [channel EXCEPT ![i] = "stopped"]
              /\ pending' = pending \ {i}
        BY <1>2 DEF PluginPart!SweepOne
    <2>2. UNCHANGED <<PluginPart!lock, nextID, caller, PluginPart!pipes, reader, host>>
        BY <1>2 DEF PluginPart!SweepOne
    <2>3. i \in PluginPart!Ids /\ channel'[i] = "stopped" /\ \A j \in PluginPart!Ids : j # i => channel'[j] = channel[j]
        BY <2>1 DEF PluginInv, PluginTyped
    <2>4. PluginTyped'
        BY <2>1, <2>2 DEF PluginInv, PluginTyped, PluginPart!pipes
    <2>5. Dead'
        BY <2>2 DEF PluginInv, Dead, PluginPart!pipes, PluginPart!lock
    <2> QED
        BY <1>1, <2>1, <2>2, <2>3, <2>4, <2>5, CallersStay DEF PluginPart!pipes
<1>3. CASE PluginPart!SweepDone
    <2>1. /\ UNCHANGED <<PluginPart!calls, PluginPart!pipes, reader>> /\ pending = {} /\ host' = "stopped"
          /\ mutex' = PluginPart!Free
        BY <1>3 DEF PluginPart!SweepDone
    <2>2. PluginTyped'
        BY <2>1 DEF PluginInv, PluginTyped, PluginPart!calls, PluginPart!pipes
    <2>3. Dead'
        BY <1>1, <2>1 DEF Dead, PluginPart!pipes, PluginPart!Free
    <2>4. caller[PluginPart!Host].at = "idle"
        BY <1>3 DEF PluginPart!SweepDone, PluginInv, Dead, HostCalls
    <2> QED
        BY <1>1, <2>1, <2>2, <2>3, <2>4, CallersStay DEF PluginPart!calls, PluginPart!pipes
<1> QED
    BY <1>2, <1>3

--------------------------------------------------------------------------------
(***************************************************************************)
(* readLoop and the plugin.                                                *)
(***************************************************************************)

\* readLoop drops an answer only if nobody is entered for it.
LEMMA PluginReadStep ==
    ASSUME PluginAssumed, PluginInv, PluginPart!ReadAnswer \/ PluginPart!SendAnswer \/ PluginPart!ForwardNote \/ PluginPart!ReadEnd
    PROVE  PluginInv'
<1>1. /\ UNCHANGED <<caller, nextID, pending, alive, stdin, working, mutex, host>>
    BY DEF PluginPart!ReadAnswer, PluginPart!SendAnswer, PluginPart!ForwardNote, PluginPart!ReadEnd, PluginPart!lock, PluginPart!calls, PluginPart!pipes
<1>2. PluginPart!ReadingOn \in [at : {"off", "reading", "sending", "ended"}, id : PluginPart!Ids \cup {PluginPart!Note}]
    BY DEF PluginPart!ReadingOn
<1>3. Dead'
    BY <1>1 DEF PluginInv, Dead
<1>4. CASE PluginPart!ReadAnswer
    <2>1. /\ reader.at = "reading" /\ stdout # <<>> /\ stdout' = Tail(stdout) /\ channel' = channel
          /\ reader' = IF Head(stdout) = PluginPart!Note \/ Head(stdout) \in pending
                       THEN [at |-> "sending", id |-> Head(stdout)] ELSE reader
        BY <1>4 DEF PluginPart!ReadAnswer, PluginPart!calls
    <2>2. stdout \in Seq(PluginPart!Ids \cup {PluginPart!Note}) /\ Head(stdout) = stdout[1]
          /\ stdout' \in Seq(PluginPart!Ids \cup {PluginPart!Note}) /\ Head(stdout) \in PluginPart!Ids \cup {PluginPart!Note}
        BY <2>1 DEF PluginInv, PluginTyped
    <2>3. PluginTyped'
        BY <1>1, <2>1, <2>2 DEF PluginInv, PluginTyped
    <2>4. ASSUME NEW i \in pending, Somewhere(i) PROVE Somewhere(i)'
        <3>1. ASSUME NEW k \in DOMAIN stdout, stdout[k] = i PROVE Somewhere(i)'
            <4>1. CASE k = 1
                BY <2>1, <2>2, <3>1, <4>1 DEF Somewhere
            <4>2. CASE k # 1
                <5>1. k - 1 \in DOMAIN stdout' /\ stdout'[k - 1] = i
                    BY <2>1, <2>2, <3>1, <4>2
                <5> QED
                    BY <5>1 DEF Somewhere
            <4> QED
                BY <4>1, <4>2
        <3>2. reader # [at |-> "sending", id |-> i]
            BY <2>1
        <3>3. CASE i \in working \/ (\E k \in DOMAIN stdin : stdin[k] = i) \/ channel[i] # "empty"
            BY <1>1, <2>1, <3>3 DEF Somewhere
        <3> QED
            BY <2>4, <3>1, <3>2, <3>3 DEF Somewhere
    <2> QED
        BY <1>1, <1>3, <2>1, <2>3, <2>4, CallersStay
<1>5. CASE PluginPart!SendAnswer
    <2>1. /\ reader.at = "sending" /\ reader.id # PluginPart!Note /\ reader' = PluginPart!ReadingOn
          /\ channel' = [channel EXCEPT ![reader.id] = "answer"] /\ stdout' = stdout
        BY <1>5 DEF PluginPart!SendAnswer, PluginPart!pipes
    <2>2. /\ reader.id \in PluginPart!Ids /\ channel'[reader.id] = "answer"
          /\ \A i \in PluginPart!Ids : i # reader.id => channel'[i] = channel[i]
        BY <2>1 DEF PluginInv, PluginTyped
    <2>3. PluginTyped'
        BY <1>1, <1>2, <2>1 DEF PluginInv, PluginTyped
    <2>4. ASSUME NEW i \in pending, Somewhere(i) PROVE Somewhere(i)'
        <3>1. i \in PluginPart!Ids
            BY DEF PluginInv, PluginTyped
        <3>2. CASE i = reader.id
            BY <2>2, <3>2 DEF Somewhere
        <3>3. CASE i # reader.id
            <4>1. reader # [at |-> "sending", id |-> i]
                BY <3>3
            <4> QED
                BY <1>1, <2>1, <2>2, <2>4, <3>1, <3>3, <4>1 DEF Somewhere
        <3> QED
            BY <3>2, <3>3
    <2> QED
        BY <1>1, <1>3, <2>2, <2>3, <2>4, CallersStay
<1>6. CASE PluginPart!ForwardNote \/ PluginPart!ReadEnd
    <2>1. /\ channel' = channel /\ stdout' = stdout
          /\ reader' = PluginPart!ReadingOn \/ reader' = [at |-> "ended", id |-> PluginPart!Note]
          /\ reader.at = "reading" \/ reader.id = PluginPart!Note
        BY <1>6 DEF PluginPart!ForwardNote, PluginPart!ReadEnd, PluginPart!calls, PluginPart!pipes
    <2>2. PluginTyped'
        BY <1>1, <1>2, <2>1 DEF PluginInv, PluginTyped
    <2>3. ASSUME NEW i \in pending, Somewhere(i) PROVE Somewhere(i)'
        <3>1. reader # [at |-> "sending", id |-> i]
            <4>1. i # PluginPart!Note
                BY DEF PluginInv, PluginTyped, PluginPart!Ids, PluginPart!Note
            <4> QED
                BY <2>1, <4>1
        <3> QED
            BY <1>1, <2>1, <2>3, <3>1 DEF Somewhere
    <2> QED
        BY <1>1, <1>3, <2>1, <2>2, <2>3, CallersStay
<1> QED
    BY <1>4, <1>5, <1>6

\* A request goes from the pipe into the plugin, and its answer from there to the other pipe.
LEMMA PluginStep ==
    ASSUME PluginAssumed, PluginInv, PluginPart!TakeRequest \/ PluginPart!Reply \/ PluginPart!Notifies \/ PluginPart!Die
    PROVE  PluginInv'
<1>1. UNCHANGED <<caller, nextID, pending, channel, reader, mutex, host>> /\ (alive' => alive)
    BY DEF PluginPart!TakeRequest, PluginPart!Reply, PluginPart!Notifies, PluginPart!Die, PluginPart!lock, PluginPart!calls
<1>2. Dead' /\ (alive' \in BOOLEAN)
    BY <1>1 DEF PluginInv, PluginTyped, Dead, PluginPart!TakeRequest, PluginPart!Reply, PluginPart!Notifies, PluginPart!Die
<1>3. ASSUME PluginTyped', \A i \in pending : Somewhere(i) => Somewhere(i)'
      PROVE  PluginInv'
    BY <1>1, <1>2, <1>3, CallersStay
<1>4. CASE PluginPart!TakeRequest
    <2>1. /\ stdin # <<>> /\ stdin' = Tail(stdin) /\ working' = working \cup {Head(stdin)}
          /\ UNCHANGED <<alive, stdout>>
        BY <1>4 DEF PluginPart!TakeRequest
    <2>2. stdin \in Seq(PluginPart!Ids) /\ Head(stdin) = stdin[1] /\ stdin' \in Seq(PluginPart!Ids) /\ Head(stdin) \in PluginPart!Ids
        BY <2>1 DEF PluginInv, PluginTyped
    <2>3. PluginTyped'
        BY <1>1, <2>1, <2>2 DEF PluginInv, PluginTyped
    <2>4. ASSUME NEW i \in pending, Somewhere(i) PROVE Somewhere(i)'
        <3>1. ASSUME NEW k \in DOMAIN stdin, stdin[k] = i PROVE Somewhere(i)'
            <4>1. CASE k = 1
                BY <2>1, <2>2, <3>1, <4>1 DEF Somewhere
            <4>2. CASE k # 1
                <5>1. k - 1 \in DOMAIN stdin' /\ stdin'[k - 1] = i
                    BY <2>1, <2>2, <3>1, <4>2
                <5> QED
                    BY <5>1 DEF Somewhere
            <4> QED
                BY <4>1, <4>2
        <3> QED
            BY <1>1, <2>1, <2>4, <3>1 DEF Somewhere
    <2> QED
        BY <1>3, <2>3, <2>4
<1>5. ASSUME NEW n \in PluginPart!Ids \cup {PluginPart!Note}, stdout' = Append(stdout, n), UNCHANGED <<alive, stdin>>,
             working' \subseteq working, \A i \in working : i \in working' \/ i = n
      PROVE  PluginInv'
    <2>1. /\ stdout' \in Seq(PluginPart!Ids \cup {PluginPart!Note})
          /\ Len(stdout) + 1 \in DOMAIN stdout' /\ stdout'[Len(stdout) + 1] = n
          /\ \A k \in DOMAIN stdout : k \in DOMAIN stdout' /\ stdout'[k] = stdout[k]
        BY <1>5 DEF PluginInv, PluginTyped
    <2>2. PluginTyped'
        BY <1>1, <1>2, <1>5, <2>1 DEF PluginInv, PluginTyped
    <2>3. ASSUME NEW i \in pending, Somewhere(i) PROVE Somewhere(i)'
        BY <1>1, <1>5, <2>1, <2>3 DEF Somewhere
    <2> QED
        BY <1>3, <2>2, <2>3
<1>6. CASE PluginPart!Reply
    <2>1. PICK i \in working : working' = working \ {i} /\ stdout' = Append(stdout, i)
        BY <1>6 DEF PluginPart!Reply
    <2>2. UNCHANGED <<alive, stdin>>
        BY <1>6 DEF PluginPart!Reply
    <2>3. i \in PluginPart!Ids
        BY DEF PluginInv, PluginTyped
    <2> QED
        BY <1>5, <2>1, <2>2, <2>3
<1>7. CASE PluginPart!Notifies
    BY <1>5, <1>7 DEF PluginPart!Notifies
<1>8. CASE PluginPart!Die
    <2>1. UNCHANGED <<stdin, stdout, working>>
        BY <1>8 DEF PluginPart!Die
    <2>2. PluginTyped'
        BY <1>1, <1>2, <2>1 DEF PluginInv, PluginTyped
    <2> QED
        BY <1>1, <1>3, <2>1, <2>2 DEF Somewhere
<1> QED
    BY <1>4, <1>6, <1>7, <1>8

--------------------------------------------------------------------------------
(***************************************************************************)
(* The callers.                                                            *)
(***************************************************************************)

\* What Goes does to a caller.
LEMMA CallerGoesTo ==
    ASSUME PluginInv, NEW c \in PluginPart!Caller,
           NEW where \in Under \cup {"idle", "done", "failed"}, PluginPart!Goes(c, where)
    PROVE  \E x \in PluginPlace : /\ x.at = where /\ x.id = caller[c].id
                                  /\ caller' = [caller EXCEPT ![c] = x]
<1> DEFINE x == [caller[c] EXCEPT !.at = where]
<1>1. x \in PluginPlace /\ x.at = where /\ x.id = caller[c].id
    BY DEF PluginInv, PluginTyped, PluginPlace
<1>2. caller' = [caller EXCEPT ![c] = x]
    BY DEF PluginPart!Goes
<1> HIDE DEF x
<1> QED
    BY <1>1, <1>2

\* A new call gets a number nobody has, and its entry.
LEMMA PluginCallStep ==
    ASSUME PluginAssumed, PluginInv, NEW c \in PluginPart!Caller, PluginPart!Call(c)
    PROVE  PluginInv'
<1> DEFINE n == nextID + 1
<1>1. /\ caller[c].at = "idle" /\ nextID < MaxId /\ nextID' = n /\ n \in PluginPart!Ids
      /\ UNCHANGED <<channel, alive, stdin, stdout, working, reader, mutex, host>>
      /\ c = PluginPart!Host => host \in {"initialize", "list", "shutdown"}
      /\ host # "discovered"
    BY DEF PluginPart!Call, PluginPart!At, PluginPart!MayCall, PluginPart!pipes, PluginPart!lock, PluginInv, PluginTyped, PluginPart!Ids, PluginAssumed
<1>2. PICK x \in PluginPlace : /\ caller' = [caller EXCEPT ![c] = x]
                               /\ \/ x.at = "entered" /\ x.id = n /\ pending' = pending \cup {n}
                                  \/ x.at = "failed" /\ pending' = pending
    <2>1. CASE running
        <3> DEFINE x == [at |-> "entered", id |-> n]
        <3>1. x \in PluginPlace /\ x.at = "entered" /\ x.id = n
            BY <1>1 DEF PluginPlace, Under, PluginPart!Ids
        <3>2. caller' = [caller EXCEPT ![c] = x] /\ pending' = pending \cup {n}
            BY <2>1 DEF PluginPart!Call
        <3> HIDE DEF x
        <3> QED
            BY <3>1, <3>2
    <2>2. CASE ~running
        BY <2>2, CallerGoesTo DEF PluginPart!Call
    <2> QED
        BY <2>1, <2>2
<1> HIDE DEF n
<1>3. caller'[c] = x /\ \A d \in PluginPart!Caller : d # c => caller'[d] = caller[d]
    BY <1>2 DEF PluginInv, PluginTyped
<1>4. \A d \in PluginPart!Caller : caller[d].at \in Under => caller[d].id \in 2 .. nextID /\ caller[d].id # n
    BY DEF PluginInv, PluginTyped, Numbered, n
<1>5. n \in 2 .. nextID' /\ \A i \in 2 .. nextID : i \in 2 .. nextID'
    BY <1>1 DEF PluginInv, PluginTyped, n, PluginPart!Ids
<1>6. PluginTyped'
    <2>1. n \in 1 .. MaxId
        BY <1>1 DEF PluginPart!Ids
    <2>2. pending' \subseteq PluginPart!Ids
        <3>1. pending \subseteq PluginPart!Ids
            BY DEF PluginInv, PluginTyped
        <3> QED
            BY <1>1, <1>2, <3>1
    <2> QED
        BY <1>1, <1>2, <2>1, <2>2 DEF PluginInv, PluginTyped
<1>7. Numbered' /\ Distinct'
    BY <1>2, <1>3, <1>4, <1>5 DEF PluginInv, Numbered, Distinct, Under
<1>8. Entered'
    <2>1. pending \subseteq pending' /\ (x.at = "entered" => x.id \in pending')
        BY <1>2
    <2> SUFFICES ASSUME NEW d \in PluginPart!Caller
                 PROVE  /\ alive' /\ caller'[d].at \in {"entered", "waiting"} => caller'[d].id \in pending'
                        /\ caller'[d].at = "waiting" =>
                               caller'[d].id \in pending' \/ channel'[caller'[d].id] # "empty"
        BY DEF Entered, PluginPart!At
    <2>2. CASE d = c
        BY <1>2, <1>3, <2>1, <2>2
    <2>3. CASE d # c
        BY <1>1, <1>3, <2>1, <2>3 DEF PluginInv, Entered, PluginPart!At
    <2> QED
        BY <2>2, <2>3
<1>9. HostCalls' /\ Dead'
    <2>1. PluginPart!Host \in PluginPart!Caller /\ host' = host
        BY <1>1 DEF PluginPart!Caller
    <2>2. caller'[PluginPart!Host].at # "idle" => host \in {"initialize", "list", "shutdown"}
        BY <1>1, <1>3, <2>1 DEF PluginInv, HostCalls
    <2> QED
        BY <1>1, <2>1, <2>2 DEF PluginInv, HostCalls, Dead
<1>10. PluginPart!StopLeavesNobodyWaiting' /\ PluginPart!NoAnswerLost'
    BY <1>1, <1>2, <1>3 DEF PluginInv, PluginPart!StopLeavesNobodyWaiting, PluginPart!NoAnswerLost, PluginPart!At
<1> QED
    BY <1>6, <1>7, <1>8, <1>9, <1>10 DEF PluginInv

LEMMA PluginWriteStep ==
    ASSUME PluginAssumed, PluginInv, NEW c \in PluginPart!Caller, PluginPart!Write(c)
    PROVE  PluginInv'
<1>1. /\ caller[c].at = "entered" /\ mutex' = PluginPart!Free
      /\ UNCHANGED <<nextID, pending, channel, alive, working, stdout, reader, host>>
    BY DEF PluginPart!Write, PluginPart!At
<1>2. Dead'
    BY <1>1 DEF PluginInv, Dead, PluginPart!Free
<1>3. CASE ~alive /\ stdin' = stdin /\ PluginPart!Goes(c, "leaving")
    <2>1. PICK x \in PluginPlace : /\ x.at = "leaving" /\ x.id = caller[c].id
                                   /\ caller' = [caller EXCEPT ![c] = x]
        BY <1>3, CallerGoesTo DEF Under
    <2>2. PluginTyped'
        BY <1>1, <1>3, <2>1 DEF PluginInv, PluginTyped
    <2> QED
        BY <1>1, <1>2, <1>3, <2>1, <2>2, CallerLeaves DEF Under
<1>4. CASE alive /\ stdin' = Append(stdin, caller[c].id) /\ PluginPart!Goes(c, "waiting")
    <2>1. PICK x \in PluginPlace : /\ x.at = "waiting" /\ x.id = caller[c].id
                                   /\ caller' = [caller EXCEPT ![c] = x]
        BY <1>4, CallerGoesTo DEF Under
    <2>2. caller'[c] = x /\ \A d \in PluginPart!Caller : d # c => caller'[d] = caller[d]
        BY <2>1 DEF PluginInv, PluginTyped
    <2>3. caller[c].id \in PluginPart!Ids
        BY <1>1, NumberGiven DEF Under
    <2>4. /\ stdin' \in Seq(PluginPart!Ids)
          /\ Len(stdin) + 1 \in DOMAIN stdin' /\ stdin'[Len(stdin) + 1] = caller[c].id
          /\ \A k \in DOMAIN stdin : k \in DOMAIN stdin' /\ stdin'[k] = stdin[k]
        BY <1>4, <2>3 DEF PluginInv, PluginTyped
    <2>5. PluginTyped'
        BY <1>1, <2>1, <2>4 DEF PluginInv, PluginTyped
    <2>6. Numbered' /\ Distinct'
        BY <1>1, <2>1, <2>2 DEF PluginInv, Numbered, Distinct, Under
    <2>7. Entered'
        <3> SUFFICES ASSUME NEW d \in PluginPart!Caller
                     PROVE  /\ alive' /\ caller'[d].at \in {"entered", "waiting"} => caller'[d].id \in pending'
                            /\ caller'[d].at = "waiting" =>
                                   caller'[d].id \in pending' \/ channel'[caller'[d].id] # "empty"
            BY DEF Entered, PluginPart!At
        <3>1. CASE d = c
            <4>1. caller[c].id \in pending
                BY <1>1, <1>4 DEF PluginInv, Entered
            <4> QED
                BY <1>1, <2>1, <2>2, <3>1, <4>1
        <3>2. CASE d # c
            BY <1>1, <2>2, <3>2 DEF PluginInv, Entered, PluginPart!At
        <3> QED
            BY <3>1, <3>2
    <2>8. HostCalls'
        <3>1. PluginPart!Host \in PluginPart!Caller /\ host' = host /\ host # "discovered"
            BY <1>1 DEF PluginInv, HostCalls, PluginPart!At, PluginPart!Caller
        <3>2. caller'[PluginPart!Host].at # "idle" => caller[PluginPart!Host].at # "idle"
            BY <1>1, <2>2, <3>1
        <3> QED
            BY <3>1, <3>2 DEF PluginInv, HostCalls
    <2>9. host # "stopped"
        BY <1>4 DEF PluginInv, Dead
    <2>10. PluginPart!StopLeavesNobodyWaiting'
        BY <1>1, <2>9 DEF PluginPart!StopLeavesNobodyWaiting
    <2>11. PluginPart!NoAnswerLost'
        <3> SUFFICES ASSUME NEW d \in PluginPart!Caller, caller'[d].at = "waiting",
                            NEW i, i = caller'[d].id
                     PROVE  \/ i \in working'
                            \/ \E k \in DOMAIN stdin' : stdin'[k] = i
                            \/ \E k \in DOMAIN stdout' : stdout'[k] = i
                            \/ reader' = [at |-> "sending", id |-> i]
                            \/ channel'[i] # "empty"
            BY DEF PluginPart!NoAnswerLost, PluginPart!At
        <3>1. CASE d = c
            BY <3>1, <2>1, <2>2, <2>4
        <3>2. CASE d # c
            <4>1. Somewhere(i)
                BY <1>4, <2>2, <3>2 DEF PluginInv, PluginPart!NoAnswerLost, PluginPart!At, Somewhere
            <4> QED
                BY <1>1, <2>4, <4>1 DEF Somewhere
        <3> QED
            BY <3>1, <3>2
    <2> QED
        BY <1>2, <2>5, <2>6, <2>7, <2>8, <2>10, <2>11 DEF PluginInv
<1> QED
    BY <1>3, <1>4 DEF PluginPart!Write

LEMMA CallerStep ==
    ASSUME PluginAssumed, PluginInv, NEW c \in PluginPart!Caller,
           \/ PluginPart!Call(c) \/ PluginPart!TakeToWrite(c) \/ PluginPart!Write(c) \/ PluginPart!Answered(c)
           \/ PluginPart!Expire(c) \/ PluginPart!Leave(c) \/ PluginPart!Return(c)
    PROVE  PluginInv'
<1>1. CASE PluginPart!Call(c)
    BY <1>1, PluginCallStep
<1>2. CASE PluginPart!TakeToWrite(c)
    <2>1. UNCHANGED <<running, PluginPart!calls, PluginPart!pipes, reader, host>> /\ mutex' = c
        BY <1>2 DEF PluginPart!TakeToWrite
    <2>2. PluginTyped' /\ Dead'
        BY <2>1 DEF PluginInv, PluginTyped, Dead, PluginPart!calls, PluginPart!pipes, PluginAssumed
    <2> QED
        BY <2>1, <2>2, CallersStay DEF PluginPart!calls, PluginPart!pipes, Somewhere
<1>3. CASE PluginPart!Write(c)
    BY <1>3, PluginWriteStep
<1>4. CASE PluginPart!Answered(c)
    <2>1. /\ caller[c].at = "waiting" /\ channel' = [channel EXCEPT ![caller[c].id] = "empty"]
          /\ UNCHANGED <<PluginPart!lock, nextID, pending, PluginPart!pipes, reader, host>>
        BY <1>4 DEF PluginPart!Answered, PluginPart!At
    <2>2. PICK x \in PluginPlace : /\ x.at \in {"answered", "leaving"} /\ x.id = caller[c].id
                                   /\ caller' = [caller EXCEPT ![c] = x]
        BY <1>4, CallerGoesTo DEF PluginPart!Answered, Under
    <2>3. \A i \in PluginPart!Ids : i # caller[c].id => channel'[i] = channel[i]
        BY <2>1 DEF PluginInv, PluginTyped
    <2>4. PluginTyped' /\ Dead'
        BY <2>1, <2>2 DEF PluginInv, PluginTyped, Dead, PluginPart!lock, PluginPart!pipes
    <2> QED
        BY <2>1, <2>2, <2>3, <2>4, CallerLeaves DEF PluginPart!pipes, Under
<1>5. CASE PluginPart!Expire(c)
    <2>1. /\ caller[c].at = "waiting"
          /\ UNCHANGED <<PluginPart!lock, nextID, pending, channel, PluginPart!pipes, reader, host>>
        BY <1>5 DEF PluginPart!Expire, PluginPart!At
    <2>2. PICK x \in PluginPlace : /\ x.at = "leaving" /\ x.id = caller[c].id
                                   /\ caller' = [caller EXCEPT ![c] = x]
        BY <1>5, CallerGoesTo DEF PluginPart!Expire, Under
    <2>3. PluginTyped' /\ Dead'
        BY <2>1, <2>2 DEF PluginInv, PluginTyped, Dead, PluginPart!lock, PluginPart!pipes
    <2> QED
        BY <2>1, <2>2, <2>3, CallerLeaves DEF PluginPart!pipes, Under
<1>6. CASE PluginPart!Leave(c)
    <2>1. /\ caller[c].at \in {"answered", "leaving"} /\ pending' = pending \ {caller[c].id}
          /\ UNCHANGED <<PluginPart!lock, nextID, channel, PluginPart!pipes, reader, host>>
        BY <1>6 DEF PluginPart!Leave
    <2>2. PICK x \in PluginPlace : /\ x.at \in {"done", "failed"} /\ x.id = caller[c].id
                                   /\ caller' = [caller EXCEPT ![c] = x]
        BY <1>6, CallerGoesTo DEF PluginPart!Leave
    <2>3. PluginTyped' /\ Dead'
        BY <2>1, <2>2 DEF PluginInv, PluginTyped, Dead, PluginPart!lock, PluginPart!pipes
    <2> QED
        BY <2>1, <2>2, <2>3, CallerLeaves DEF PluginPart!pipes, Under
<1>7. CASE PluginPart!Return(c)
    <2>1. /\ caller[c].at \in {"done", "failed"}
          /\ UNCHANGED <<PluginPart!lock, nextID, pending, channel, PluginPart!pipes, reader, host>>
        BY <1>7 DEF PluginPart!Return
    <2>2. PICK x \in PluginPlace : /\ x.at = "idle" /\ x.id = caller[c].id
                                   /\ caller' = [caller EXCEPT ![c] = x]
        BY <1>7, CallerGoesTo DEF PluginPart!Return
    <2>3. PluginTyped' /\ Dead'
        BY <2>1, <2>2 DEF PluginInv, PluginTyped, Dead, PluginPart!lock, PluginPart!pipes
    <2> QED
        BY <2>1, <2>2, <2>3, CallerLeaves DEF PluginPart!pipes, Under
<1> QED
    BY <1>1, <1>2, <1>3, <1>4, <1>5, <1>6, <1>7

\* The gateway's own call is over, and StartAll or Stop goes on.
LEMMA AdvanceStep == ASSUME PluginAssumed, PluginInv, PluginPart!Advance PROVE PluginInv'
<1>1. /\ caller[PluginPart!Host].at \in {"done", "failed"} /\ PluginPart!Host \in PluginPart!Caller
      /\ UNCHANGED <<PluginPart!lock, nextID, pending, channel, PluginPart!pipes, reader>>
    BY DEF PluginPart!Advance, PluginPart!Caller
<1>2. host \in {"initialize", "list", "shutdown"}
    BY <1>1 DEF PluginInv, HostCalls
<1>3. host' \in {"adopt", "shutdown", "done", "up", "close"}
    BY <1>1, <1>2 DEF PluginPart!Advance, PluginPart!At
<1>4. PICK x \in PluginPlace : /\ x.at = "idle" /\ x.id = caller[PluginPart!Host].id
                               /\ caller' = [caller EXCEPT ![PluginPart!Host] = x]
    BY <1>1, CallerGoesTo DEF PluginPart!Advance
<1>5. PluginTyped' /\ Dead'
    BY <1>1, <1>2, <1>3, <1>4 DEF PluginInv, PluginTyped, Dead, PluginPart!lock, PluginPart!pipes
<1> QED
    BY <1>1, <1>3, <1>4, <1>5, CallerLeaves DEF PluginPart!pipes, Under

--------------------------------------------------------------------------------
LEMMA PluginKept == ASSUME PluginAssumed PROVE PluginInv /\ [PluginPart!Next]_(PluginPart!vars) => PluginInv'
<1> SUFFICES ASSUME PluginInv, [PluginPart!Next]_(PluginPart!vars) PROVE PluginInv'
    OBVIOUS
<1>1. CASE UNCHANGED PluginPart!vars
    <2>1. UNCHANGED <<PluginPart!lock, PluginPart!calls, PluginPart!pipes, reader, host>>
        BY <1>1 DEF PluginPart!vars
    <2>2. PluginTyped' /\ Dead'
        BY <2>1 DEF PluginInv, PluginTyped, Dead, PluginPart!lock, PluginPart!calls, PluginPart!pipes
    <2> QED
        BY <2>1, <2>2, CallersStay DEF PluginPart!lock, PluginPart!calls, PluginPart!pipes, Somewhere
<1> QED
    BY <1>1, StartStep, GatewayStep, PluginSweepStep, PluginReadStep, PluginStep, CallerStep, AdvanceStep
       DEF PluginPart!Next

\* While the plugin lives, the answer a caller waits for is in a pipe, in the plugin,
\* with readLoop or on the caller's channel; once Stop has gone through, whoever still
\* waits, with or without a deadline, has something to read.
THEOREM PluginCallsAlwaysEnd ==
    ASSUME PluginAssumed
    PROVE  PluginSpec => []PluginPart!PluginCallsEnd
<1>1. PluginSpec => []PluginInv
    BY PluginInit, PluginKept, PTL DEF PluginSpec
<1>2. PluginInv => PluginPart!PluginCallsEnd
    BY DEF PluginInv, PluginPart!PluginCallsEnd
<1> QED
    BY <1>1, <1>2, PTL

--------------------------------------------------------------------------------
(****************************************************************************)
(* The tools of MCP servers.                                                *)
(****************************************************************************)
Named == {<<Prefix[s], t>> : s \in Servers, t \in ServerTools}
Line == [id : Nat, method : {"none", "own", "note", "initialize", "list", "call"},
         by : Tasks \cup {MCPPart!Nobody, MCPPart!Booting}, tool : ServerTools \cup {MCPPart!Nobody}]
Calling == [at : {"idle", "waits", "done", "failed"}, on : Servers \cup {MCPPart!Nobody},
            tool : Named \cup {MCPPart!Nobody}, id : Nat, got : Line]

MCPTyped ==
    /\ MCPPart!TypeOK
    /\ requests \in [Servers -> Seq(Line)] /\ lines \in [Servers -> Seq(Line)]
    /\ boot.at \in {"next", "connect", "list"} /\ (boot.at # "next" => boot.on \in Servers)
    /\ \A n \in DOMAIN route : n \in Named /\ route[n] \in Servers /\ Prefix[route[n]] = n[1]
    /\ call \in [Tasks -> Calling]

\* An answer's id was given out, and who waits for that id asked for this answer.
Fits(s, line) ==
    MCPPart!HasResult(line) =>
        /\ line.id < wantsId[s]
        /\ \A t \in Tasks : call[t].at = "waits" /\ call[t].on = s /\ call[t].id = line.id =>
               line.by = t /\ line.tool = call[t].tool[2]

FitAll(s, q) == \A i \in 1 .. Len(q) : Fits(s, q[i])

Answering == \A s \in Servers : FitAll(s, requests[s]) /\ FitAll(s, lines[s])

\* Nothing is called before all servers are there, and who waits has the mutex.
Waiting ==
    \A t \in Tasks : call[t].at = "waits" =>
        /\ MCPPart!Unstarted = {} /\ boot.at = "next"
        /\ call[t].on \in Servers /\ call[t].id < wantsId[call[t].on]
        /\ call[t].tool \in Named /\ Prefix[call[t].on] = call[t].tool[1]
        /\ lock[call[t].on] = t

MCPInv == MCPTyped /\ Answering /\ Waiting /\ MCPPart!AnswersMatched

LEMMA MCPInit == ASSUME MCPAssumed PROVE MCPPart!Init => MCPInv
<1> SUFFICES ASSUME MCPPart!Init PROVE MCPInv
    OBVIOUS
<1>1. MCPTyped
    <2>1. MCPPart!TypeOK
        BY DEF MCPPart!Init, MCPPart!TypeOK, MCPAssumed
    <2>2. requests \in [Servers -> Seq(Line)] /\ lines \in [Servers -> Seq(Line)]
        BY DEF MCPPart!Init
    <2>3. \A n \in DOMAIN route : FALSE
        BY DEF MCPPart!Init
    <2>4. MCPPart!NoLine \in Line
        BY DEF MCPPart!NoLine, Line
    <2>5. call \in [Tasks -> Calling]
        BY <2>4 DEF MCPPart!Init, Calling
    <2> QED
        BY <2>1, <2>2, <2>3, <2>5 DEF MCPPart!Init, MCPTyped
<1>2. Answering
    BY DEF MCPPart!Init, Answering, FitAll
<1>3. Waiting /\ MCPPart!AnswersMatched
    BY DEF MCPPart!Init, Waiting, MCPPart!AnswersMatched
<1> QED
    BY <1>1, <1>2, <1>3 DEF MCPInv

\* Lines are taken from the front.
LEMMA FitsTaken ==
    ASSUME NEW s, NEW q \in Seq(Line), q # <<>>, FitAll(s, q)
    PROVE  /\ Tail(q) \in Seq(Line) /\ Head(q) \in Line /\ Fits(s, Head(q))
           /\ FitAll(s, Tail(q))
<1>1. Tail(q) \in Seq(Line) /\ Len(Tail(q)) = Len(q) - 1 /\ Head(q) = q[1] /\ Len(q) \in Nat /\ 1 \in 1 .. Len(q)
    OBVIOUS
<1>2. \A i \in 1 .. Len(Tail(q)) : i + 1 \in 1 .. Len(q) /\ Tail(q)[i] = q[i + 1]
    BY <1>1
<1>3. q[1] \in Line
    BY <1>1
<1> QED
    BY <1>1, <1>2, <1>3 DEF FitAll

LEMMA FitsAdded ==
    ASSUME NEW s, NEW q \in Seq(Line), NEW line \in Line, Fits(s, line), FitAll(s, q)
    PROVE  /\ Append(q, line) \in Seq(Line)
           /\ FitAll(s, Append(q, line))
<1>1. Len(Append(q, line)) = Len(q) + 1 /\ Len(q) \in Nat
    OBVIOUS
<1>2. \A i \in 1 .. Len(q) + 1 : \/ i \in 1 .. Len(q) /\ Append(q, line)[i] = q[i]
                                 \/ Append(q, line)[i] = line
    BY <1>1
<1> QED
    BY <1>1, <1>2 DEF FitAll

\* A step in which nobody begins to wait, no id is given out, and requests and lines are
\* taken or fit.
LEMMA Kept ==
    ASSUME MCPAssumed, MCPInv,
           call' \in [Tasks -> Calling],
           \A t \in Tasks : call[t].at = "done" \/ call'[t].at = "waits" => call'[t] = call[t],
           \A t \in Tasks : call'[t].at = "done" /\ call[t].at # "done" =>
               /\ call'[t].got.by = t /\ call'[t].got.tool = call'[t].tool[2]
               /\ Prefix[call'[t].on] = call'[t].tool[1],
           UNCHANGED wantsId
    PROVE  /\ \A s, line : Fits(s, line) => Fits(s, line)'
           /\ MCPPart!AnswersMatched'
<1>1. ASSUME NEW s, NEW line, Fits(s, line) PROVE Fits(s, line)'
    BY <1>1 DEF Fits, MCPPart!HasResult
<1>2. MCPPart!AnswersMatched'
    BY DEF MCPInv, MCPPart!AnswersMatched
<1> QED
    BY <1>1, <1>2

LEMMA ServerStep ==
    ASSUME MCPAssumed, MCPInv, NEW s \in Servers, MCPPart!Serves(s) \/ MCPPart!Speaks(s) \/ MCPPart!Dies(s)
    PROVE  MCPInv'
<1>1. /\ UNCHANGED <<wantsId, lock, boot, kept, route, call>>
      /\ process' \in [Servers -> {"unstarted", "up", "dead"}]
      /\ \A x \in Servers : process'[x] = "unstarted" <=> process[x] = "unstarted"
    BY DEF MCPInv, MCPTyped, MCPPart!TypeOK, MCPPart!Serves, MCPPart!Speaks, MCPPart!Dies
<1>2. requests \in [Servers -> Seq(Line)] /\ lines \in [Servers -> Seq(Line)]
    BY DEF MCPInv, MCPTyped
<1>3. /\ \A x \in Servers : requests[x] \in Seq(Line) /\ FitAll(x, requests[x])
      /\ \A x \in Servers : lines[x] \in Seq(Line) /\ FitAll(x, lines[x])
    BY <1>2 DEF MCPInv, Answering
<1>4. /\ requests' \in [Servers -> Seq(Line)] /\ lines' \in [Servers -> Seq(Line)]
      /\ \A x \in Servers : FitAll(x, requests'[x])
      /\ \A x \in Servers : FitAll(x, lines'[x])
    <2>1. CASE MCPPart!Serves(s)
        <3>1. /\ requests[s] # <<>> /\ requests' = [requests EXCEPT ![s] = Tail(@)]
              /\ lines' = [lines EXCEPT ![s] = Append(@, Head(requests[s]))]
            BY <2>1 DEF MCPPart!Serves
        <3>2. /\ Tail(requests[s]) \in Seq(Line) /\ Head(requests[s]) \in Line /\ Fits(s, Head(requests[s]))
              /\ FitAll(s, Tail(requests[s]))
            BY <1>3, <3>1, FitsTaken
        <3> DEFINE added == Append(lines[s], Head(requests[s]))
        <3>3. added \in Seq(Line) /\ FitAll(s, added)
            BY <1>3, <3>2, FitsAdded
        <3>4. requests' = [requests EXCEPT ![s] = Tail(requests[s])] /\ lines' = [lines EXCEPT ![s] = added]
            BY <3>1
        <3> HIDE DEF added
        <3> QED
            BY <1>2, <1>3, <3>2, <3>3, <3>4
    <2>2. CASE MCPPart!Speaks(s)
        <3>1. /\ \A i \in 1 .. MaxRequests : /\ [MCPPart!NoLine EXCEPT !.id = i, !.method = "own"] \in Line
                                             /\ ~MCPPart!HasResult([MCPPart!NoLine EXCEPT !.id = i, !.method = "own"])
              /\ [MCPPart!NoLine EXCEPT !.method = "note"] \in Line /\ ~MCPPart!HasResult([MCPPart!NoLine EXCEPT !.method = "note"])
            <4>1. ASSUME NEW i \in 1 .. MaxRequests, NEW line, line = [MCPPart!NoLine EXCEPT !.id = i, !.method = "own"]
                  PROVE  line \in Line /\ ~MCPPart!HasResult(line)
                <5>1. i \in Nat
                    BY DEF MCPAssumed
                <5>2. line = [id |-> i, method |-> "own", by |-> MCPPart!Nobody, tool |-> MCPPart!Nobody]
                    BY <4>1 DEF MCPPart!NoLine
                <5> QED
                    BY <5>1, <5>2 DEF Line, MCPPart!HasResult
            <4>2. ASSUME NEW line, line = [MCPPart!NoLine EXCEPT !.method = "note"]
                  PROVE  line \in Line /\ ~MCPPart!HasResult(line)
                <5>1. line = [id |-> 0, method |-> "note", by |-> MCPPart!Nobody, tool |-> MCPPart!Nobody]
                    BY <4>2 DEF MCPPart!NoLine
                <5> QED
                    BY <5>1 DEF Line, MCPPart!HasResult
            <4> QED
                BY <4>1, <4>2
        <3>2. PICK line : line \in Line /\ ~MCPPart!HasResult(line) /\ lines' = [lines EXCEPT ![s] = Append(@, line)]
            BY <2>2, <3>1 DEF MCPPart!Speaks
        <3> DEFINE added == Append(lines[s], line)
        <3>3. added \in Seq(Line) /\ FitAll(s, added)
            <4>1. Fits(s, line)
                BY <3>2 DEF Fits
            <4> QED
                BY <1>3, <3>2, <4>1, FitsAdded
        <3>4. UNCHANGED requests /\ lines' = [lines EXCEPT ![s] = added]
            BY <2>2, <3>2 DEF MCPPart!Speaks
        <3> HIDE DEF added
        <3> QED
            BY <1>2, <1>3, <3>3, <3>4
    <2>3. CASE MCPPart!Dies(s)
        <3>1. requests' = [requests EXCEPT ![s] = <<>>] /\ UNCHANGED lines
            BY <2>3 DEF MCPPart!Dies
        <3> QED
            <4>1. FitAll(s, <<>>) /\ <<>> \in Seq(Line)
                BY DEF FitAll
            <4> QED
                BY <1>2, <1>3, <3>1, <4>1
    <2> QED
        BY <2>1, <2>2, <2>3
<1>5. \A x, line : Fits(x, line) => Fits(x, line)'
    BY <1>1 DEF Fits, MCPPart!HasResult
<1>6. MCPTyped'
    BY <1>1, <1>4 DEF MCPInv, MCPTyped, MCPPart!TypeOK
<1>7. Answering'
    BY <1>4, <1>5 DEF Answering, FitAll
<1>8. Waiting'
    BY <1>1 DEF MCPInv, Waiting, MCPPart!Unstarted
<1>9. MCPPart!AnswersMatched'
    BY <1>1 DEF MCPInv, MCPPart!AnswersMatched
<1> QED
    BY <1>6, <1>7, <1>8, <1>9 DEF MCPInv

\* A call reads: its answer, a line it passes over, or the end.
LEMMA ReadingStep ==
    ASSUME MCPAssumed, MCPInv, NEW t \in Tasks, MCPPart!Returns(t) \/ MCPPart!PassesOver(t) \/ MCPPart!Fails(t)
    PROVE  MCPInv'
<1> DEFINE s == call[t].on
<1>1. /\ call[t].at = "waits" /\ s \in Servers /\ lock[s] = t /\ Prefix[s] = call[t].tool[1]
      /\ UNCHANGED <<process, wantsId, requests, own, boot, kept, route>>
    BY DEF MCPPart!Returns, MCPPart!PassesOver, MCPPart!Fails, MCPInv, Waiting
<1>2. /\ requests \in [Servers -> Seq(Line)] /\ lines \in [Servers -> Seq(Line)]
      /\ call \in [Tasks -> Calling] /\ lock \in [Servers -> Tasks \cup {MCPPart!Nobody, MCPPart!Booting}]
      /\ lines[s] \in Seq(Line) /\ FitAll(s, lines[s])
    BY <1>1 DEF MCPInv, MCPTyped, MCPPart!TypeOK, Answering
<1>3. lines[s] # <<>> =>
        /\ Tail(lines[s]) \in Seq(Line) /\ Head(lines[s]) \in Line /\ Fits(s, Head(lines[s]))
        /\ FitAll(s, Tail(lines[s]))
    BY <1>2, FitsTaken
<1> HIDE DEF s
<1>4. /\ lines' \in [Servers -> Seq(Line)]
      /\ \A x \in Servers : FitAll(x, lines'[x])
    <2>1. \A x \in Servers : FitAll(x, lines[x])
        BY DEF MCPInv, Answering
    <2>2. CASE UNCHANGED lines
        BY <2>1, <2>2, <1>2
    <2>3. CASE lines[s] # <<>> /\ lines' = [lines EXCEPT ![s] = Tail(lines[s])]
        BY <2>1, <2>3, <1>1, <1>2, <1>3
    <2> QED
        BY <2>2, <2>3 DEF MCPPart!Returns, MCPPart!PassesOver, MCPPart!Fails, MCPPart!TakesLine, MCPPart!Found, MCPPart!Other, s
<1>5. /\ call' \in [Tasks -> Calling] /\ \A x \in Tasks \ {t} : call'[x] = call[x]
      /\ \/ UNCHANGED <<call, lock>>
         \/ /\ lock' = [lock EXCEPT ![s] = MCPPart!Nobody] /\ call'[t].at \in {"done", "failed"}
            /\ call'[t].at = "done" => /\ call'[t].got.by = t /\ call'[t].got.tool = call'[t].tool[2]
                                       /\ Prefix[call'[t].on] = call'[t].tool[1]
    <2>0. call[t] \in Calling
        BY <1>2
    <2>1. CASE MCPPart!PassesOver(t)
        BY <2>1, <1>2 DEF MCPPart!PassesOver
    <2>2. CASE MCPPart!Fails(t)
        <3>1. call' = [call EXCEPT ![t].at = "failed"] /\ lock' = [lock EXCEPT ![s] = MCPPart!Nobody]
            BY <2>2 DEF MCPPart!Fails, MCPPart!Unlocks, s
        <3>2. [call[t] EXCEPT !.at = "failed"] \in Calling
            BY <2>0 DEF Calling
        <3> QED
            BY <1>2, <2>0, <3>1, <3>2 DEF Calling
    <2>3. CASE MCPPart!Returns(t)
        <3> DEFINE head == Head(lines[s])
                   end == IF MCPPart!HasResult(head) THEN "done" ELSE "failed"
        <3>1. /\ call' = [call EXCEPT ![t].at = end, ![t].got = head]
              /\ lock' = [lock EXCEPT ![s] = MCPPart!Nobody] /\ lines[s] # <<>> /\ head.id = call[t].id
            BY <2>3 DEF MCPPart!Returns, MCPPart!Unlocks, MCPPart!Found, MCPPart!Matches, s
        <3>2. head \in Line /\ Fits(s, head) /\ end \in {"done", "failed"}
            BY <1>3, <3>1
        <3>3. MCPPart!HasResult(head) => head.by = t /\ head.tool = call[t].tool[2]
            BY <3>1, <3>2, <1>1 DEF Fits, s
        <3> HIDE DEF head
        <3>4. end = "done" => MCPPart!HasResult(head)
            OBVIOUS
        <3> HIDE DEF end
        <3>5. /\ call' \in [Tasks -> Calling] /\ \A x \in Tasks \ {t} : call'[x] = call[x]
              /\ call'[t].at = end /\ call'[t].got = head /\ call'[t].tool = call[t].tool /\ call'[t].on = s
            <4>1. [[call[t] EXCEPT !.at = end] EXCEPT !.got = head] \in Calling
                BY <2>0, <3>2 DEF Calling
            <4> QED
                BY <1>2, <2>0, <3>1, <4>1 DEF Calling, s
        <3> QED
            BY <1>1, <3>1, <3>2, <3>3, <3>4, <3>5
    <2> QED
        BY <2>1, <2>2, <2>3
<1>6. /\ \A x, line : Fits(x, line) => Fits(x, line)'
      /\ MCPPart!AnswersMatched'
    <2>1. \A x \in Tasks : call[x].at = "done" \/ call'[x].at = "waits" => call'[x] = call[x]
        BY <1>1, <1>5
    <2>2. \A x \in Tasks : call'[x].at = "done" /\ call[x].at # "done" =>
               /\ call'[x].got.by = x /\ call'[x].got.tool = call'[x].tool[2]
               /\ Prefix[call'[x].on] = call'[x].tool[1]
        BY <1>5
    <2> QED
        BY <1>1, <1>5, <2>1, <2>2, Kept
<1>7. MCPTyped'
    <2>1. lock' \in [Servers -> Tasks \cup {MCPPart!Nobody, MCPPart!Booting}]
        BY <1>2, <1>5
    <2> QED
        BY <1>1, <1>4, <1>5, <2>1 DEF MCPInv, MCPTyped, MCPPart!TypeOK
<1>8. Answering'
    <2>1. \A x \in Servers : FitAll(x, requests[x])
        BY DEF MCPInv, Answering
    <2> QED
        BY <1>1, <1>4, <1>6, <2>1 DEF Answering, FitAll
<1>9. Waiting'
    <2>1. ASSUME NEW x \in Tasks, call'[x].at = "waits"
          PROVE  call'[x] = call[x] /\ lock'[call[x].on] = lock[call[x].on]
        <3>1. CASE UNCHANGED <<call, lock>>
            BY <3>1
        <3>2. CASE lock' = [lock EXCEPT ![s] = MCPPart!Nobody] /\ call'[t].at \in {"done", "failed"}
            <4>1. x # t /\ call'[x] = call[x]
                BY <3>2, <2>1, <1>5
            <4>2. lock[call[x].on] = x /\ call[x].on \in Servers
                BY <4>1, <2>1 DEF MCPInv, Waiting
            <4> QED
                BY <4>1, <4>2, <3>2, <1>1, <1>2
        <3> QED
            BY <3>1, <3>2, <1>5
    <2> QED
        BY <1>1, <2>1 DEF MCPInv, Waiting, MCPPart!Unstarted
<1> QED
    BY <1>6, <1>7, <1>8, <1>9 DEF MCPInv

\* The calls that wait after a request is sent waited before it, or wait for that request.
WaitsSent(s, who, tool) ==
    \A t \in Tasks : call'[t].at = "waits" =>
        \/ call'[t] = call[t]
        \/ call'[t].on = s /\ call'[t].id = wantsId[s] /\ who = t /\ tool = call'[t].tool[2]

\* What fitted still fits once a request is sent, and only the server asked has moved on.
SentWell(s, who) ==
    /\ \A x \in Servers, line \in Line : Fits(x, line) => Fits(x, line)'
    /\ requests' \in [Servers -> Seq(Line)]
    /\ \A x \in Servers : FitAll(x, requests[x])'
    /\ wantsId' \in [Servers -> 1 .. MaxRequests + 1]
    /\ lock' \in [Servers -> Tasks \cup {MCPPart!Nobody, MCPPart!Booting}]
    /\ wantsId'[s] = wantsId[s] + 1 /\ lock'[s] = who /\ wantsId[s] \in Nat
    /\ \A x \in Servers \ {s} : wantsId'[x] = wantsId[x] /\ lock'[x] = lock[x]

\* A request with a new id is sent, by a call that begins to wait for it or by the constructor.
LEMMA SentFits ==
    ASSUME MCPAssumed, MCPInv, NEW s \in Servers, NEW method \in {"initialize", "list", "call"},
           NEW who \in Tasks \cup {MCPPart!Booting}, NEW tool \in ServerTools \cup {MCPPart!Nobody},
           MCPPart!Sends(s, method, who, tool),
           WaitsSent(s, who, tool)
    PROVE  SentWell(s, who)
<1> DEFINE r == MCPPart!Request(s, method, who, tool)
<1>1. /\ wantsId \in [Servers -> 1 .. MaxRequests + 1] /\ lock \in [Servers -> Tasks \cup {MCPPart!Nobody, MCPPart!Booting}]
      /\ requests \in [Servers -> Seq(Line)] /\ wantsId[s] \in Nat /\ MaxRequests \in Nat
      /\ \A x \in Servers : wantsId[x] \in Nat
    BY DEF MCPInv, MCPTyped, MCPPart!TypeOK, MCPAssumed
<1>2. /\ wantsId' \in [Servers -> 1 .. MaxRequests + 1]
      /\ lock' \in [Servers -> Tasks \cup {MCPPart!Nobody, MCPPart!Booting}]
      /\ wantsId'[s] = wantsId[s] + 1 /\ lock'[s] = who
      /\ \A x \in Servers \ {s} : wantsId'[x] = wantsId[x] /\ lock'[x] = lock[x]
    BY <1>1 DEF MCPPart!Sends
<1>3. ASSUME NEW x \in Servers, NEW line \in Line, Fits(x, line) PROVE Fits(x, line)'
    <2> SUFFICES ASSUME MCPPart!HasResult(line) PROVE Fits(x, line)'
        BY DEF Fits, MCPPart!HasResult
    <2>1. line.id < wantsId[x] /\ wantsId[x] \in Nat /\ line.id \in Nat
        BY <1>1, <1>3 DEF Fits, Line
    <2>2. CASE x = s
        <3>1. line.id < wantsId'[x] /\ line.id # wantsId[s]
            BY <1>1, <1>2, <2>1, <2>2
        <3> QED
            BY <1>3, <3>1, <2>2 DEF Fits, WaitsSent
    <2>3. CASE x # s
        BY <1>2, <1>3, <2>3 DEF Fits, WaitsSent
    <2> QED
        BY <2>2, <2>3
<1>4. r \in Line /\ \A line : line = r => Fits(s, line)'
    <2>1. r \in Line
        BY <1>1 DEF MCPPart!Request, Line
    <2>2. r.id = wantsId[s] /\ r.by = who /\ r.tool = tool
        BY DEF MCPPart!Request
    <2>3. ASSUME NEW t \in Tasks, call'[t].at = "waits", call'[t].on = s, call'[t].id = wantsId[s]
          PROVE  who = t /\ tool = call'[t].tool[2]
        <3>1. CASE call'[t] = call[t]
            <4>1. call[t].id < wantsId[s]
                BY <2>3, <3>1 DEF MCPInv, Waiting
            <4> QED
                BY <4>1, <2>3, <3>1, <1>1
        <3> QED
            BY <2>3, <3>1 DEF WaitsSent
    <2>4. r.id < wantsId'[s]
        BY <2>2, <1>1, <1>2
    <2> HIDE DEF r
    <2> QED
        BY <2>1, <2>2, <2>3, <2>4 DEF Fits
<1>5. /\ requests' \in [Servers -> Seq(Line)]
      /\ \A x \in Servers : FitAll(x, requests[x])'
    <2>1. ASSUME NEW x \in Servers, NEW q, q = requests[x]
          PROVE  q \in Seq(Line) /\ FitAll(x, q)'
        <3>1. q \in Seq(Line) /\ FitAll(x, q)
            BY <1>1, <2>1 DEF MCPInv, Answering
        <3>2. \A i \in 1 .. Len(q) : q[i] \in Line
            BY <3>1
        <3> QED
            BY <3>1, <3>2, <1>3 DEF FitAll
    <2>2. CASE UNCHANGED requests
        BY <1>1, <2>1, <2>2 DEF FitAll
    <2>3. CASE requests' = [requests EXCEPT ![s] = Append(requests[s], r)]
        <3>1. ASSUME NEW q, q = requests[s], NEW line, line = r, NEW longer, longer = Append(q, line)
              PROVE  longer \in Seq(Line) /\ FitAll(s, longer)'
            <4>1. q \in Seq(Line) /\ line \in Line /\ FitAll(s, q)' /\ Fits(s, line)'
                BY <2>1, <3>1, <1>4
            <4>2. longer \in Seq(Line) /\ Len(longer) = Len(q) + 1 /\ Len(q) \in Nat
                BY <3>1, <4>1
            <4>3. \A i \in 1 .. Len(longer) : (i \in 1 .. Len(q) /\ longer[i] = q[i]) \/ longer[i] = line
                BY <3>1, <4>1, <4>2
            <4> QED
                BY <4>1, <4>2, <4>3 DEF FitAll
        <3>2. requests'[s] \in Seq(Line) /\ FitAll(s, requests[s])'
            BY <2>3, <3>1, <1>1 DEF FitAll
        <3>3. \A x \in Servers \ {s} : requests'[x] = requests[x] /\ FitAll(x, requests[x])'
            BY <2>1, <2>3, <1>1 DEF FitAll
        <3> QED
            BY <2>3, <3>2, <3>3, <1>1
    <2> QED
        BY <2>2, <2>3 DEF MCPPart!Sends
<1> QED
    BY <1>1, <1>2, <1>3, <1>5 DEF SentWell

\* What a request being sent does to the invariant, whoever sends it.
LEMMA SentKeeps ==
    ASSUME MCPAssumed, MCPInv, NEW s \in Servers, NEW method \in {"initialize", "list", "call"},
           NEW who \in Tasks \cup {MCPPart!Booting}, NEW tool \in ServerTools \cup {MCPPart!Nobody},
           MCPPart!Sends(s, method, who, tool), lock[s] = MCPPart!Nobody \/ \A t \in Tasks : call[t].at # "waits",
           call' \in [Tasks -> Calling],
           \A t \in Tasks : \/ call'[t] = call[t]
                            \/ /\ call'[t].at = "waits" /\ call'[t].on = s /\ call'[t].id = wantsId[s]
                               /\ who = t /\ tool = call'[t].tool[2] /\ call[t].at # "done"
                               /\ call'[t].tool \in Named /\ Prefix[s] = call'[t].tool[1],
           lines' = lines \/ (lines' = [lines EXCEPT ![s] = Tail(@)] /\ lines[s] # <<>>),
           process' = process \/ process' = [process EXCEPT ![s] = "up"],
           UNCHANGED <<own, kept, route>>,
           boot'.at \in {"next", "connect", "list"}, boot'.at # "next" => boot'.on \in Servers,
           (\E t \in Tasks : call'[t].at = "waits") => MCPPart!Unstarted' = {} /\ boot'.at = "next"
    PROVE  MCPInv'
<1>1. WaitsSent(s, who, tool)
    BY DEF WaitsSent
<1>2. /\ \A x \in Servers, line \in Line : Fits(x, line) => Fits(x, line)'
      /\ requests' \in [Servers -> Seq(Line)]
      /\ \A x \in Servers : FitAll(x, requests[x])'
      /\ wantsId' \in [Servers -> 1 .. MaxRequests + 1]
      /\ lock' \in [Servers -> Tasks \cup {MCPPart!Nobody, MCPPart!Booting}]
      /\ wantsId'[s] = wantsId[s] + 1 /\ lock'[s] = who /\ wantsId[s] \in Nat
      /\ \A x \in Servers \ {s} : wantsId'[x] = wantsId[x] /\ lock'[x] = lock[x]
    <2>1. SentWell(s, who)
        BY <1>1, SentFits, Zenon
    <2> QED
        BY <2>1 DEF SentWell
<1>3. lines \in [Servers -> Seq(Line)] /\ \A x \in Servers : lines[x] \in Seq(Line) /\ FitAll(x, lines[x])
    BY DEF MCPInv, MCPTyped, Answering
<1>4. lines' \in [Servers -> Seq(Line)] /\ \A x \in Servers : FitAll(x, lines'[x])
    <2>1. CASE lines' = lines
        BY <2>1, <1>3
    <2>2. CASE lines' = [lines EXCEPT ![s] = Tail(@)] /\ lines[s] # <<>>
        <3>1. Tail(lines[s]) \in Seq(Line) /\ FitAll(s, Tail(lines[s]))
            BY <2>2, <1>3, FitsTaken
        <3> QED
            BY <2>2, <3>1, <1>3
    <2> QED
        BY <2>1, <2>2
<1>5. \A x \in Servers : FitAll(x, lines[x])'
    <2>1. ASSUME NEW x \in Servers, NEW q, q = lines'[x] PROVE FitAll(x, q)'
        <3>1. q \in Seq(Line) /\ FitAll(x, q)
            BY <2>1, <1>4
        <3>2. \A i \in 1 .. Len(q) : q[i] \in Line
            BY <3>1
        <3> QED
            BY <3>1, <3>2, <1>2 DEF FitAll
    <2> QED
        BY <2>1 DEF FitAll
<1>6. MCPTyped'
    <2>1. process' \in [Servers -> {"unstarted", "up", "dead"}]
        BY DEF MCPInv, MCPTyped, MCPPart!TypeOK
    <2> QED
        BY <1>2, <1>4, <2>1 DEF MCPInv, MCPTyped, MCPPart!TypeOK
<1>7. Answering'
    BY <1>2, <1>5 DEF Answering
<1>8. Waiting'
    <2> SUFFICES ASSUME NEW t \in Tasks, call'[t].at = "waits"
                 PROVE  /\ call'[t].on \in Servers /\ call'[t].id < wantsId'[call'[t].on]
                        /\ call'[t].tool \in Named /\ Prefix[call'[t].on] = call'[t].tool[1]
                        /\ lock'[call'[t].on] = t
        BY DEF Waiting
    <2>1. CASE call'[t] = call[t]
        <3>1. /\ call[t].on \in Servers /\ call[t].id < wantsId[call[t].on]
              /\ call[t].tool \in Named /\ Prefix[call[t].on] = call[t].tool[1]
              /\ lock[call[t].on] = t
            BY <2>1 DEF MCPInv, Waiting
        <3>2. call[t].on # s
            BY <2>1, <3>1 DEF MCPAssumed
        <3> QED
            BY <2>1, <3>1, <3>2, <1>2
    <2>2. CASE call'[t] # call[t]
        <3>1. /\ call'[t].on = s /\ call'[t].id = wantsId[s] /\ who = t
              /\ call'[t].tool \in Named /\ Prefix[s] = call'[t].tool[1]
            BY <2>2
        <3> QED
            BY <3>1, <1>2
    <2> QED
        BY <2>1, <2>2
<1>9. MCPPart!AnswersMatched'
    <2>1. \A t \in Tasks : call'[t].at = "done" => call'[t] = call[t]
        OBVIOUS
    <2> QED
        BY <2>1 DEF MCPInv, MCPPart!AnswersMatched
<1> QED
    BY <1>6, <1>7, <1>8, <1>9 DEF MCPInv

LEMMA BootStep ==
    ASSUME MCPAssumed, MCPInv, MCPPart!Connect \/ MCPPart!ListTools \/ MCPPart!Registers \/ MCPPart!LeftOut \/ MCPPart!BootPassesOver
    PROVE  MCPInv'
<1>0. /\ call \in [Tasks -> Calling] /\ lines \in [Servers -> Seq(Line)] /\ UNCHANGED <<own, call>>
      /\ process \in [Servers -> {"unstarted", "up", "dead"}] /\ lock \in [Servers -> Tasks \cup {MCPPart!Nobody, MCPPart!Booting}]
    BY DEF MCPInv, MCPTyped, MCPPart!TypeOK, MCPPart!Connect, MCPPart!ListTools, MCPPart!Registers, MCPPart!LeftOut, MCPPart!BootPassesOver
<1>1. \A t \in Tasks : call[t].at # "waits"
    BY DEF MCPInv, Waiting, MCPPart!Connect, MCPPart!ListTools, MCPPart!Registers, MCPPart!LeftOut, MCPPart!BootPassesOver
<1>2. CASE MCPPart!Connect
    <2>1. PICK started :
            /\ started \in Servers
            /\ process' = [process EXCEPT ![started] = "up"]
            /\ boot' = [at |-> "connect", on |-> started]
            /\ MCPPart!Sends(started, "initialize", MCPPart!Booting, MCPPart!Nobody)
        BY <1>2 DEF MCPPart!Connect, MCPPart!Unstarted
    <2>2. started \in Servers /\ UNCHANGED <<lines, own, kept, route, call>>
        BY <1>2, <2>1 DEF MCPPart!Connect
    <2>3. boot'.at \in {"next", "connect", "list"} /\ (boot'.at # "next" => boot'.on \in Servers)
        BY <2>1, <2>2
    <2>4. \A t \in Tasks : call'[t] = call[t] /\ call'[t].at # "waits"
        BY <2>2, <1>1
    <2>5. /\ call' \in [Tasks -> Calling] /\ "initialize" \in {"initialize", "list", "call"}
          /\ MCPPart!Booting \in Tasks \cup {MCPPart!Booting} /\ MCPPart!Nobody \in ServerTools \cup {MCPPart!Nobody}
        BY <2>2, <1>0
    <2>6. process' = process \/ process' = [process EXCEPT ![started] = "up"]
        BY <2>1
    <2>7. MCPPart!Sends(started, "initialize", MCPPart!Booting, MCPPart!Nobody)
        BY <2>1
    <2>8. started \in Servers
        BY <2>2
    <2>9. lines' = lines \/ (lines' = [lines EXCEPT ![started] = Tail(@)] /\ lines[started] # <<>>)
        BY <2>2
    <2>10. UNCHANGED <<own, kept, route>>
        BY <2>2
    <2> QED
        BY <2>3, <2>4, <2>5, <2>6, <2>7, <2>8, <2>9, <2>10, <1>1, SentKeeps
<1>3. CASE MCPPart!ListTools
    <2>1. MCPPart!booted \in Servers /\ lines[MCPPart!booted] # <<>> /\ lines' = [lines EXCEPT ![MCPPart!booted] = Tail(@)]
        BY <1>3 DEF MCPPart!ListTools, MCPPart!booted, MCPInv, MCPTyped, MCPPart!Found, MCPPart!TakesLine
    <2>2. MCPPart!Sends(MCPPart!booted, "list", MCPPart!Booting, MCPPart!Nobody) /\ UNCHANGED <<process, own, kept, route, call>>
        BY <1>3 DEF MCPPart!ListTools
    <2>3. boot'.at = "list" /\ boot'.on \in Servers
        BY <1>3, <2>1 DEF MCPPart!ListTools, MCPPart!booted
    <2> HIDE DEF MCPPart!booted
    <2> QED
        BY <2>1, <2>2, <2>3, <1>0, <1>1, SentKeeps
<1>4. CASE MCPPart!Registers \/ MCPPart!LeftOut \/ MCPPart!BootPassesOver
    <2>1. MCPPart!booted \in Servers /\ UNCHANGED <<wantsId, requests, call>>
        BY <1>4 DEF MCPPart!booted, MCPInv, MCPTyped, MCPPart!Registers, MCPPart!LeftOut, MCPPart!BootPassesOver
    <2> DEFINE s == MCPPart!booted
    <2>2. /\ lines[s] \in Seq(Line) /\ FitAll(s, lines[s])
          /\ \A x \in Servers : FitAll(x, lines[x]) /\ FitAll(x, requests[x])
        BY <2>1, <1>0 DEF MCPInv, Answering
    <2>3. lines' = lines \/ (lines' = [lines EXCEPT ![s] = Tail(@)] /\ lines[s] # <<>>)
        BY <1>4 DEF MCPPart!Registers, MCPPart!LeftOut, MCPPart!BootPassesOver, MCPPart!TakesLine, MCPPart!Found, MCPPart!Other
    <2>4. lines' \in [Servers -> Seq(Line)] /\ \A x \in Servers : FitAll(x, lines'[x])
        <3>1. lines[s] # <<>> => Tail(lines[s]) \in Seq(Line) /\ FitAll(s, Tail(lines[s]))
            BY <2>2, FitsTaken
        <3> HIDE DEF s
        <3> QED
            BY <2>1, <2>2, <2>3, <3>1, <1>0 DEF s
    <2>5. /\ process' \in [Servers -> {"unstarted", "up", "dead"}]
          /\ lock' \in [Servers -> Tasks \cup {MCPPart!Nobody, MCPPart!Booting}] /\ kept' \subseteq Servers
        BY <1>4, <1>0, <2>1 DEF MCPPart!Registers, MCPPart!LeftOut, MCPPart!BootPassesOver, MCPPart!Unlocks, MCPInv, MCPTyped, MCPPart!TypeOK
    <2>6. boot'.at \in {"next", "connect", "list"} /\ (boot'.at # "next" => boot'.on \in Servers)
        BY <1>4 DEF MCPPart!Registers, MCPPart!LeftOut, MCPPart!BootPassesOver, MCPInv, MCPTyped
    <2>7. \A n \in DOMAIN route' : n \in Named /\ route'[n] \in Servers /\ Prefix[route'[n]] = n[1]
        <3>1. CASE UNCHANGED route
            BY <3>1 DEF MCPInv, MCPTyped
        <3>2. CASE MCPPart!Registers
            <4>1. PICK ts \in SUBSET ServerTools :
                    LET names == {MCPPart!prefixToolName(MCPPart!booted, t) : t \in ts}
                    IN  route' = [n \in DOMAIN route \cup names |-> IF n \in names THEN MCPPart!booted ELSE route[n]]
                BY <3>2 DEF MCPPart!Registers
            <4> DEFINE names == {MCPPart!prefixToolName(s, t) : t \in ts}
            <4>2. \A n \in names : n \in Named /\ Prefix[s] = n[1]
                BY <2>1 DEF MCPPart!prefixToolName, Named
            <4>3. route' = [n \in DOMAIN route \cup names |-> IF n \in names THEN s ELSE route[n]]
                BY <4>1
            <4> HIDE DEF names, s
            <4> QED
                BY <2>1, <4>2, <4>3 DEF MCPInv, MCPTyped, s
        <3> QED
            BY <3>1, <3>2, <1>4 DEF MCPPart!LeftOut, MCPPart!BootPassesOver
    <2>8. MCPTyped'
        BY <2>1, <2>4, <2>5, <2>6, <2>7, <1>0 DEF MCPInv, MCPTyped, MCPPart!TypeOK
    <2>9. Answering'
        BY <2>1, <2>2, <2>4 DEF Answering, FitAll, Fits, MCPPart!HasResult
    <2>10. Waiting' /\ MCPPart!AnswersMatched'
        BY <2>1, <1>1 DEF Waiting, MCPInv, MCPPart!AnswersMatched
    <2> QED
        BY <2>8, <2>9, <2>10 DEF MCPInv
<1> QED
    BY <1>2, <1>3, <1>4

LEMMA CallToolStep == ASSUME MCPAssumed, MCPInv, NEW who \in Tasks, MCPPart!CallTool(who) PROVE MCPInv'
<1>1. PICK n :
        /\ n \in DOMAIN route
        /\ route[n] \in kept /\ lock[route[n]] = MCPPart!Nobody
        /\ MCPPart!Sends(route[n], "call", who, n[2])
        /\ call' = [call EXCEPT ![who] = [at |-> "waits", on |-> route[n], tool |-> n,
                                        id |-> wantsId[route[n]], got |-> MCPPart!NoLine]]
    BY DEF MCPPart!CallTool
<1>2. n \in Named /\ route[n] \in Servers /\ Prefix[route[n]] = n[1] /\ n[2] \in ServerTools
    BY <1>1 DEF MCPInv, MCPTyped, Named
<1>3. /\ MCPPart!Unstarted = {} /\ boot.at = "next" /\ call[who].at = "idle"
      /\ UNCHANGED <<process, lines, own, boot, kept, route>> /\ call \in [Tasks -> Calling]
      /\ wantsId[route[n]] \in Nat
    BY <1>2 DEF MCPPart!CallTool, MCPInv, MCPTyped, MCPPart!TypeOK
<1> DEFINE onto == route[n]
           c == [at |-> "waits", on |-> onto, tool |-> n, id |-> wantsId[onto], got |-> MCPPart!NoLine]
<1>4. c \in Calling /\ c.at = "waits" /\ c.on = onto /\ c.id = wantsId[onto] /\ c.tool = n
    BY <1>2, <1>3 DEF Calling, Line, MCPPart!NoLine
<1>5. call' = [call EXCEPT ![who] = c] /\ MCPPart!Sends(onto, "call", who, n[2]) /\ lock[onto] = MCPPart!Nobody
    BY <1>1
<1> HIDE DEF c, onto
<1>6. /\ call' \in [Tasks -> Calling]
      /\ \A x \in Tasks : \/ call'[x] = call[x]
                           \/ /\ call'[x].at = "waits" /\ call'[x].on = onto /\ call'[x].id = wantsId[onto]
                              /\ who = x /\ n[2] = call'[x].tool[2] /\ call[x].at # "done"
                              /\ call'[x].tool \in Named /\ Prefix[onto] = call'[x].tool[1]
    <2>1. \A x \in Tasks : x # who => call'[x] = call[x]
        BY <1>3, <1>5
    <2>2. call'[who] = c
        BY <1>3, <1>5
    <2> QED
        BY <1>2, <1>3, <1>4, <1>5, <2>1, <2>2 DEF onto
<1>7. MCPPart!Unstarted' = {} /\ boot'.at = "next" /\ boot' = boot
    BY <1>3 DEF MCPPart!Unstarted
<1>8. onto \in Servers
    BY <1>2 DEF onto
<1>9. UNCHANGED <<process, lines, own, kept, route>> /\ "call" \in {"initialize", "list", "call"}
    BY <1>3
<1>10. boot'.at \in {"next", "connect", "list"} /\ (boot'.at # "next" => boot'.on \in Servers)
    BY <1>7
<1> HIDE DEF MCPPart!Sends
<1> QED
    BY <1>2, <1>5, <1>6, <1>7, <1>8, <1>9, <1>10, SentKeeps

LEMMA MCPStep == ASSUME MCPAssumed PROVE MCPInv /\ [MCPPart!Next]_(MCPPart!vars) => MCPInv'
<1> SUFFICES ASSUME MCPInv, [MCPPart!Next]_(MCPPart!vars) PROVE MCPInv'
    OBVIOUS
<1>1. CASE UNCHANGED MCPPart!vars
    <2>1. MCPTyped'
        BY <1>1 DEF MCPPart!vars, MCPInv, MCPTyped, MCPPart!TypeOK
    <2>2. Answering'
        BY <1>1 DEF MCPPart!vars, MCPInv, Answering, FitAll, Fits, MCPPart!HasResult
    <2>3. Waiting' /\ MCPPart!AnswersMatched'
        BY <1>1 DEF MCPPart!vars, MCPInv, Waiting, MCPPart!Unstarted, MCPPart!AnswersMatched
    <2> QED
        BY <2>1, <2>2, <2>3 DEF MCPInv
<1> QED
    BY <1>1, ServerStep, ReadingStep, CallToolStep, BootStep DEF MCPPart!Next

LEMMA MCPMatches == ASSUME MCPAssumed PROVE MCPInv => MCPPart!TypeOK /\ MCPPart!AnswersMatched /\ MCPPart!OneCallAtATime
    BY DEF MCPInv, MCPTyped, Waiting, MCPPart!OneCallAtATime

--------------------------------------------------------------------------------
(***************************************************************************)
(* The walk along a chain of providers.                                    *)
(***************************************************************************)
Chains == ToolSettings \cup {ToolPart!None}

\* Whatever the adapters make of the replies.
Heard == {ToolPart!Asked(s, ToolPart!Refs(s)[i], a, r) : s \in Chains, i \in Nat, a \in {"good", "bad"}, r \in ToolPart!Replies}
Walks == [state : {"idle", "walking", "answered", "failed"}, chain : Chains,
          args : {"good", "bad"}, at : Nat \ {0}, asked : Seq([at : Nat, outcome : Heard])]

WalkTypes == saved \in ToolSettings /\ chain \in Chains /\ chainCall \in Walks

\* A chain that an agent has can be served, and so can the one of a call under way.
Served ==
  /\ chain # ToolPart!None => ToolPart!Available(chain)
  /\ chainCall.state # "idle" => ToolPart!Available(chainCall.chain)

\* Nothing is asked before a call, and only three things make it fail.
WhyFailed ==
  /\ chainCall.state = "idle" => chainCall = ToolPart!Idle
  /\ chainCall.state = "failed" =>
       \/ ~ToolPart!FallbackEnabled(chainCall.chain)
       \/ chainCall.asked # <<>>
       \/ chainCall.at \notin DOMAIN ToolPart!Refs(chainCall.chain)

WalkInv == WalkTypes /\ Served /\ WhyFailed /\ ToolPart!AskedInOrder /\ ToolPart!EndsAtTheFirst

\* No settings, no provider.
LEMMA NothingUsable == \A p : ~ToolPart!Usable(ToolPart!None, p)
<1>1. ToolPart!None.given = <<>>
  BY DEF ToolPart!None
<1>2. DOMAIN <<>> = {}
  OBVIOUS
<1> QED
  BY <1>1, <1>2 DEF ToolPart!Usable, ToolPart!Configured

LEMMA IdleTypes == ToolPart!Idle \in Walks
<1>1. <<>> \in Seq([at : Nat, outcome : Heard])
  OBVIOUS
<1> QED
  BY <1>1 DEF ToolPart!Idle, Walks, Chains

LEMMA BuildTypes == \A s \in ToolSettings : ToolPart!BuildChain(s) \in Chains /\ (ToolPart!BuildChain(s) # ToolPart!None => ToolPart!Available(ToolPart!BuildChain(s)))
BY DEF ToolPart!BuildChain, Chains

\* With no call under way there is nothing to keep in order.
LEMMA IdleSound ==
    ASSUME chainCall = ToolPart!Idle
    PROVE  WhyFailed /\ ToolPart!AskedInOrder /\ ToolPart!EndsAtTheFirst
<1>1. chainCall.state = "idle" /\ chainCall.asked = <<>> /\ chainCall.chain = ToolPart!None
  BY DEF ToolPart!Idle
<1>2. ToolPart!UpTo = {}
  BY <1>1, NothingUsable DEF ToolPart!UpTo
<1>3. DOMAIN chainCall.asked = {}
  BY <1>1
<1> QED
  BY <1>1, <1>2, <1>3 DEF WhyFailed, ToolPart!AskedInOrder, ToolPart!EndsAtTheFirst

LEMMA IdleStays ==
    ASSUME chainCall' = ToolPart!Idle
    PROVE  WhyFailed' /\ ToolPart!AskedInOrder' /\ ToolPart!EndsAtTheFirst'
<1>1. chainCall'.state = "idle" /\ chainCall'.asked = <<>> /\ chainCall'.chain = ToolPart!None
  BY DEF ToolPart!Idle
<1>2. ToolPart!UpTo' = {}
  BY <1>1, NothingUsable DEF ToolPart!UpTo
<1>3. DOMAIN chainCall'.asked = {}
  BY <1>1
<1> QED
  BY <1>1, <1>2, <1>3 DEF WhyFailed, ToolPart!AskedInOrder, ToolPart!EndsAtTheFirst

LEMMA InitWalk == ToolPart!Init => WalkInv
<1> SUFFICES ASSUME ToolPart!Init PROVE WalkInv
  OBVIOUS
<1>1. WalkTypes
  BY IdleTypes, BuildTypes DEF ToolPart!Init, WalkTypes
<1>2. Served
  BY BuildTypes DEF ToolPart!Init, Served, ToolPart!Idle
<1> QED
  BY <1>1, <1>2, IdleSound DEF ToolPart!Init, WalkInv

\* Passing over a provider that cannot be asked, or the end of the chain.
LEMMA SkipWalk == WalkInv /\ ToolPart!Skip => WalkInv'
<1> SUFFICES ASSUME WalkInv, ToolPart!Skip PROVE WalkInv'
  OBVIOUS
<1> USE DEF WalkInv, WalkTypes, Walks
<1>1. /\ saved' = saved /\ chain' = chain /\ chainCall.state = "walking" /\ chainCall.at \in DOMAIN ToolPart!Refs(chainCall.chain)
      /\ ~ToolPart!Usable(chainCall.chain, ToolPart!Refs(chainCall.chain)[chainCall.at])
  BY DEF ToolPart!Skip, ToolPart!Walking, ToolPart!Current
<1>2. CASE ToolPart!FallbackEnabled(chainCall.chain)
  <2>1. chainCall' = [chainCall EXCEPT !.at = @ + 1]
    BY <1>2 DEF ToolPart!Skip
  <2>2. /\ chainCall'.at = chainCall.at + 1 /\ chainCall'.state = "walking" /\ chainCall'.chain = chainCall.chain
        /\ chainCall'.asked = chainCall.asked /\ chainCall' \in Walks
    BY <2>1, <1>1
  <2>3. ToolPart!UpTo' = ToolPart!UpTo
    BY <1>1, <2>2 DEF ToolPart!UpTo, ToolPart!Passed
  <2> QED
    BY <1>1, <2>2, <2>3 DEF Served, WhyFailed, ToolPart!AskedInOrder, ToolPart!EndsAtTheFirst
<1>3. CASE ~ToolPart!FallbackEnabled(chainCall.chain)
  <2>1. chainCall' = [chainCall EXCEPT !.state = "failed"]
    BY <1>3 DEF ToolPart!Skip
  <2>2. /\ chainCall'.at = chainCall.at /\ chainCall'.state = "failed" /\ chainCall'.chain = chainCall.chain
        /\ chainCall'.asked = chainCall.asked /\ chainCall' \in Walks
    BY <2>1, <1>1
  <2>3. ToolPart!UpTo' = ToolPart!UpTo
    BY <1>1, <2>2 DEF ToolPart!UpTo, ToolPart!Passed
  <2> QED
    BY <1>1, <1>3, <2>2, <2>3 DEF Served, WhyFailed, ToolPart!AskedInOrder, ToolPart!EndsAtTheFirst
<1> QED
  BY <1>2, <1>3

LEMMA ExhaustedWalk == WalkInv /\ ToolPart!Exhausted => WalkInv'
<1> SUFFICES ASSUME WalkInv, ToolPart!Exhausted PROVE WalkInv'
  OBVIOUS
<1> USE DEF WalkInv, WalkTypes, Walks
<1>1. /\ saved' = saved /\ chain' = chain /\ chainCall.state = "walking" /\ chainCall.at \notin DOMAIN ToolPart!Refs(chainCall.chain)
      /\ chainCall' = [chainCall EXCEPT !.state = "failed"]
  BY DEF ToolPart!Exhausted, ToolPart!Walking
<1>2. /\ chainCall'.at = chainCall.at /\ chainCall'.state = "failed" /\ chainCall'.chain = chainCall.chain
      /\ chainCall'.asked = chainCall.asked /\ chainCall' \in Walks
  BY <1>1
<1>3. ToolPart!UpTo' = ToolPart!UpTo
  BY <1>1, <1>2 DEF ToolPart!UpTo, ToolPart!Passed
<1> QED
  BY <1>1, <1>2, <1>3 DEF Served, WhyFailed, ToolPart!AskedInOrder, ToolPart!EndsAtTheFirst

\* A provider is asked: the only step that adds to what was heard.
LEMMA AskWalk == ASSUME NEW reply \in ToolPart!Replies, WalkInv, ToolPart!Ask(reply) PROVE WalkInv'
<1> USE DEF WalkInv, WalkTypes, Walks
<1> DEFINE outcome == ToolPart!Asked(chainCall.chain, ToolPart!Current, chainCall.args, reply)
           new == [at |-> chainCall.at, outcome |-> outcome]
           n == Len(chainCall.asked)
<1>1. /\ saved' = saved /\ chain' = chain /\ chainCall.state = "walking" /\ chainCall.at \in DOMAIN ToolPart!Refs(chainCall.chain)
      /\ ToolPart!Usable(chainCall.chain, ToolPart!Refs(chainCall.chain)[chainCall.at])
  BY DEF ToolPart!Ask, ToolPart!Walking, ToolPart!Current
<1>2. outcome \in Heard
  BY DEF Heard, ToolPart!Current
<1>3. /\ chainCall'.asked = Append(chainCall.asked, new) /\ chainCall'.chain = chainCall.chain
      /\ chainCall'.at = IF outcome \notin {"results", "fatal"} THEN chainCall.at + 1 ELSE chainCall.at
      /\ chainCall'.state = IF outcome = "results" THEN "answered"
                       ELSE IF outcome = "fatal" THEN "failed" ELSE "walking"
      /\ chainCall' \in Walks
  <2> DEFINE asked == Append(chainCall.asked, new)
             next == IF outcome \notin {"results", "fatal"} THEN chainCall.at + 1 ELSE chainCall.at
             then == IF outcome = "results" THEN "answered"
                     ELSE IF outcome = "fatal" THEN "failed" ELSE "walking"
  <2>1. asked \in Seq([at : Nat, outcome : Heard])
    BY <1>2
  <2>2. next \in Nat \ {0} /\ then \in {"walking", "answered", "failed"}
    OBVIOUS
  <2>3. chainCall' = [chainCall EXCEPT !.asked = asked, !.at = next, !.state = then]
    BY <1>1 DEF ToolPart!Ask, ToolPart!GoesOn
  <2> HIDE DEF asked, next, then
  <2>4. /\ chainCall'.asked = asked /\ chainCall'.at = next /\ chainCall'.state = then /\ chainCall'.chain = chainCall.chain
        /\ chainCall' \in Walks
    BY <2>1, <2>2, <2>3
  <2> QED
    BY <2>4 DEF asked, next, then
<1>4. /\ n \in Nat /\ DOMAIN chainCall.asked = 1..n /\ DOMAIN chainCall'.asked = 1..n + 1
      /\ chainCall'.asked[n + 1] = new /\ \A i \in 1..n : chainCall'.asked[i] = chainCall.asked[i]
      /\ Len(chainCall'.asked) = n + 1
  BY <1>2, <1>3
<1>5. ToolPart!UpTo' = ToolPart!UpTo \cup {chainCall.at} /\ \A i \in ToolPart!UpTo : i < chainCall.at
  BY <1>1, <1>3 DEF ToolPart!UpTo, ToolPart!Passed
<1>6. ToolPart!AskedInOrder'
  <2> DEFINE before == {chainCall.asked[i].at : i \in DOMAIN chainCall.asked}
             after == {chainCall'.asked[i].at : i \in DOMAIN chainCall'.asked}
  <2>0. /\ chainCall'.asked[n + 1].at = chainCall.at
        /\ \A i \in 1..n : chainCall'.asked[i].at = chainCall.asked[i].at
    BY <1>4
  <2>a. before = {chainCall.asked[i].at : i \in 1..n}
    BY <1>4
  <2>b. after = {chainCall'.asked[i].at : i \in 1..n + 1}
    BY <1>4
  <2>c. 1..n + 1 = (1..n) \cup {n + 1}
    BY <1>4
  <2>1. after = before \cup {chainCall.at}
    <3>1. \A x \in before : x \in after
      <4> SUFFICES ASSUME NEW i \in 1..n PROVE chainCall.asked[i].at \in after
        BY <2>a
      <4>1. i \in 1..n + 1 /\ chainCall'.asked[i].at = chainCall.asked[i].at
        BY <2>0, <2>c
      <4> QED
        BY <4>1, <2>b
    <3>2. chainCall.at \in after
      <4>1. n + 1 \in 1..n + 1
        BY <2>c
      <4> QED
        BY <4>1, <2>0, <2>b
    <3>3. \A x \in after : x \in before \cup {chainCall.at}
      <4> SUFFICES ASSUME NEW i \in 1..n + 1 PROVE chainCall'.asked[i].at \in before \cup {chainCall.at}
        BY <2>b
      <4>1. CASE i \in 1..n
        BY <4>1, <2>0, <2>a
      <4>2. CASE i = n + 1
        BY <4>2, <2>0
      <4> QED
        BY <4>1, <4>2, <2>c
    <3> QED
      BY <3>1, <3>2, <3>3
  <2>2. \A i \in 1..n : chainCall.asked[i].at < chainCall.at
    BY <1>4, <1>5 DEF ToolPart!AskedInOrder
  <2>3. ASSUME NEW i \in 1..n + 1, NEW j \in 1..n + 1, i < j PROVE chainCall'.asked[i].at < chainCall'.asked[j].at
    <3>1. CASE j = n + 1
      BY <3>1, <2>2, <2>3, <1>4
    <3>2. CASE j # n + 1
      <4>1. i \in 1..n /\ j \in 1..n
        BY <3>2, <2>3, <1>4
      <4>2. chainCall.asked[i].at < chainCall.asked[j].at
        BY <4>1, <2>3, <1>4 DEF ToolPart!AskedInOrder
      <4> QED
        BY <4>1, <4>2, <2>0
    <3> QED
      BY <3>1, <3>2
  <2> QED
    BY <2>1, <2>3, <1>4, <1>5 DEF ToolPart!AskedInOrder
<1>7. ToolPart!EndsAtTheFirst'
  <2>1. \A i \in 1..n : chainCall.asked[i].outcome \notin {"results", "fatal"}
    BY <1>1, <1>4 DEF ToolPart!EndsAtTheFirst
  <2> QED
    BY <2>1, <1>3, <1>4 DEF ToolPart!EndsAtTheFirst
<1>8. Served' /\ WhyFailed'
  BY <1>1, <1>3, <1>4 DEF Served, WhyFailed
<1> QED
  BY <1>1, <1>3, <1>6, <1>7, <1>8

\* Every step keeps the invariant.
LEMMA StepWalk == WalkInv /\ [ToolPart!Next]_(ToolPart!vars) => WalkInv'
<1> SUFFICES ASSUME WalkInv, [ToolPart!Next]_(ToolPart!vars) PROVE WalkInv'
  OBVIOUS
<1>1. ASSUME NEW s \in ToolSettings, ToolPart!SaveTools(s) PROVE WalkInv'
  <2>1. saved' = s /\ chain' = chain /\ chainCall' = chainCall
    BY <1>1 DEF ToolPart!SaveTools
  <2> QED
    BY <2>1 DEF WalkInv, WalkTypes, Served, WhyFailed, ToolPart!AskedInOrder, ToolPart!EndsAtTheFirst, ToolPart!UpTo, ToolPart!Passed
<1>2. CASE ToolPart!Build
  <2>1. saved' = saved /\ chainCall' = chainCall /\ chain' = ToolPart!BuildChain(saved)
    BY <1>2 DEF ToolPart!Build
  <2> QED
    BY <2>1, BuildTypes DEF WalkInv, WalkTypes, Served, WhyFailed, ToolPart!AskedInOrder, ToolPart!EndsAtTheFirst, ToolPart!UpTo, ToolPart!Passed
<1>3. ASSUME NEW args \in {"good", "bad"}, ToolPart!Begin(args) PROVE WalkInv'
  <2>1. /\ saved' = saved /\ chain' = chain /\ chain # ToolPart!None
        /\ chainCall' = [ToolPart!Idle EXCEPT !.state = "walking", !.chain = chain, !.args = args]
    BY <1>3 DEF ToolPart!Begin
  <2>2. /\ chainCall'.state = "walking" /\ chainCall'.chain = chain /\ chainCall'.at = 1 /\ chainCall'.asked = <<>>
        /\ chainCall' \in Walks
    BY <2>1, IdleTypes DEF WalkInv, WalkTypes, Walks, ToolPart!Idle
  <2>3. ToolPart!UpTo' = {} /\ DOMAIN chainCall'.asked = {}
    BY <2>2 DEF ToolPart!UpTo, ToolPart!Passed
  <2> QED
    BY <2>1, <2>2, <2>3 DEF WalkInv, WalkTypes, Served, WhyFailed, ToolPart!AskedInOrder, ToolPart!EndsAtTheFirst
<1>4. CASE ToolPart!Skip
  BY <1>4, SkipWalk
<1>5. ASSUME NEW reply \in ToolPart!Replies, ToolPart!Ask(reply) PROVE WalkInv'
  BY <1>5, AskWalk
<1>6. CASE ToolPart!Exhausted
  BY <1>6, ExhaustedWalk
<1>7. CASE ToolPart!Return
  <2>1. saved' = saved /\ chain' = chain /\ chainCall' = ToolPart!Idle
    BY <1>7 DEF ToolPart!Return
  <2>2. WhyFailed' /\ ToolPart!AskedInOrder' /\ ToolPart!EndsAtTheFirst'
    BY <2>1, IdleStays
  <2> QED
    BY <2>1, <2>2, IdleTypes DEF WalkInv, WalkTypes, Served, ToolPart!Idle
<1>8. CASE UNCHANGED ToolPart!vars
  BY <1>8 DEF ToolPart!vars, WalkInv, WalkTypes, Served, WhyFailed, ToolPart!AskedInOrder, ToolPart!EndsAtTheFirst, ToolPart!UpTo, ToolPart!Passed
<1> QED
  BY <1>1, <1>2, <1>3, <1>4, <1>5, <1>6, <1>7, <1>8 DEF ToolPart!Next

LEMMA WalkKept == ToolPart!Spec => []WalkInv
BY InitWalk, StepWalk, PTL DEF ToolPart!Spec

\* A walk that ended without an answer has met every provider of its chain that can be asked.
LEMMA ServedIsAsked ==
    ASSUME WalkInv, ToolAssumed
    PROVE  ToolPart!ShownIsServed
<1> SUFFICES ASSUME chainCall.state = "failed", ToolPart!FallbackEnabled(chainCall.chain), chainCall.asked = <<>> PROVE FALSE
  BY DEF ToolPart!ShownIsServed
<1>1. chainCall.at \notin DOMAIN ToolPart!Refs(chainCall.chain) /\ chainCall.at \in Nat \ {0} /\ chainCall.chain \in Chains
  BY DEF WalkInv, WhyFailed, WalkTypes, Walks
<1>2. PICK i \in DOMAIN ToolPart!Refs(chainCall.chain) : ToolPart!Usable(chainCall.chain, ToolPart!Refs(chainCall.chain)[i])
  BY DEF WalkInv, Served, ToolPart!Available
<1>3. chainCall.chain \in ToolSettings
  BY <1>1, <1>2, NothingUsable DEF Chains
<1>4. i \in 1..chainCall.at
  BY <1>1, <1>2, <1>3 DEF ToolAssumed
<1>5. i \in ToolPart!UpTo
  BY <1>2, <1>4 DEF ToolPart!UpTo, ToolPart!Passed
<1>6. DOMAIN chainCall.asked = {}
  OBVIOUS
<1> QED
  BY <1>5, <1>6 DEF WalkInv, ToolPart!AskedInOrder

\* Whatever the settings, a call asks the providers of its chain that can be asked, in their
\* order and each once, and stops at the first answer or lasting error (Chain.Execute).
THEOREM ChainWalk == ToolPart!Spec => [](ToolPart!AskedInOrder /\ ToolPart!EndsAtTheFirst)
<1>1. WalkInv => ToolPart!AskedInOrder /\ ToolPart!EndsAtTheFirst
  BY DEF WalkInv
<1> QED
  BY <1>1, WalkKept, PTL

\* And a tool the model was shown asks somebody before it fails, unless fallback is off
\* (Chain.Available, Chain.Execute).
THEOREM ChainSafe ==
    ASSUME ToolAssumed
    PROVE  ToolPart!Spec => []ToolPart!ChainSound
<1>1. WalkInv => ToolPart!ChainSound
  BY ServedIsAsked DEF WalkInv, ToolPart!ChainSound
<1> QED
  BY <1>1, WalkKept, PTL

--------------------------------------------------------------------------------
(***************************************************************************)
(* What a model streams. Events and pieces are counted: the i-th piece of  *)
(* text is number i, and the parts of a block are as many as were sent for *)
(* it.                                                                     *)
(***************************************************************************)
BlockTypes == {"text", "thinking", "tool"}
Event == [kind : {"text", "part"}, n : Nat] \cup [kind : {"open"}, n : Nat, type : BlockTypes] \cup {StreamPart!Stop}
Block == [type : BlockTypes, parts : Nat]
CallSets == UNION {[T -> Nat] : T \in SUBSET Nat}
Chunk == [text : Seq(Nat), done : BOOLEAN, calls : CallSets]

\* What is among the first n events.
UpTo(P, n)      == {i \in P : i <= n}
Opens(es, n)    == UpTo(StreamPart!At(es, "open"), n)
ArgumentsOf(es, b)  == {i \in StreamPart!At(es, "part") : es[i].n = b}
Count(es, n)    == Cardinality(UpTo(StreamPart!At(es, "text"), n))
Numbers(n)      == [i \in 1..n |-> i]

\* Events the parser has read.
Read == Len(sent) - Len(wire)

StreamTyped ==
    /\ api \in StreamPart!Apis /\ phase \in {"chat", "ask", "stream", "calls", "over"}
    /\ connection \in {"open", "ended", "broken"}
    /\ sent \in Seq(Event) /\ wire \in Seq(Event)
    /\ blocks \in Seq(Block)
    /\ content \in Seq(Nat) /\ full \in Seq(Nat) /\ shown \in Seq(Nat)
    /\ chunks \in Seq(Chunk) /\ out \in Seq(Chunk)
    /\ Len(chunks) <= ChunkCap /\ Len(out) <= ChunkCap
    /\ cancelled \in BOOLEAN /\ streaming \in BOOLEAN /\ relaying \in BOOLEAN /\ reading \in BOOLEAN

\* How the server numbers what it sends; nothing comes after the end of the message.
EventsNumbered ==
    \A i \in DOMAIN sent :
        /\ sent[i].kind = "text" => sent[i].n = Count(sent, i)
        /\ sent[i].kind = "open" => /\ sent[i].n = Cardinality(Opens(sent, i)) - 1
                                    /\ api = "openai" => sent[i].type = "tool"
        /\ sent[i].kind = "part" => \E j \in StreamPart!At(sent, "open") : j < i /\ sent[j].n = sent[i].n
        /\ sent[i].kind = "stop" => i = Len(sent)

OnWire == Len(wire) <= Len(sent) /\ \A i \in 1..Len(wire) : wire[i] = sent[Read + i]

\* A block for every one opened, with the parts that were read.
Parsed ==
    /\ Len(blocks) = Cardinality(Opens(sent, Read))
    /\ \A i \in Opens(sent, Read) : sent[i].n + 1 \in DOMAIN blocks /\ blocks[sent[i].n + 1].type = sent[i].type
    /\ \A k \in DOMAIN blocks : /\ blocks[k].parts = Cardinality(UpTo(ArgumentsOf(sent, k - 1), Read))
                                /\ \E i \in Opens(sent, Read) : sent[i].n = k - 1

\* Before and without a stream.
Chatting ==
    /\ phase \in {"chat", "ask", "calls"} =>
        content = Numbers(Count(sent, Read)) /\ shown = <<>> /\ stored = StreamPart!Nothing
    /\ phase \in {"ask", "calls"} => wire = <<>> /\ result.calls = StreamPart!CallsOf(sent)
    /\ phase # "stream" =>
        /\ chunks = <<>> /\ full = <<>> /\ out = <<>> /\ last = StreamPart!Nothing
        /\ ~streaming /\ ~relaying /\ ~reading

\* The chunks of a channel, after the first n pieces of text: one piece each, and at most the last one
\* says Done and has the calls c.
Told(q) == \E i \in DOMAIN q : q[i].done
Pieces(q) == IF Told(q) THEN Len(q) - 1 ELSE Len(q)
Carries(q, n, c) ==
    \A i \in DOMAIN q :
        /\ ~q[i].done => q[i].text = <<n + i>>
        /\ q[i].done => i = Len(q) /\ q[i].text = <<>> /\ q[i].calls = c

\* The message is over, and its end passed on.
AllRead == StreamPart!Ended(sent) /\ wire = <<>> /\ ~streaming

Streaming ==
    /\ full = Numbers(Len(full)) /\ shown = Numbers(Len(shown))
    /\ Carries(chunks, Len(full), StreamPart!CallsOf(sent)) /\ Carries(out, Len(shown), StreamPart!CallsOf(sent))
    /\ Len(full) + Pieces(chunks) <= Count(sent, Read)
    /\ streaming \/ Told(chunks) \/ Told(out) \/ last # StreamPart!Nothing =>
        Len(full) + Pieces(chunks) = Count(sent, Read)
    /\ Len(shown) + Pieces(out) <= Len(full)
    /\ relaying \/ ~cancelled \/ Told(out) \/ last # StreamPart!Nothing => Len(shown) + Pieces(out) = Len(full)
    /\ Told(chunks) => AllRead
    /\ Told(out) => AllRead /\ chunks = <<>>
    /\ last # StreamPart!Nothing => AllRead /\ chunks = <<>> /\ ~reading /\ last = StreamPart!CallsOf(sent)
    /\ ~reading => out = <<>> /\ (~relaying \/ (chunks = <<>> /\ ~streaming))
    /\ stored # StreamPart!Nothing => stored = full /\ ~relaying

StreamInv ==
    /\ StreamTyped /\ EventsNumbered /\ OnWire /\ Parsed /\ Chatting
    /\ phase = "stream" => Streaming

\* The component counts as this module does.
LEMMA StreamCountsAlike == \A S : StreamPart!Cardinality(S) = Cardinality(S)
    BY DEF StreamPart!Cardinality, Cardinality

\* Among one more of the events there is one more of P, or none.
LEMMA UpToNext ==
    ASSUME NEW P, \A i \in P : i \in Nat \ {0}, NEW n \in Nat
    PROVE  /\ IsFiniteSet(UpTo(P, n)) /\ Cardinality(UpTo(P, n)) \in Nat
           /\ n + 1 \in P => Cardinality(UpTo(P, n + 1)) = Cardinality(UpTo(P, n)) + 1
           /\ n + 1 \notin P => UpTo(P, n + 1) = UpTo(P, n)
<1>1. IsFiniteSet(UpTo(P, n)) /\ Cardinality(UpTo(P, n)) \in Nat
    <2>1. IsFiniteSet(0..n)
        BY FS_Interval
    <2>2. ASSUME NEW i \in UpTo(P, n) PROVE i \in 0..n
        BY DEF UpTo
    <2>3. IsFiniteSet(UpTo(P, n))
        BY <2>1, <2>2, FS_Subset
    <2> QED
        BY <2>3, FS_CardinalityType
<1>2. ASSUME n + 1 \in P PROVE Cardinality(UpTo(P, n + 1)) = Cardinality(UpTo(P, n)) + 1
    <2>1. UpTo(P, n + 1) = UpTo(P, n) \cup {n + 1} /\ n + 1 \notin UpTo(P, n)
        <3>1. ASSUME NEW i PROVE i \in UpTo(P, n + 1) <=> i \in UpTo(P, n) \cup {n + 1}
            BY <1>2 DEF UpTo
        <3> QED
            BY <3>1 DEF UpTo
    <2> QED
        BY <1>1, <2>1, FS_AddElement
<1>3. n + 1 \notin P => UpTo(P, n + 1) = UpTo(P, n)
    BY DEF UpTo
<1> QED
    BY <1>1, <1>2, <1>3

LEMMA UpToNone == ASSUME NEW P, \A i \in P : i \in Nat \ {0} PROVE UpTo(P, 0) = {} /\ Cardinality({}) = 0
    BY FS_EmptySet DEF UpTo

\* Where events are, and where they are when one more is sent.
LEMMA Places ==
    ASSUME NEW es \in Seq(Event), NEW k
    PROVE  /\ \A i \in StreamPart!At(es, k) : i \in 1..Len(es) /\ i \in Nat \ {0}
           /\ \A b : \A i \in ArgumentsOf(es, b) : i \in 1..Len(es) /\ i \in Nat \ {0}
           /\ UpTo(StreamPart!At(es, k), Len(es)) = StreamPart!At(es, k)
           /\ \A b : UpTo(ArgumentsOf(es, b), Len(es)) = ArgumentsOf(es, b)
    BY DEF StreamPart!At, ArgumentsOf, UpTo

LEMMA AppendedLast ==
    ASSUME NEW S, NEW s \in Seq(S), NEW x \in S
    PROVE  /\ Append(s, x) \in Seq(S) /\ Len(Append(s, x)) = Len(s) + 1
           /\ Append(s, x)[Len(s) + 1] = x /\ \A i \in 1..Len(s) : Append(s, x)[i] = s[i]
    BY AppendProperties

LEMMA PlacesAppended ==
    ASSUME NEW es \in Seq(Event), NEW e \in Event, NEW k
    PROVE  /\ e.kind = k => StreamPart!At(Append(es, e), k) = StreamPart!At(es, k) \cup {Len(es) + 1}
           /\ e.kind # k => StreamPart!At(Append(es, e), k) = StreamPart!At(es, k)
           /\ \A n \in 0..Len(es) : /\ UpTo(StreamPart!At(Append(es, e), k), n) = UpTo(StreamPart!At(es, k), n)
                                    /\ \A b : UpTo(ArgumentsOf(Append(es, e), b), n) = UpTo(ArgumentsOf(es, b), n)
<1> DEFINE fs == Append(es, e)
<1>1. /\ fs \in Seq(Event) /\ Len(fs) = Len(es) + 1 /\ fs[Len(es) + 1] = e
      /\ \A i \in 1..Len(es) : fs[i] = es[i]
    BY AppendedLast
<1> HIDE DEF fs
<1>2. DOMAIN fs = 1..Len(es) + 1 /\ DOMAIN es = 1..Len(es) /\ Len(es) \in Nat
    BY <1>1
<1>3. ASSUME NEW i \in DOMAIN fs PROVE i \in DOMAIN es \/ i = Len(es) + 1
    BY <1>2
<1>4. e.kind = k => StreamPart!At(fs, k) = StreamPart!At(es, k) \cup {Len(es) + 1}
    BY <1>1, <1>2, <1>3 DEF StreamPart!At
<1>5. e.kind # k => StreamPart!At(fs, k) = StreamPart!At(es, k)
    BY <1>1, <1>2, <1>3 DEF StreamPart!At
<1>6. ASSUME NEW n \in 0..Len(es), NEW j PROVE UpTo(StreamPart!At(fs, j), n) = UpTo(StreamPart!At(es, j), n)
    <2>1. ASSUME NEW i \in Nat, i <= n PROVE i \in StreamPart!At(fs, j) <=> i \in StreamPart!At(es, j)
        BY <1>1, <1>2, <2>1 DEF StreamPart!At
    <2>2. StreamPart!At(fs, j) \subseteq Nat /\ StreamPart!At(es, j) \subseteq Nat
        BY <1>2 DEF StreamPart!At
    <2> QED
        BY <2>1, <2>2 DEF UpTo
<1>7. ASSUME NEW n \in 0..Len(es), NEW b PROVE UpTo(ArgumentsOf(fs, b), n) = UpTo(ArgumentsOf(es, b), n)
    <2>1. ASSUME NEW i \in Nat, i <= n PROVE i \in ArgumentsOf(fs, b) <=> i \in ArgumentsOf(es, b)
        BY <1>1, <1>2, <2>1 DEF StreamPart!At, ArgumentsOf
    <2>2. ArgumentsOf(fs, b) \subseteq Nat /\ ArgumentsOf(es, b) \subseteq Nat
        BY <1>2 DEF StreamPart!At, ArgumentsOf
    <2> QED
        BY <2>1, <2>2 DEF UpTo
<1> QED
    BY <1>4, <1>5, <1>6, <1>7 DEF fs

\* Numbers put after numbers.
LEMMA NumbersNext ==
    ASSUME NEW n \in Nat
    PROVE  /\ Numbers(n) \in Seq(Nat) /\ Len(Numbers(n)) = n
           /\ Append(Numbers(n), n + 1) = Numbers(n + 1)
           /\ Numbers(n) \o <<n + 1>> = Numbers(n + 1) /\ Numbers(n) \o <<>> = Numbers(n)
<1>1. Numbers(n) \in [1..n -> Nat] /\ Numbers(n) \in Seq(Nat) /\ Len(Numbers(n)) = n
    BY DEF Numbers
<1>2. Append(Numbers(n), n + 1) = Numbers(n + 1)
    BY <1>1 DEF Numbers
<1>3. Numbers(n) \o <<n + 1>> = Append(Numbers(n), n + 1)
    BY <1>1
<1>4. Numbers(n) \o <<>> = Numbers(n)
    BY <1>1
<1> QED
    BY <1>1, <1>2, <1>3, <1>4

LEMMA NumbersPrefix ==
    ASSUME NEW m \in Nat, NEW n \in Nat, m <= n
    PROVE  StreamPart!IsPrefix(Numbers(m), Numbers(n))
<1>1. SubSeq(Numbers(m), 1, m) = Numbers(m) /\ SubSeq(Numbers(n), 1, m) = Numbers(m)
    BY NumbersNext DEF Numbers
<1> QED
    BY <1>1, NumbersNext DEF StreamPart!IsPrefix

LEMMA NoNumbers == Numbers(0) = <<>> /\ <<>> \in Seq(Nat) /\ Len(<<>>) = 0
    BY DEF Numbers

LEMMA EventIs ==
    ASSUME NEW e \in Event
    PROVE  /\ e.kind \in {"text", "part", "open", "stop"}
           /\ e.kind # "stop" => e.n \in Nat
           /\ e.kind = "open" => e.type \in BlockTypes
           /\ e.kind = "stop" <=> e = StreamPart!Stop
    BY DEF Event, StreamPart!Stop

\* What the parser reads next.
LEMMA NextOnWire ==
    ASSUME StreamTyped, OnWire, wire # <<>>
    PROVE  /\ Read \in Nat /\ Read + 1 \in 1..Len(sent) /\ DOMAIN sent = 1..Len(sent)
           /\ Head(wire) = sent[Read + 1] /\ Head(wire) \in Event
<1>1. Len(wire) \in Nat /\ Len(sent) \in Nat /\ Len(wire) > 0 /\ Len(wire) <= Len(sent) /\ Head(wire) = wire[1]
    BY DEF StreamTyped, OnWire
<1>2. Head(wire) = sent[Read + 1]
    BY <1>1 DEF OnWire
<1> QED
    BY <1>1, <1>2 DEF Read, StreamTyped

\* An opened block is new, a part is of a block that is there.
LEMMA BlockTaken ==
    ASSUME StreamTyped, EventsNumbered, OnWire, Parsed, wire # <<>>
    PROVE  LET e == Head(wire) IN
           /\ e.kind \in {"text", "stop"} => StreamPart!Taken(e) = blocks
           /\ e.kind = "open" => /\ e.n = Len(blocks)
                                 /\ StreamPart!Taken(e) = Append(blocks, [type |-> e.type, parts |-> 0])
           /\ e.kind = "part" => /\ e.n + 1 \in DOMAIN blocks
                                 /\ StreamPart!Taken(e) = [blocks EXCEPT ![e.n + 1].parts = @ + 1]
<1> DEFINE r == Read + 1
           P == StreamPart!At(sent, "open")
<1>1. PICK e : e = Head(wire)
    OBVIOUS
<1>2. Read \in Nat /\ r \in DOMAIN sent /\ e = sent[r] /\ e \in Event
    BY <1>1, NextOnWire
<1>3. Len(blocks) \in Nat /\ DOMAIN blocks = 1..Len(blocks) /\ api \in StreamPart!Apis
    BY DEF StreamTyped
<1>4. e.kind \in {"text", "part", "open", "stop"} /\ (e.kind # "stop" => e.n \in Nat)
    BY <1>2, EventIs
<1>5. CASE e.kind \in {"text", "stop"}
    BY <1>1, <1>5 DEF StreamPart!Taken, StreamPart!AnthropicBlocks, StreamPart!OpenAICalls
<1>6. CASE e.kind = "open"
    <2>1. \A i \in P : i \in Nat \ {0}
        BY Places DEF StreamTyped
    <2>2. r \in P
        BY <1>2, <1>6 DEF StreamPart!At
    <2>3. Cardinality(UpTo(P, r)) = Cardinality(UpTo(P, Read)) + 1 /\ Cardinality(UpTo(P, Read)) \in Nat
        <3> HIDE DEF P
        <3> QED
            BY <1>2, <2>1, <2>2, UpToNext
    <2>4. e.n = Len(blocks)
        BY <1>2, <1>6, <2>3 DEF EventsNumbered, Parsed, Opens
    <2>5. api = "openai" => e.type = "tool"
        BY <1>2, <1>6 DEF EventsNumbered
    <2>6. StreamPart!Taken(e) = Append(blocks, [type |-> e.type, parts |-> 0])
        BY <1>3, <1>6, <2>4, <2>5 DEF StreamPart!Taken, StreamPart!AnthropicBlocks, StreamPart!OpenAICalls, StreamPart!Apis
    <2> QED
        BY <1>1, <1>6, <2>4, <2>6
<1>7. CASE e.kind = "part"
    <2>1. PICK j \in P : j < r /\ sent[j].n = e.n
        BY <1>2, <1>7 DEF EventsNumbered
    <2>2. j \in Nat
        BY Places DEF StreamTyped
    <2>3. j \in Opens(sent, Read)
        BY <1>2, <2>1, <2>2 DEF Opens, UpTo
    <2>4. e.n + 1 \in DOMAIN blocks
        BY <2>1, <2>3 DEF Parsed
    <2>6. e.n < Len(blocks) /\ ~(e.n >= Len(blocks)) /\ e.kind # "open"
        BY <1>3, <1>4, <1>7, <2>4
    <2>7. StreamPart!AnthropicBlocks(e) = [blocks EXCEPT ![e.n + 1].parts = @ + 1]
        BY <1>7, <2>6 DEF StreamPart!AnthropicBlocks
    <2>8. StreamPart!OpenAICalls(e) = [blocks EXCEPT ![e.n + 1].parts = @ + 1]
        BY <1>7, <2>6 DEF StreamPart!OpenAICalls
    <2>5. StreamPart!Taken(e) = [blocks EXCEPT ![e.n + 1].parts = @ + 1]
        BY <2>7, <2>8 DEF StreamPart!Taken
    <2> QED
        BY <1>1, <1>7, <2>4, <2>5
<1> QED
    BY <1>1, <1>4, <1>5, <1>6, <1>7

LEMMA TailOnWire ==
    ASSUME StreamTyped, OnWire, wire # <<>>, sent' = sent, wire' = Tail(wire)
    PROVE  OnWire' /\ Read' = Read + 1 /\ wire' \in Seq(Event)
<1>1. /\ Len(wire) \in Nat /\ Len(sent) \in Nat /\ Len(wire) > 0 /\ Len(wire) <= Len(sent)
      /\ Len(wire') = Len(wire) - 1 /\ wire' \in Seq(Event)
      /\ \A i \in 1..Len(wire) - 1 : wire'[i] = wire[i + 1]
    BY DEF StreamTyped, OnWire
<1>2. Read' = Read + 1
    BY <1>1 DEF Read
<1>3. ASSUME NEW i \in 1..Len(wire') PROVE wire'[i] = sent'[Read' + i]
    <2>1. i + 1 \in 1..Len(wire) /\ Read + (i + 1) = Read' + i
        BY <1>1, <1>2 DEF Read
    <2>2. wire[i + 1] = sent[Read + (i + 1)]
        BY <2>1 DEF OnWire
    <2> QED
        BY <1>1, <2>1, <2>2
<1> QED
    BY <1>1, <1>2, <1>3 DEF OnWire

\* The pieces of text read so far.
LEMMA PiecesRead ==
    ASSUME StreamTyped, EventsNumbered, OnWire
    PROVE  /\ Read \in Nat /\ Count(sent, Read) \in Nat
           /\ wire # <<>> => LET e == Head(wire) IN
                /\ e.kind = "text" => /\ Count(sent, Read + 1) = Count(sent, Read) + 1
                                      /\ e.n = Count(sent, Read) + 1
                /\ e.kind # "text" => Count(sent, Read + 1) = Count(sent, Read)
<1> DEFINE P == StreamPart!At(sent, "text")
<1>1. Read \in Nat
    BY DEF Read, StreamTyped, OnWire
<1>2. \A i \in P : i \in Nat \ {0}
    BY Places DEF StreamTyped
<1>3. /\ Count(sent, Read) \in Nat
      /\ Read + 1 \in P => Count(sent, Read + 1) = Count(sent, Read) + 1
      /\ Read + 1 \notin P => Count(sent, Read + 1) = Count(sent, Read)
    <2> HIDE DEF P
    <2>1. Count(sent, Read) = Cardinality(UpTo(P, Read)) /\ Count(sent, Read + 1) = Cardinality(UpTo(P, Read + 1))
        BY DEF Count, P
    <2> QED
        BY <1>1, <1>2, <2>1, UpToNext
<1>4. ASSUME wire # <<>>
      PROVE  LET e == Head(wire) IN
             /\ e.kind = "text" <=> Read + 1 \in P
             /\ e.kind = "text" => e.n = Count(sent, Read + 1)
    BY <1>4, NextOnWire DEF StreamPart!At, EventsNumbered
<1> QED
    BY <1>1, <1>3, <1>4

\* What was among n events is among one more, and only the last of them is new.
LEMMA UpToGrows ==
    ASSUME NEW P, \A i \in P : i \in Nat \ {0}, NEW n \in Nat
    PROVE  /\ \A i \in UpTo(P, n) : i \in UpTo(P, n + 1)
           /\ \A i \in UpTo(P, n + 1) : i \in UpTo(P, n) \/ i = n + 1
           /\ n + 1 \in P => n + 1 \in UpTo(P, n + 1)
    BY DEF UpTo

LEMMA ReplacedIn ==
    ASSUME NEW S, NEW s \in Seq(S), NEW m \in DOMAIN s, NEW x \in S
    PROVE  LET t == [s EXCEPT ![m] = x] IN
           /\ t \in Seq(S) /\ Len(t) = Len(s) /\ DOMAIN t = DOMAIN s
           /\ \A k \in DOMAIN s : t[k] = IF k = m THEN x ELSE s[k]
    OBVIOUS

\* The blocks after one more event.
LEMMA ParsedNext ==
    ASSUME StreamTyped, EventsNumbered, OnWire, Parsed, wire # <<>>,
           sent' = sent, wire' = Tail(wire), blocks' = StreamPart!Taken(Head(wire))
    PROVE  Parsed' /\ blocks' \in Seq(Block)
<1> DEFINE r == Read + 1
           P == StreamPart!At(sent, "open")
           R(b) == ArgumentsOf(sent, b)
<1>1. PICK e : e = Head(wire)
    OBVIOUS
<1>2. Read \in Nat /\ r \in DOMAIN sent /\ e = sent[r] /\ e \in Event
    BY <1>1, NextOnWire
<1>3. Read' = r
    BY TailOnWire
<1>4. Len(blocks) \in Nat /\ DOMAIN blocks = 1..Len(blocks) /\ blocks \in Seq(Block)
    BY DEF StreamTyped
<1>5. e.kind \in {"text", "part", "open", "stop"} /\ (e.kind # "stop" => e.n \in Nat) /\ (e.kind = "open" => e.type \in BlockTypes)
    BY <1>2, EventIs
<1>6. (\A i \in P : i \in Nat \ {0}) /\ \A b : \A i \in R(b) : i \in Nat \ {0}
    BY Places DEF StreamTyped
<1>7. /\ e.kind = "open" <=> r \in P
      /\ \A b : r \in R(b) <=> e.kind = "part" /\ e.n = b
    BY <1>2 DEF StreamPart!At, ArgumentsOf
<1>8. /\ \A i \in UpTo(P, Read) : i \in UpTo(P, r)
      /\ \A i \in UpTo(P, r) : i \in UpTo(P, Read) \/ (i = r /\ r \in P)
      /\ r \in P => r \in UpTo(P, r) /\ Cardinality(UpTo(P, r)) = Cardinality(UpTo(P, Read)) + 1
      /\ r \notin P => UpTo(P, r) = UpTo(P, Read)
    <2> HIDE DEF P
    <2>1. \A i \in UpTo(P, r) : i \in P
        BY DEF UpTo
    <2> QED
        BY <1>2, <1>6, <2>1, UpToGrows, UpToNext
<1>9. \A b : /\ r \in R(b) => Cardinality(UpTo(R(b), r)) = Cardinality(UpTo(R(b), Read)) + 1
             /\ r \notin R(b) => UpTo(R(b), r) = UpTo(R(b), Read)
             /\ Cardinality(UpTo(R(b), Read)) \in Nat
    <2> TAKE b
    <2>1. PICK S : S = R(b)
        OBVIOUS
    <2>2. \A i \in S : i \in Nat \ {0}
        BY <1>6, <2>1
    <2> QED
        BY <1>2, <2>1, <2>2, UpToNext
<1>10. /\ Len(blocks) = Cardinality(UpTo(P, Read))
       /\ \A i \in UpTo(P, Read) : sent[i].n + 1 \in DOMAIN blocks /\ blocks[sent[i].n + 1].type = sent[i].type
       /\ \A k \in DOMAIN blocks : /\ blocks[k].parts = Cardinality(UpTo(R(k - 1), Read))
                                   /\ \E i \in UpTo(P, Read) : sent[i].n = k - 1
    BY DEF Parsed, Opens
<1>11. SUFFICES /\ Len(blocks') = Cardinality(UpTo(P, r))
                /\ \A i \in UpTo(P, r) : sent[i].n + 1 \in DOMAIN blocks' /\ blocks'[sent[i].n + 1].type = sent[i].type
                /\ \A k \in DOMAIN blocks' : /\ blocks'[k].parts = Cardinality(UpTo(R(k - 1), r))
                                             /\ \E i \in UpTo(P, r) : sent[i].n = k - 1
                /\ blocks' \in Seq(Block)
    BY <1>3 DEF Parsed, Opens
<1> HIDE DEF r, P, R
<1>12. CASE e.kind \in {"text", "stop"}
    <2>1. blocks' = blocks
        BY <1>1, <1>12, BlockTaken
    <2>2. r \notin P /\ \A b : r \notin R(b)
        BY <1>7, <1>12
    <2>3. UpTo(P, r) = UpTo(P, Read) /\ \A b : UpTo(R(b), r) = UpTo(R(b), Read)
        BY <1>8, <1>9, <2>2
    <2> QED
        BY <1>4, <1>10, <2>1, <2>3
<1>13. CASE e.kind = "open"
    <2> DEFINE new == [type |-> e.type, parts |-> 0]
    <2>1. e.n = Len(blocks) /\ blocks' = Append(blocks, new)
        BY <1>1, <1>13, BlockTaken
    <2>2. new \in Block /\ new.type = e.type /\ new.parts = 0
        BY <1>5, <1>13 DEF Block
    <2> HIDE DEF new
    <2>3. /\ blocks' \in Seq(Block) /\ Len(blocks') = Len(blocks) + 1
          /\ DOMAIN blocks' = 1..Len(blocks) + 1 /\ blocks'[Len(blocks) + 1] = new
          /\ \A k \in DOMAIN blocks : k \in DOMAIN blocks' /\ blocks'[k] = blocks[k]
        <3>1. /\ blocks' \in Seq(Block) /\ Len(blocks') = Len(blocks) + 1
              /\ blocks'[Len(blocks) + 1] = new /\ \A k \in 1..Len(blocks) : blocks'[k] = blocks[k]
            <4>1. PICK n : n = new
                OBVIOUS
            <4>2. n \in Block /\ blocks' = Append(blocks, n) /\ blocks \in Seq(Block)
                BY <1>4, <2>1, <2>2, <4>1
            <4>3. /\ Append(blocks, n) \in Seq(Block) /\ Len(Append(blocks, n)) = Len(blocks) + 1
                  /\ Append(blocks, n)[Len(blocks) + 1] = n
                  /\ \A k \in 1..Len(blocks) : Append(blocks, n)[k] = blocks[k]
                BY <4>2, AppendedLast
            <4> QED
                BY <4>1, <4>2, <4>3
        <3>2. DOMAIN blocks' = 1..Len(blocks')
            BY <3>1
        <3> QED
            BY <1>4, <3>1, <3>2
    <2>4. r \in P /\ r \in UpTo(P, r) /\ \A b : UpTo(R(b), r) = UpTo(R(b), Read)
        BY <1>7, <1>8, <1>9, <1>13
    <2>5. Len(blocks') = Cardinality(UpTo(P, r))
        BY <1>8, <1>10, <2>3, <2>4
    <2>6. ASSUME NEW i \in UpTo(P, r)
          PROVE  sent[i].n + 1 \in DOMAIN blocks' /\ blocks'[sent[i].n + 1].type = sent[i].type
        <3>1. CASE i \in UpTo(P, Read)
            BY <1>10, <2>3, <3>1
        <3>2. CASE i = r
            BY <1>2, <1>4, <2>1, <2>2, <2>3, <3>2
        <3> QED
            BY <1>8, <3>1, <3>2
    <2>7. ASSUME NEW k \in DOMAIN blocks'
          PROVE  /\ blocks'[k].parts = Cardinality(UpTo(R(k - 1), r))
                 /\ \E i \in UpTo(P, r) : sent[i].n = k - 1
        <3>1. CASE k \in DOMAIN blocks
            BY <1>8, <1>10, <2>3, <2>4, <3>1
        <3>2. CASE k = Len(blocks) + 1
            <4>1. k - 1 = e.n /\ sent[r].n = k - 1
                BY <1>2, <1>4, <2>1, <3>2
            <4>2. ASSUME NEW i \in UpTo(R(k - 1), Read) PROVE FALSE
                <5>1. i \in DOMAIN sent /\ sent[i].kind = "part" /\ sent[i].n = k - 1 /\ i <= Read /\ i \in Nat
                    BY <1>6, <4>2 DEF UpTo, R, ArgumentsOf, StreamPart!At
                <5>2. PICK j \in P : j < i /\ sent[j].n = k - 1
                    BY <5>1 DEF EventsNumbered, P
                <5>3. j \in UpTo(P, Read)
                    BY <1>2, <1>6, <5>1, <5>2 DEF UpTo
                <5>4. k - 1 + 1 \in DOMAIN blocks
                    BY <1>10, <5>2, <5>3
                <5> QED
                    BY <1>4, <3>2, <5>4
            <4>3. UpTo(R(k - 1), Read) = {}
                BY <4>2
            <4>4. Cardinality(UpTo(R(k - 1), r)) = 0
                BY <2>4, <4>3, FS_EmptySet
            <4> QED
                BY <2>2, <2>3, <2>4, <3>2, <4>1, <4>4
        <3> QED
            BY <1>4, <2>3, <3>1, <3>2
    <2> QED
        BY <2>3, <2>5, <2>6, <2>7
<1>14. CASE e.kind = "part"
    <2> DEFINE m == e.n + 1
    <2>1. m \in DOMAIN blocks /\ blocks' = [blocks EXCEPT ![m].parts = @ + 1]
        BY <1>1, <1>14, BlockTaken
    <2>2. m - 1 = e.n /\ m \in Nat
        BY <1>5, <1>14
    <2> HIDE DEF m
    <2>3. /\ DOMAIN blocks' = DOMAIN blocks /\ \A k \in DOMAIN blocks : blocks'[k].type = blocks[k].type
          /\ \A k \in DOMAIN blocks : blocks'[k].parts = IF k = m THEN blocks[k].parts + 1 ELSE blocks[k].parts
          /\ blocks' \in Seq(Block) /\ Len(blocks') = Len(blocks)
        <3>1. \A k \in DOMAIN blocks : blocks[k] \in Block
            BY <1>4
        <3>2. PICK new : new = [blocks[m] EXCEPT !.parts = @ + 1]
            OBVIOUS
        <3>3. new \in Block /\ new.type = blocks[m].type /\ new.parts = blocks[m].parts + 1
            BY <2>1, <3>1, <3>2 DEF Block
        <3>4. blocks' = [blocks EXCEPT ![m] = new]
            BY <2>1, <3>2
        <3>5. /\ blocks' \in Seq(Block) /\ Len(blocks') = Len(blocks) /\ DOMAIN blocks' = DOMAIN blocks
              /\ \A k \in DOMAIN blocks : blocks'[k] = IF k = m THEN new ELSE blocks[k]
            BY <1>4, <2>1, <3>3, <3>4, ReplacedIn
        <3> QED
            BY <3>3, <3>5
    <2>4. r \notin P /\ UpTo(P, r) = UpTo(P, Read)
        BY <1>7, <1>8, <1>14
    <2>5. ASSUME NEW k \in DOMAIN blocks' PROVE blocks'[k].parts = Cardinality(UpTo(R(k - 1), r))
        <3>0. k \in Nat /\ k \in DOMAIN blocks /\ blocks[k].parts = Cardinality(UpTo(R(k - 1), Read))
            BY <1>4, <1>10, <2>3
        <3>1. r \in R(k - 1) <=> k = m
            BY <1>7, <1>14, <2>2, <3>0
        <3>2. CASE k = m
            <4>1. Cardinality(UpTo(R(k - 1), r)) = Cardinality(UpTo(R(k - 1), Read)) + 1
                BY <1>9, <3>1, <3>2
            <4> QED
                BY <2>3, <3>0, <3>2, <4>1
        <3>3. CASE k # m
            <4>1. UpTo(R(k - 1), r) = UpTo(R(k - 1), Read)
                BY <1>9, <3>1, <3>3
            <4> QED
                BY <2>3, <3>0, <3>3, <4>1
        <3> QED
            BY <3>2, <3>3
    <2>6. ASSUME NEW k \in DOMAIN blocks' PROVE \E i \in UpTo(P, r) : sent[i].n = k - 1
        BY <1>10, <2>3, <2>4
    <2>7. ASSUME NEW i \in UpTo(P, r)
          PROVE  sent[i].n + 1 \in DOMAIN blocks' /\ blocks'[sent[i].n + 1].type = sent[i].type
        BY <1>10, <2>3, <2>4
    <2> QED
        BY <1>10, <2>3, <2>4, <2>5, <2>6, <2>7
<1> QED
    BY <1>5, <1>12, <1>13, <1>14

\* What the parser has collected when it has read everything before the end are the calls the message makes.
LEMMA CollectedIsCalls ==
    ASSUME StreamTyped, EventsNumbered, OnWire, Parsed, \A i \in DOMAIN sent : i > Read => sent[i].kind = "stop"
    PROVE  StreamPart!Collected = StreamPart!CallsOf(sent)
<1> DEFINE mine  == {i \in DOMAIN blocks : blocks[i].type = "tool"}
           tools == {sent[i].n : i \in {j \in StreamPart!At(sent, "open") : sent[j].type = "tool"}}
<1>1. /\ Opens(sent, Read) = StreamPart!At(sent, "open") /\ \A b : UpTo(ArgumentsOf(sent, b), Read) = ArgumentsOf(sent, b)
      /\ DOMAIN blocks = 1..Len(blocks) /\ Len(blocks) \in Nat
    <2>1. sent \in Seq(Event) /\ blocks \in Seq(Block)
        BY DEF StreamTyped
    <2>2. Read \in Nat /\ Len(sent) \in Nat /\ DOMAIN sent = 1..Len(sent)
        BY <2>1 DEF OnWire, Read, StreamTyped
    <2>3. ASSUME NEW i \in DOMAIN sent, sent[i].kind # "stop" PROVE i <= Read
        BY <2>2, <2>3
    <2>4. UpTo(StreamPart!At(sent, "open"), Read) = StreamPart!At(sent, "open")
        BY <2>3 DEF UpTo, StreamPart!At
    <2>5. \A b : UpTo(ArgumentsOf(sent, b), Read) = ArgumentsOf(sent, b)
        BY <2>3 DEF UpTo, ArgumentsOf, StreamPart!At
    <2> QED
        BY <2>1, <2>4, <2>5 DEF Opens
<1>2. ASSUME NEW n \in {i - 1 : i \in mine} PROVE n \in tools /\ blocks[n + 1].parts = Cardinality({i \in StreamPart!At(sent, "part") : sent[i].n = n})
    <2>1. PICK k \in mine : n = k - 1
        OBVIOUS
    <2>2. k \in DOMAIN blocks /\ blocks[k].type = "tool" /\ n + 1 = k
        BY <1>1, <2>1
    <2>3. PICK j \in StreamPart!At(sent, "open") : sent[j].n = n
        BY <1>1, <2>1, <2>2 DEF Parsed
    <2>4. sent[j].type = "tool"
        BY <1>1, <2>2, <2>3 DEF Parsed
    <2>5. blocks[k].parts = Cardinality(ArgumentsOf(sent, n))
        BY <1>1, <2>1, <2>2 DEF Parsed
    <2> QED
        BY <2>2, <2>3, <2>4, <2>5 DEF ArgumentsOf
<1>3. ASSUME NEW n \in tools PROVE n \in {i - 1 : i \in mine}
    <2>1. PICK j \in StreamPart!At(sent, "open") : sent[j].type = "tool" /\ sent[j].n = n
        OBVIOUS
    <2>2. n + 1 \in DOMAIN blocks /\ blocks[n + 1].type = "tool"
        BY <1>1, <2>1 DEF Parsed
    <2>3. n \in Nat
        <3>1. sent[j] \in Event /\ sent[j].kind = "open"
            BY DEF StreamPart!At, StreamTyped
        <3> QED
            BY <2>1, <3>1, EventIs
    <2> QED
        BY <2>2, <2>3
<1>4. {i - 1 : i \in mine} = tools
    BY <1>2, <1>3
<1>5. StreamPart!Collected = [n \in {i - 1 : i \in mine} |-> blocks[n + 1].parts]
    BY DEF StreamPart!Collected
<1>6. StreamPart!CallsOf(sent) = [n \in tools |-> Cardinality({i \in StreamPart!At(sent, "part") : sent[i].n = n})]
    BY StreamCountsAlike DEF StreamPart!CallsOf
<1> HIDE DEF mine, tools
<1> QED
    BY <1>2, <1>4, <1>5, <1>6

\* What the server may send.
LEMMA SendsEvent ==
    ASSUME StreamTyped, NEW e \in StreamPart!NextEvents \cup {StreamPart!Stop}
    PROVE  /\ e \in Event
           /\ e.kind = "text" => e.n = Cardinality(StreamPart!At(sent, "text")) + 1
           /\ e.kind = "open" => /\ e.n = Cardinality(StreamPart!At(sent, "open"))
                                 /\ api = "openai" => e.type = "tool"
           /\ e.kind = "part" => \E j \in StreamPart!At(sent, "open") : sent[j].n = e.n
<1>1. ASSUME NEW k PROVE Cardinality(StreamPart!At(sent, k)) \in Nat
    <2>1. PICK P : P = StreamPart!At(sent, k)
        OBVIOUS
    <2>2. (\A i \in P : i \in Nat \ {0}) /\ UpTo(P, Len(sent)) = P /\ Len(sent) \in Nat
        BY <2>1, Places DEF StreamTyped
    <2> QED
        BY <2>1, <2>2, UpToNext
<1>2. CASE e = StreamPart!Text(Cardinality(StreamPart!At(sent, "text")) + 1)
    BY <1>1, <1>2 DEF StreamPart!Text, Event
<1>3. CASE \E t \in StreamPart!Types : e = StreamPart!Open(StreamPart!Opened, t)
    <2>1. PICK t \in StreamPart!Types : e = StreamPart!Open(StreamPart!Opened, t)
        BY <1>3
    <2>2. t \in BlockTypes /\ (api = "openai" => t = "tool")
        BY DEF StreamPart!Types, BlockTypes
    <2> QED
        BY <1>1, <2>1, <2>2, StreamCountsAlike DEF StreamPart!Open, StreamPart!Opened, Event
<1>4. CASE \E b \in StreamPart!Latest : e = StreamPart!Part(b.n)
    <2>1. PICK i \in StreamPart!At(sent, "open") : e = StreamPart!Part(sent[i].n)
        BY <1>4 DEF StreamPart!Latest
    <2>2. sent[i] \in Event /\ sent[i].kind = "open"
        BY DEF StreamPart!At, StreamTyped
    <2>3. sent[i].n \in Nat
        BY <2>2, EventIs
    <2> QED
        BY <2>1, <2>3 DEF StreamPart!Part, Event
<1>5. CASE e = StreamPart!Stop
    BY <1>5 DEF Event, StreamPart!Stop
<1> QED
    BY <1>2, <1>3, <1>4, <1>5, StreamCountsAlike DEF StreamPart!NextEvents

\* One more event is sent: what was read stays read.
LEMMA EmitKeeps ==
    ASSUME StreamTyped, EventsNumbered, OnWire, Parsed, StreamPart!Emit
    PROVE  /\ sent' \in Seq(Event) /\ wire' \in Seq(Event) /\ EventsNumbered' /\ OnWire' /\ Parsed'
           /\ Read' = Read /\ Count(sent', Read') = Count(sent, Read)
<1>1. PICK e \in StreamPart!NextEvents \cup {StreamPart!Stop} : sent' = Append(sent, e) /\ wire' = Append(wire, e)
    BY DEF StreamPart!Emit
<1>2. e \in Event /\ sent \in Seq(Event) /\ wire \in Seq(Event) /\ Len(sent) \in Nat /\ Len(wire) \in Nat
    BY SendsEvent DEF StreamTyped
<1>3. /\ sent' \in Seq(Event) /\ Len(sent') = Len(sent) + 1 /\ sent'[Len(sent) + 1] = e
      /\ \A i \in 1..Len(sent) : sent'[i] = sent[i]
    <2>1. /\ Append(sent, e) \in Seq(Event) /\ Len(Append(sent, e)) = Len(sent) + 1
          /\ Append(sent, e)[Len(sent) + 1] = e /\ \A i \in 1..Len(sent) : Append(sent, e)[i] = sent[i]
        BY <1>2, AppendedLast
    <2> QED
        BY <1>1, <2>1
<1>4. /\ wire' \in Seq(Event) /\ Len(wire') = Len(wire) + 1 /\ wire'[Len(wire) + 1] = e
      /\ \A i \in 1..Len(wire) : wire'[i] = wire[i]
    <2>1. /\ Append(wire, e) \in Seq(Event) /\ Len(Append(wire, e)) = Len(wire) + 1
          /\ Append(wire, e)[Len(wire) + 1] = e /\ \A i \in 1..Len(wire) : Append(wire, e)[i] = wire[i]
        BY <1>2, AppendedLast
    <2> QED
        BY <1>1, <2>1
<1>5. Read' = Read /\ Read \in 0..Len(sent) /\ Len(wire) <= Len(sent)
    BY <1>2, <1>3, <1>4 DEF Read, OnWire
<1>6. DOMAIN sent = 1..Len(sent) /\ DOMAIN sent' = 1..Len(sent) + 1
    BY <1>2, <1>3
<1>7. OnWire'
    <2>1. ASSUME NEW i \in 1..Len(wire') PROVE wire'[i] = sent'[Read' + i]
        <3>1. CASE i \in 1..Len(wire)
            <4>1. Read + i \in 1..Len(sent) /\ wire[i] = sent[Read + i]
                BY <1>2, <1>5, <3>1 DEF OnWire, Read
            <4> QED
                BY <1>3, <1>4, <1>5, <3>1, <4>1
        <3>2. CASE i = Len(wire) + 1
            <4>1. Read + i = Len(sent) + 1
                BY <1>2, <3>2 DEF Read
            <4> QED
                BY <1>3, <1>4, <1>5, <3>2, <4>1
        <3> QED
            BY <1>2, <1>4, <3>1, <3>2
    <2> QED
        BY <1>2, <1>3, <1>4, <1>5, <2>1 DEF OnWire
<1>8. /\ \A k : \A n \in 0..Len(sent) : UpTo(StreamPart!At(sent', k), n) = UpTo(StreamPart!At(sent, k), n)
      /\ \A b : \A n \in 0..Len(sent) : UpTo(ArgumentsOf(sent', b), n) = UpTo(ArgumentsOf(sent, b), n)
      /\ \A k : e.kind = k => StreamPart!At(sent', k) = StreamPart!At(sent, k) \cup {Len(sent) + 1}
    BY <1>1, <1>2, PlacesAppended
<1>9. Count(sent', Read') = Count(sent, Read)
    BY <1>5, <1>8 DEF Count
<1>10. Parsed'
    <2>1. blocks' = blocks /\ Opens(sent', Read') = Opens(sent, Read)
        BY <1>5, <1>8 DEF StreamPart!Emit, Opens
    <2>2. \A k : UpTo(ArgumentsOf(sent', k - 1), Read') = UpTo(ArgumentsOf(sent, k - 1), Read)
        BY <1>5, <1>8
    <2>3. \A i \in Opens(sent, Read) : i \in 1..Len(sent)
        BY <1>2, Places DEF Opens, UpTo
    <2>4. \A i \in Opens(sent, Read) : sent'[i] = sent[i]
        BY <1>3, <2>3
    <2> QED
        BY <2>1, <2>2, <2>4 DEF Parsed
<1>11. EventsNumbered'
    <2> DEFINE l == Len(sent) + 1
    <2>1. ASSUME NEW i \in 1..Len(sent)
          PROVE  /\ sent'[i].kind = "text" => sent'[i].n = Count(sent', i)
                 /\ sent'[i].kind = "open" => /\ sent'[i].n = Cardinality(Opens(sent', i)) - 1
                                              /\ api = "openai" => sent'[i].type = "tool"
                 /\ sent'[i].kind = "part" => \E j \in StreamPart!At(sent', "open") : j < i /\ sent'[j].n = sent'[i].n
                 /\ sent'[i].kind # "stop"
        <3>1. sent'[i] = sent[i] /\ i \in DOMAIN sent
            BY <1>3, <1>6
        <3>2. Count(sent', i) = Count(sent, i) /\ Opens(sent', i) = Opens(sent, i)
            BY <1>2, <1>8 DEF Count, Opens
        <3>3. sent[i].kind # "stop"
            BY <3>1 DEF StreamPart!Emit, StreamPart!Ended, StreamPart!At
        <3>4. ASSUME sent[i].kind = "part"
              PROVE  \E j \in StreamPart!At(sent', "open") : j < i /\ sent'[j].n = sent'[i].n
            <4>1. PICK j \in StreamPart!At(sent, "open") : j < i /\ sent[j].n = sent[i].n
                BY <3>1, <3>4 DEF EventsNumbered
            <4>2. j \in 1..Len(sent)
                BY <1>2, Places
            <4>3. sent'[j] = sent[j] /\ j \in StreamPart!At(sent', "open")
                BY <1>3, <1>6, <4>1, <4>2 DEF StreamPart!At
            <4> QED
                BY <3>1, <4>1, <4>3
        <3> QED
            BY <3>1, <3>2, <3>3, <3>4 DEF EventsNumbered
    <2>2. ASSUME NEW k, e.kind = k
          PROVE  Cardinality(UpTo(StreamPart!At(sent', k), l)) = Cardinality(StreamPart!At(sent, k)) + 1 /\ Cardinality(StreamPart!At(sent, k)) \in Nat
        <3>1. PICK P : P = StreamPart!At(sent', k)
            OBVIOUS
        <3>2. l \in P /\ (\A i \in P : i \in Nat \ {0}) /\ UpTo(P, Len(sent)) = StreamPart!At(sent, k)
            BY <1>2, <1>3, <1>8, <2>2, <3>1, Places
        <3> QED
            BY <1>2, <3>1, <3>2, UpToNext
    <2>3. /\ e.kind = "text" => e.n = Cardinality(StreamPart!At(sent, "text")) + 1
          /\ e.kind = "open" => e.n = Cardinality(StreamPart!At(sent, "open")) /\ (api = "openai" => e.type = "tool")
          /\ e.kind = "part" => \E j \in StreamPart!At(sent, "open") : sent[j].n = e.n
        BY SendsEvent
    <2>4. /\ sent'[l].kind = "text" => sent'[l].n = Count(sent', l)
          /\ sent'[l].kind = "open" => /\ sent'[l].n = Cardinality(Opens(sent', l)) - 1
                                       /\ api = "openai" => sent'[l].type = "tool"
        BY <1>3, <2>2, <2>3 DEF Count, Opens
    <2>5. ASSUME e.kind = "part" PROVE \E j \in StreamPart!At(sent', "open") : j < l /\ sent'[j].n = sent'[l].n
        <3>1. PICK j \in StreamPart!At(sent, "open") : sent[j].n = e.n
            BY <2>3, <2>5
        <3>2. j \in 1..Len(sent)
            BY <1>2, Places
        <3>3. sent'[j] = sent[j] /\ j \in StreamPart!At(sent', "open") /\ j < l
            BY <1>2, <1>3, <1>6, <3>1, <3>2 DEF StreamPart!At
        <3> QED
            BY <1>3, <3>1, <3>3
    <2>6. ASSUME NEW i \in DOMAIN sent' PROVE i \in 1..Len(sent) \/ i = l
        BY <1>2, <1>6
    <2>7. api' = api
        BY DEF StreamPart!Emit
    <2> HIDE DEF l
    <2> QED
        BY <1>3, <2>1, <2>4, <2>5, <2>6, <2>7 DEF EventsNumbered, l
<1> QED
    BY <1>3, <1>4, <1>5, <1>7, <1>9, <1>10, <1>11

LEMMA ChunkIs ==
    ASSUME NEW c \in Chunk
    PROVE  c.text \in Seq(Nat) /\ c.done \in BOOLEAN /\ c.calls \in CallSets
    BY DEF Chunk

LEMMA NoChunks == \A n, c : Carries(<<>>, n, c) /\ ~Told(<<>>) /\ Pieces(<<>>) = 0
    BY DEF Carries, Told, Pieces

\* How many pieces are on a channel.
LEMMA PiecesOn ==
    ASSUME NEW q \in Seq(Chunk), NEW n, NEW c, Carries(q, n, c)
    PROVE  /\ Pieces(q) \in Nat /\ Len(q) \in Nat /\ (~Told(q) => Pieces(q) = Len(q))
           /\ Pieces(q) > 0 => q # <<>>
<1>1. Len(q) \in Nat /\ DOMAIN q = 1..Len(q) /\ (q = <<>> => Len(q) = 0)
    OBVIOUS
<1>2. Told(q) => Len(q) \in 1..Len(q)
    BY <1>1 DEF Told, Carries
<1>3. CASE Told(q)
    BY <1>1, <1>2, <1>3 DEF Pieces
<1>4. CASE ~Told(q)
    BY <1>1, <1>4 DEF Pieces
<1> QED
    BY <1>3, <1>4

\* A chunk is taken from a channel.
LEMMA TailCarries ==
    ASSUME NEW q \in Seq(Chunk), NEW n \in Nat, NEW c, Carries(q, n, c), q # <<>>
    PROVE  /\ Head(q) \in Chunk /\ Tail(q) \in Seq(Chunk) /\ Len(Tail(q)) = Len(q) - 1
           /\ ~Head(q).done => /\ Head(q).text = <<n + 1>> /\ Carries(Tail(q), n + 1, c)
                               /\ Pieces(q) = Pieces(Tail(q)) + 1 /\ (Told(Tail(q)) <=> Told(q))
           /\ Head(q).done => /\ Head(q).text = <<>> /\ Head(q).calls = c /\ Tail(q) = <<>>
                              /\ Pieces(q) = 0 /\ Told(q)
<1> DEFINE l == Len(q)
<1>1. PICK t : t = Tail(q)
    OBVIOUS
<1>2. PICK h : h = Head(q)
    OBVIOUS
<1>3. /\ l \in Nat /\ l > 0 /\ DOMAIN q = 1..l /\ h = q[1] /\ h \in Chunk /\ t \in Seq(Chunk) /\ Len(t) = l - 1
      /\ DOMAIN t = 1..l - 1 /\ \A i \in 1..l - 1 : t[i] = q[i + 1]
    BY <1>1, <1>2
<1>4. h.done \in BOOLEAN /\ 1 \in DOMAIN q
    BY <1>3, ChunkIs
<1> HIDE DEF l
<1>5. CASE ~h.done
    <2>1. h.text = <<n + 1>>
        BY <1>3, <1>4, <1>5 DEF Carries
    <2>2. ASSUME NEW i \in DOMAIN t
          PROVE  /\ ~t[i].done => t[i].text = <<n + 1 + i>>
                 /\ t[i].done => i = Len(t) /\ t[i].text = <<>> /\ t[i].calls = c
        <3>1. i + 1 \in DOMAIN q /\ t[i] = q[i + 1] /\ n + (i + 1) = n + 1 + i
            BY <1>3
        <3>2. ~q[i + 1].done => q[i + 1].text = <<n + (i + 1)>>
            BY <3>1 DEF Carries
        <3>3. q[i + 1].done => i + 1 = l /\ q[i + 1].text = <<>> /\ q[i + 1].calls = c
            BY <3>1 DEF Carries, l
        <3> QED
            BY <1>3, <3>1, <3>2, <3>3
    <2>3. Told(t) <=> Told(q)
        <3>1. ASSUME NEW i \in DOMAIN t PROVE i + 1 \in DOMAIN q /\ t[i] = q[i + 1]
            BY <1>3
        <3>2. ASSUME NEW i \in DOMAIN q, q[i].done PROVE i - 1 \in DOMAIN t /\ t[i - 1] = q[i]
            <4>1. i # 1
                BY <1>3, <1>5, <3>2
            <4> QED
                BY <1>3, <4>1
        <3> QED
            BY <3>1, <3>2 DEF Told
    <2>4. Pieces(q) = Pieces(t) + 1
        BY <1>3, <2>3 DEF Pieces, l
    <2> QED
        BY <1>1, <1>2, <1>3, <1>5, <2>1, <2>2, <2>3, <2>4 DEF Carries, l
<1>6. CASE h.done
    <2>1. 1 = l /\ h.text = <<>> /\ h.calls = c
        BY <1>3, <1>4, <1>6 DEF Carries, l
    <2>2. Told(q) /\ Pieces(q) = 0
        BY <1>3, <1>4, <1>6, <2>1 DEF Told, Pieces, l
    <2>3. t = <<>>
        BY <1>3, <2>1
    <2> QED
        BY <1>1, <1>2, <1>3, <1>6, <2>1, <2>2, <2>3 DEF l
<1> QED
    BY <1>2, <1>4, <1>5, <1>6

\* A chunk is put on a channel that has not told the end.
LEMMA AppendCarries ==
    ASSUME NEW q \in Seq(Chunk), NEW n \in Nat, NEW c, Carries(q, n, c), ~Told(q), NEW x \in Chunk,
           IF x.done THEN x.text = <<>> /\ x.calls = c ELSE x.text = <<n + Len(q) + 1>>
    PROVE  /\ Append(q, x) \in Seq(Chunk) /\ Len(Append(q, x)) = Len(q) + 1
           /\ Carries(Append(q, x), n, c) /\ (Told(Append(q, x)) <=> x.done)
           /\ Pieces(q) = Len(q) /\ Pieces(Append(q, x)) = IF x.done THEN Len(q) ELSE Len(q) + 1
<1> DEFINE l == Len(q)
<1>1. PICK t : t = Append(q, x)
    OBVIOUS
<1>2. t \in Seq(Chunk) /\ Len(t) = l + 1 /\ t[l + 1] = x /\ \A i \in 1..l : t[i] = q[i]
    BY <1>1, AppendedLast
<1>3. l \in Nat /\ DOMAIN q = 1..l /\ DOMAIN t = 1..l + 1 /\ x.done \in BOOLEAN
    BY <1>2, ChunkIs
<1> HIDE DEF l
<1>4. \A i \in 1..l : ~t[i].done /\ t[i].text = <<n + i>>
    BY <1>2, <1>3 DEF Carries, Told
<1>5. ASSUME NEW i \in DOMAIN t PROVE i \in 1..l \/ i = l + 1
    BY <1>3
<1>6. Told(t) <=> x.done
    <2>1. l + 1 \in DOMAIN t
        BY <1>3
    <2> QED
        BY <1>2, <1>4, <1>5, <2>1 DEF Told
<1>7. n + l + 1 = n + (l + 1)
    BY <1>3
<1>8. ASSUME NEW i \in DOMAIN t
      PROVE  /\ ~t[i].done => t[i].text = <<n + i>>
             /\ t[i].done => i = Len(t) /\ t[i].text = <<>> /\ t[i].calls = c
    <2>1. CASE i \in 1..l
        BY <1>4, <2>1
    <2>2. CASE i = l + 1
        BY <1>2, <1>7, <2>2 DEF l
    <2> QED
        BY <1>5, <2>1, <2>2
<1>9. Pieces(t) = IF x.done THEN l ELSE l + 1
    BY <1>2, <1>3, <1>6 DEF Pieces
<1>10. Pieces(q) = l
    BY DEF Pieces, l
<1> QED
    BY <1>1, <1>2, <1>6, <1>8, <1>9, <1>10 DEF Carries, l

LEMMA CollectedIsCallSet ==
    ASSUME StreamTyped
    PROVE  StreamPart!Collected \in CallSets
<1> DEFINE mine == {i \in DOMAIN blocks : blocks[i].type = "tool"}
           T == {i - 1 : i \in mine}
<1>1. ASSUME NEW i \in DOMAIN blocks PROVE i \in Nat \ {0} /\ blocks[i].parts \in Nat
    <2>1. blocks \in Seq(Block)
        BY DEF StreamTyped
    <2>2. blocks[i] \in Block /\ i \in Nat \ {0}
        BY <2>1
    <2> QED
        BY <2>2 DEF Block
<1>2. ASSUME NEW n \in T PROVE n \in Nat /\ blocks[n + 1].parts \in Nat
    <2>1. PICK i \in mine : n = i - 1
        OBVIOUS
    <2>2. n + 1 = i /\ n \in Nat
        BY <1>1, <2>1
    <2> QED
        BY <1>1, <2>2
<1>3. StreamPart!Collected = [n \in T |-> blocks[n + 1].parts]
    BY DEF StreamPart!Collected
<1> HIDE DEF mine, T
<1>4. StreamPart!Collected \in [T -> Nat] /\ T \in SUBSET Nat
    BY <1>2, <1>3
<1> QED
    BY <1>4 DEF CallSets

LEMMA NoCalls == <<>> \in CallSets
<1>1. <<>> \in [{} -> Nat] /\ {} \in SUBSET Nat
    OBVIOUS
<1> QED
    BY <1>1 DEF CallSets

LEMMA Unread ==
    ASSUME EventsNumbered, OnWire, Parsed, api' = api, sent' = sent, wire' = wire, blocks' = blocks
    PROVE  EventsNumbered' /\ OnWire' /\ Parsed' /\ Read' = Read
    BY DEF EventsNumbered, OnWire, Parsed, Read

LEMMA EmitSound == ASSUME StreamInv, StreamPart!Emit PROVE StreamInv'
<1>1. /\ StreamTyped /\ EventsNumbered /\ OnWire /\ Parsed /\ Chatting
      /\ phase = "stream" => Streaming
    BY DEF StreamInv
<1>2. /\ sent' \in Seq(Event) /\ wire' \in Seq(Event) /\ EventsNumbered' /\ OnWire' /\ Parsed'
      /\ Read' = Read /\ Count(sent', Read') = Count(sent, Read)
    BY <1>1, EmitKeeps
<1>3. /\ UNCHANGED <<api, phase, connection, cancelled, blocks, content, result, chunks, streaming, full,
                    out, relaying, shown, last, reading, stored>>
      /\ phase \in {"chat", "stream"} /\ ~StreamPart!Ended(sent)
    BY DEF StreamPart!Emit, StreamPart!ends
<1>4. StreamTyped'
    BY <1>1, <1>2, <1>3 DEF StreamTyped
<1>5. Chatting'
    BY <1>1, <1>2, <1>3 DEF Chatting
<1>6. ASSUME phase' = "stream" PROVE Streaming'
    <2>1. Streaming
        BY <1>1, <1>3, <1>6
    <2>2. ~AllRead
        BY <1>3 DEF AllRead
    <2>3. ~Told(chunks) /\ ~Told(out) /\ last = StreamPart!Nothing
        BY <2>1, <2>2 DEF Streaming
    <2>4. \A c : Carries(chunks, Len(full), c) /\ Carries(out, Len(shown), c)
        BY <2>1, <2>3 DEF Streaming, Carries, Told
    <2> QED
        BY <1>2, <1>3, <2>1, <2>3, <2>4 DEF Streaming, AllRead
<1> QED
    BY <1>2, <1>4, <1>5, <1>6 DEF StreamInv

LEMMA EndsSound == ASSUME StreamInv, StreamPart!Hangup \/ StreamPart!Cancel PROVE StreamInv'
<1>1. /\ StreamTyped /\ EventsNumbered /\ OnWire /\ Parsed /\ Chatting
      /\ phase = "stream" => Streaming
    BY DEF StreamInv
<1>2. /\ UNCHANGED <<api, phase, sent, wire, blocks, content, result, chunks, streaming, full,
                    out, relaying, shown, last, reading, stored>>
      /\ connection' \in {"open", "ended", "broken"} /\ cancelled' \in BOOLEAN /\ (cancelled => cancelled')
    BY <1>1 DEF StreamPart!Hangup, StreamPart!Cancel, StreamPart!ends, StreamTyped
<1>3. EventsNumbered' /\ OnWire' /\ Parsed' /\ Read' = Read
    BY <1>1, <1>2, Unread
<1>4. StreamTyped' /\ Chatting'
    BY <1>1, <1>2, <1>3 DEF StreamTyped, Chatting
<1>5. Streaming => Streaming'
    BY <1>2, <1>3 DEF Streaming, AllRead
<1> QED
    BY <1>1, <1>2, <1>3, <1>4, <1>5 DEF StreamInv

LEMMA ChatReadsSound == ASSUME StreamInv, StreamPart!ChatReads PROVE StreamInv'
<1>1. StreamTyped /\ EventsNumbered /\ OnWire /\ Parsed /\ Chatting
    BY DEF StreamInv
<1>2. /\ phase = "chat" /\ wire # <<>> /\ wire' = Tail(wire) /\ blocks' = StreamPart!Taken(Head(wire))
      /\ content' = IF Head(wire).kind = "text" THEN Append(content, Head(wire).n) ELSE content
      /\ connection' \in {connection, "ended"}
      /\ UNCHANGED <<api, phase, sent, cancelled, result, chunks, streaming, full,
                    out, relaying, shown, last, reading, stored>>
    BY DEF StreamPart!ChatReads, StreamPart!ends
<1>3. OnWire' /\ Parsed' /\ Read' = Read + 1 /\ wire' \in Seq(Event) /\ blocks' \in Seq(Block)
    BY <1>1, <1>2, TailOnWire, ParsedNext
<1>4. EventsNumbered'
    BY <1>1, <1>2 DEF EventsNumbered
<1>5. content' = Numbers(Count(sent, Read + 1)) /\ content' \in Seq(Nat)
    <2>1. content = Numbers(Count(sent, Read)) /\ Count(sent, Read) \in Nat
        BY <1>1, <1>2, PiecesRead DEF Chatting
    <2>2. CASE Head(wire).kind = "text"
        <3>1. Count(sent, Read + 1) = Count(sent, Read) + 1 /\ Head(wire).n = Count(sent, Read) + 1
            BY <1>1, <1>2, <2>2, PiecesRead
        <3>2. content' = Append(Numbers(Count(sent, Read)), Count(sent, Read) + 1)
            BY <1>2, <2>1, <2>2, <3>1
        <3>3. PICK n : n = Count(sent, Read)
            OBVIOUS
        <3>4. n \in Nat /\ content' = Append(Numbers(n), n + 1) /\ Count(sent, Read + 1) = n + 1
            BY <2>1, <3>1, <3>2, <3>3
        <3>5. content' = Numbers(n + 1)
            BY <3>4, NumbersNext
        <3>6. n + 1 \in Nat /\ Numbers(n + 1) \in Seq(Nat)
            <4>1. PICK m : m = n + 1
                OBVIOUS
            <4>2. m \in Nat
                BY <3>4, <4>1
            <4> QED
                BY <4>1, <4>2, NumbersNext
        <3> QED
            BY <3>4, <3>5, <3>6
    <2>3. CASE Head(wire).kind # "text"
        BY <1>1, <1>2, <2>1, <2>3, PiecesRead, NumbersNext
    <2> QED
        BY <2>2, <2>3
<1>6. StreamTyped'
    BY <1>1, <1>2, <1>3, <1>5 DEF StreamTyped
<1>7. Chatting'
    BY <1>1, <1>2, <1>3, <1>5 DEF Chatting
<1> QED
    BY <1>2, <1>3, <1>4, <1>6, <1>7 DEF StreamInv

LEMMA ChatEndsSound ==
    ASSUME StreamInv, StreamPart!ChatFails \/ StreamPart!ChatReturns \/ StreamPart!StreamRefused
    PROVE  StreamInv'
<1>1. StreamTyped /\ EventsNumbered /\ OnWire /\ Parsed /\ Chatting
    BY DEF StreamInv
<1>2. /\ UNCHANGED <<api, sent, wire, connection, cancelled, blocks, content, chunks, streaming, full,
                    out, relaying, last, reading>>
      /\ phase # "stream" /\ phase' \in {"ask", "calls", "over"}
    BY DEF StreamPart!ChatFails, StreamPart!ChatReturns, StreamPart!StreamRefused, StreamPart!ends
<1>3. EventsNumbered' /\ OnWire' /\ Parsed' /\ Read' = Read
    BY <1>1, <1>2, Unread
<1>4. StreamTyped'
    <2>1. shown' \in {shown, content}
        BY DEF StreamPart!ChatFails, StreamPart!ChatReturns, StreamPart!StreamRefused, StreamPart!ends
    <2> QED
        BY <1>1, <1>2, <2>1 DEF StreamTyped
<1>5. Chatting'
    <2>1. CASE StreamPart!ChatFails \/ StreamPart!StreamRefused
        BY <1>1, <1>2, <2>1 DEF Chatting, StreamPart!ChatFails, StreamPart!StreamRefused
    <2>2. CASE StreamPart!ChatReturns
        <3>1. \A i \in DOMAIN sent : ~(i > Read)
            BY <1>1, <2>2 DEF StreamPart!ChatReturns, Read, StreamTyped
        <3>2. StreamPart!Collected = StreamPart!CallsOf(sent)
            BY <1>1, <3>1, CollectedIsCalls
        <3>3. result'.calls = StreamPart!CallsOf(sent) /\ phase = "chat" /\ wire = <<>> /\ shown' = shown /\ stored' = stored
            BY <2>2, <3>2 DEF StreamPart!ChatReturns, StreamPart!ends
        <3> QED
            BY <1>1, <1>2, <1>3, <3>3 DEF Chatting
    <2> QED
        BY <2>1, <2>2
<1> QED
    BY <1>2, <1>3, <1>4, <1>5 DEF StreamInv

LEMMA StreamOpensSound == ASSUME StreamInv, StreamPart!StreamOpens PROVE StreamInv'
<1>1. StreamTyped /\ Chatting
    BY DEF StreamInv
<1>2. /\ phase = "ask" /\ phase' = "stream" /\ sent' = <<>> /\ wire' = <<>> /\ blocks' = <<>>
      /\ connection' = "open" /\ streaming' = TRUE /\ relaying' = TRUE /\ reading' = TRUE
      /\ UNCHANGED <<api, cancelled, content, result, chunks, full, out, shown, last, stored>>
    BY DEF StreamPart!StreamOpens
<1>3. /\ chunks = <<>> /\ full = <<>> /\ out = <<>> /\ last = StreamPart!Nothing /\ shown = <<>> /\ stored = StreamPart!Nothing
    BY <1>1, <1>2 DEF Chatting
<1>4. StreamTyped'
    BY <1>1, <1>2 DEF StreamTyped
<1>5. /\ Len(<<>>) = 0 /\ Len(sent') = 0 /\ Len(wire') = 0 /\ Len(blocks') = 0 /\ Len(full) = 0 /\ Len(shown) = 0
      /\ DOMAIN sent' = {} /\ DOMAIN blocks' = {}
    BY <1>2, <1>3
<1>6. Read' = 0
    BY <1>5 DEF Read
<1>7. \A k : UpTo(StreamPart!At(sent', k), 0) = {}
    BY <1>5 DEF StreamPart!At, UpTo
<1>8. EventsNumbered' /\ OnWire'
    BY <1>2, <1>5 DEF EventsNumbered, OnWire
<1>9. Parsed'
    BY <1>5, <1>6, <1>7, FS_EmptySet DEF Parsed, Opens
<1>10. Count(sent', Read') = 0
    BY <1>6, <1>7, FS_EmptySet DEF Count
<1>11. Streaming'
    <2>1. full' = Numbers(0) /\ shown' = Numbers(0) /\ Len(full') = 0 /\ Len(shown') = 0
        BY <1>2, <1>3, <1>5, NoNumbers
    <2>2. /\ \A c : Carries(chunks', 0, c) /\ Carries(out', 0, c)
          /\ ~Told(chunks') /\ ~Told(out') /\ Pieces(chunks') = 0 /\ Pieces(out') = 0
        BY <1>2, <1>3, NoChunks
    <2> QED
        BY <1>2, <1>3, <1>10, <2>1, <2>2 DEF Streaming
<1>12. Chatting'
    BY <1>2 DEF Chatting
<1> QED
    BY <1>4, <1>8, <1>9, <1>11, <1>12 DEF StreamInv

\* Only a stream streams.
LEMMA InStream ==
    ASSUME StreamInv, streaming \/ relaying \/ reading
    PROVE  phase = "stream" /\ Streaming
    BY DEF StreamInv, Chatting

\* The numbers of Streaming.
LEMMA Amounts ==
    ASSUME StreamInv, Streaming
    PROVE  /\ Len(full) \in Nat /\ Len(shown) \in Nat /\ Count(sent, Read) \in Nat /\ Read \in Nat
           /\ Pieces(chunks) \in Nat /\ Len(chunks) \in Nat /\ (~Told(chunks) => Pieces(chunks) = Len(chunks))
           /\ Pieces(out) \in Nat /\ Len(out) \in Nat /\ (~Told(out) => Pieces(out) = Len(out))
<1>1. StreamTyped /\ EventsNumbered /\ OnWire
    BY DEF StreamInv
<1>2. Carries(chunks, Len(full), StreamPart!CallsOf(sent)) /\ Carries(out, Len(shown), StreamPart!CallsOf(sent))
    BY DEF Streaming
<1>3. chunks \in Seq(Chunk) /\ out \in Seq(Chunk) /\ Len(full) \in Nat /\ Len(shown) \in Nat
    BY <1>1 DEF StreamTyped
<1>4. Count(sent, Read) \in Nat /\ Read \in Nat
    BY <1>1, PiecesRead
<1>5. Pieces(chunks) \in Nat /\ Len(chunks) \in Nat /\ (~Told(chunks) => Pieces(chunks) = Len(chunks))
    BY <1>2, <1>3, PiecesOn
<1>6. Pieces(out) \in Nat /\ Len(out) \in Nat /\ (~Told(out) => Pieces(out) = Len(out))
    BY <1>2, <1>3, PiecesOn
<1> QED
    BY <1>3, <1>4, <1>5, <1>6

LEMMA StreamReadsSound ==
    ASSUME StreamInv, StreamPart!StreamReads, ChunkCap \in Nat
    PROVE  StreamInv'
<1>1. /\ StreamTyped /\ EventsNumbered /\ OnWire /\ Parsed /\ Chatting /\ phase = "stream" /\ Streaming
      /\ streaming /\ wire # <<>>
    BY InStream DEF StreamInv, StreamPart!StreamReads
<1>2. PICK e : e = Head(wire)
    OBVIOUS
<1>3. PICK x : x = IF e = StreamPart!Stop THEN [text |-> <<>>, done |-> TRUE, calls |-> StreamPart!Collected]
                                          ELSE [text |-> <<e.n>>, done |-> FALSE, calls |-> <<>>]
    OBVIOUS
<1>4. /\ wire' = Tail(wire) /\ blocks' = StreamPart!Taken(Head(wire))
      /\ IF e.kind \in {"text", "stop"}
           THEN \/ /\ Len(chunks) < ChunkCap
                   /\ chunks' = Append(chunks, x)
                   /\ streaming' = (e # StreamPart!Stop)
                \/ cancelled /\ streaming' = FALSE /\ UNCHANGED chunks
           ELSE UNCHANGED <<chunks, streaming>>
      /\ UNCHANGED <<api, phase, sent, connection, cancelled, content, result, full, out,
                     relaying, shown, last, reading, stored>>
    BY <1>2, <1>3 DEF StreamPart!StreamReads
<1>5. OnWire' /\ Parsed' /\ Read' = Read + 1 /\ wire' \in Seq(Event) /\ blocks' \in Seq(Block)
    BY <1>1, <1>4, TailOnWire, ParsedNext
<1>6. EventsNumbered'
    BY <1>1, <1>4 DEF EventsNumbered
<1>7. Chatting'
    BY <1>1, <1>4 DEF Chatting
<1>8. ~Told(chunks) /\ ~Told(out) /\ last = StreamPart!Nothing
    BY <1>1 DEF Streaming, AllRead
<1>9. /\ Carries(chunks, Len(full), StreamPart!CallsOf(sent)) /\ Carries(out, Len(shown), StreamPart!CallsOf(sent))
      /\ Len(full) + Len(chunks) = Count(sent, Read) /\ Pieces(chunks) = Len(chunks)
    BY <1>1, <1>8, Amounts DEF Streaming
<1>10. e = sent[Read + 1] /\ e \in Event /\ Read + 1 \in 1..Len(sent) /\ DOMAIN sent = 1..Len(sent)
    BY <1>1, <1>2, NextOnWire
<1>11. /\ e.kind \in {"text", "part", "open", "stop"} /\ (e.kind # "stop" => e.n \in Nat)
       /\ (e.kind = "stop" <=> e = StreamPart!Stop)
    BY <1>10, EventIs
<1>12. /\ e.kind = "text" => /\ Count(sent, Read + 1) = Count(sent, Read) + 1
                             /\ e.n = Count(sent, Read) + 1
       /\ e.kind # "text" => Count(sent, Read + 1) = Count(sent, Read)
       /\ Count(sent, Read) \in Nat /\ Read \in Nat
    BY <1>1, <1>2, PiecesRead
<1>13. chunks \in Seq(Chunk) /\ Len(full) \in Nat /\ Len(chunks) \in Nat
    BY <1>1 DEF StreamTyped
<1>14. ASSUME Len(chunks) < ChunkCap, chunks' = Append(chunks, x), streaming' = (e # StreamPart!Stop), e.kind \in {"text", "stop"}
       PROVE  StreamTyped' /\ Streaming'
    <2>1. x \in Chunk /\ (IF x.done THEN x.text = <<>> /\ x.calls = StreamPart!CallsOf(sent) ELSE x.text = <<Len(full) + Len(chunks) + 1>>)
        <3>1. CASE e = StreamPart!Stop
            <4>1. x = [text |-> <<>>, done |-> TRUE, calls |-> StreamPart!Collected]
                BY <1>3, <3>1
            <4>2. Read + 1 = Len(sent)
                BY <1>1, <1>10, <1>11, <3>1 DEF EventsNumbered
            <4>3. ASSUME NEW i \in DOMAIN sent, i > Read PROVE sent[i].kind = "stop"
                <5>1. i = Read + 1
                    BY <1>10, <1>12, <4>2, <4>3
                <5> QED
                    BY <1>10, <1>11, <3>1, <5>1
            <4>4. StreamPart!Collected = StreamPart!CallsOf(sent) /\ StreamPart!Collected \in CallSets
                BY <1>1, <4>3, CollectedIsCalls, CollectedIsCallSet
            <4> QED
                BY <4>1, <4>4 DEF Chunk
        <3>2. CASE e # StreamPart!Stop
            <4>1. x = [text |-> <<e.n>>, done |-> FALSE, calls |-> <<>>]
                BY <1>3, <3>2
            <4>2. e.n = Len(full) + Len(chunks) + 1 /\ e.n \in Nat
                BY <1>9, <1>11, <1>12, <1>14, <3>2
            <4> QED
                BY <4>1, <4>2, NoCalls DEF Chunk
        <3> QED
            BY <3>1, <3>2
    <2>2. x.done <=> e.kind = "stop"
        BY <1>3, <1>11
    <2>3. /\ chunks' \in Seq(Chunk) /\ Len(chunks') = Len(chunks) + 1
          /\ Carries(chunks', Len(full), StreamPart!CallsOf(sent)) /\ (Told(chunks') <=> x.done)
          /\ Pieces(chunks') = IF x.done THEN Len(chunks) ELSE Len(chunks) + 1
        <3>1. PICK c : c = StreamPart!CallsOf(sent)
            OBVIOUS
        <3>2. /\ Append(chunks, x) \in Seq(Chunk) /\ Len(Append(chunks, x)) = Len(chunks) + 1
              /\ Carries(Append(chunks, x), Len(full), c) /\ (Told(Append(chunks, x)) <=> x.done)
              /\ Pieces(Append(chunks, x)) = IF x.done THEN Len(chunks) ELSE Len(chunks) + 1
            BY <1>8, <1>9, <1>13, <2>1, <3>1, AppendCarries
        <3> QED
            BY <1>14, <3>1, <3>2
    <2>4. StreamTyped'
        BY <1>1, <1>4, <1>5, <1>13, <1>14, <2>3 DEF StreamTyped
    <2>5. Len(full') + Pieces(chunks') = Count(sent', Read')
        BY <1>4, <1>5, <1>9, <1>12, <1>13, <1>14, <2>2, <2>3
    <2>6. ASSUME x.done PROVE AllRead'
        <3>1. e.kind = "stop" /\ streaming' = FALSE
            BY <1>11, <1>14, <2>2, <2>6
        <3>2. Read + 1 = Len(sent)
            BY <1>1, <1>10, <3>1 DEF EventsNumbered
        <3>3. wire' = <<>>
            <4>1. Read' = Len(sent) - Len(wire')
                BY <1>4 DEF Read
            <4>2. Len(wire') = 0
                BY <1>5, <1>10, <3>2, <4>1
            <4> QED
                BY <1>5, <4>2
        <3>4. StreamPart!Ended(sent')
            BY <1>4, <1>10, <3>1 DEF StreamPart!Ended, StreamPart!At
        <3> QED
            BY <3>1, <3>3, <3>4 DEF AllRead
    <2>7. full' = Numbers(Len(full')) /\ shown' = Numbers(Len(shown')) /\ Carries(chunks', Len(full'), StreamPart!CallsOf(sent'))
        BY <1>1, <1>4, <2>3 DEF Streaming
    <2>8. /\ Carries(out', Len(shown'), StreamPart!CallsOf(sent')) /\ ~Told(out') /\ last' = StreamPart!Nothing
          /\ Len(shown') + Pieces(out') <= Len(full')
          /\ relaying' \/ ~cancelled' => Len(shown') + Pieces(out') = Len(full')
          /\ ~reading' => out' = <<>> /\ ~relaying'
          /\ stored' # StreamPart!Nothing => stored' = full' /\ ~relaying'
        BY <1>1, <1>4, <1>8, <1>9 DEF Streaming
    <2>9. Len(full') + Pieces(chunks') <= Count(sent', Read')
        BY <1>4, <1>5, <1>12, <2>5
    <2> QED
        BY <2>3, <2>4, <2>5, <2>6, <2>7, <2>8, <2>9 DEF Streaming
<1>15. ASSUME chunks' = chunks, streaming' => e.kind # "text", streaming' \in BOOLEAN
       PROVE  StreamTyped' /\ Streaming'
    <2>1. StreamTyped'
        BY <1>1, <1>4, <1>5, <1>15 DEF StreamTyped
    <2>2. /\ Len(full') + Pieces(chunks') <= Count(sent', Read')
          /\ streaming' => Len(full') + Pieces(chunks') = Count(sent', Read')
        BY <1>4, <1>5, <1>9, <1>12, <1>13, <1>15
    <2>3. /\ full' = Numbers(Len(full')) /\ shown' = Numbers(Len(shown'))
          /\ Carries(chunks', Len(full'), StreamPart!CallsOf(sent')) /\ Carries(out', Len(shown'), StreamPart!CallsOf(sent'))
          /\ ~Told(chunks') /\ ~Told(out') /\ last' = StreamPart!Nothing
        BY <1>1, <1>4, <1>8, <1>9, <1>15 DEF Streaming
    <2>4. /\ Len(shown') + Pieces(out') <= Len(full')
          /\ relaying' \/ ~cancelled' => Len(shown') + Pieces(out') = Len(full')
          /\ ~reading' => out' = <<>> /\ ~relaying'
          /\ stored' # StreamPart!Nothing => stored' = full' /\ ~relaying'
        BY <1>1, <1>4 DEF Streaming
    <2> QED
        BY <2>1, <2>2, <2>3, <2>4 DEF Streaming
<1>16. StreamTyped' /\ Streaming'
    BY <1>1, <1>4, <1>11, <1>14, <1>15
<1> QED
    BY <1>5, <1>6, <1>7, <1>16 DEF StreamInv

LEMMA CutSound == ASSUME StreamInv, StreamPart!StreamCut \/ StreamPart!RelayStores PROVE StreamInv'
<1>1. /\ StreamTyped /\ EventsNumbered /\ OnWire /\ Parsed /\ Chatting /\ phase = "stream" /\ Streaming
    BY InStream DEF StreamInv, StreamPart!StreamCut, StreamPart!RelayStores
<1>2. /\ UNCHANGED <<api, phase, sent, wire, connection, cancelled, blocks, content, result, chunks,
                    full, out, shown, last, reading>>
      /\ streaming' \in BOOLEAN /\ relaying' \in BOOLEAN
      /\ streaming' => streaming
      /\ relaying' => relaying
      /\ stored' # stored => stored' = full /\ ~relaying'
    <2>1. CASE StreamPart!StreamCut
        BY <1>1, <2>1 DEF StreamPart!StreamCut, StreamTyped
    <2>2. CASE StreamPart!RelayStores
        BY <1>1, <2>2 DEF StreamPart!RelayStores, StreamPart!relayLeaves, StreamTyped
    <2> QED
        BY <2>1, <2>2
<1>3. EventsNumbered' /\ OnWire' /\ Parsed' /\ Read' = Read
    BY <1>1, <1>2, Unread
<1>4. StreamTyped' /\ Chatting'
    BY <1>1, <1>2 DEF StreamTyped, Chatting
<1>5. Streaming'
    BY <1>1, <1>2, <1>3 DEF Streaming, AllRead
<1> QED
    BY <1>3, <1>4, <1>5 DEF StreamInv

LEMMA RelaySound == ASSUME StreamInv, StreamPart!Relay, ChunkCap \in Nat PROVE StreamInv'
<1>1. /\ StreamTyped /\ EventsNumbered /\ OnWire /\ Parsed /\ Chatting /\ phase = "stream" /\ Streaming
      /\ relaying /\ chunks # <<>>
    BY InStream DEF StreamInv, StreamPart!Relay
<1>2. PICK x : x = Head(chunks)
    OBVIOUS
<1>3. PICK c : c = StreamPart!CallsOf(sent)
    OBVIOUS
<1>4. /\ chunks' = Tail(chunks) /\ full' = full \o x.text
      /\ \/ Len(out) < ChunkCap /\ out' = Append(out, x) /\ relaying' = relaying
         \/ cancelled /\ relaying' = FALSE /\ out' = out
      /\ UNCHANGED <<api, phase, sent, wire, connection, cancelled, blocks, content, result, streaming,
                    shown, last, reading, stored>>
    BY <1>2 DEF StreamPart!Relay, StreamPart!relayLeaves
<1>5. EventsNumbered' /\ OnWire' /\ Parsed' /\ Read' = Read
    BY <1>1, <1>4, Unread
<1>6. /\ ~Told(out) /\ last = StreamPart!Nothing /\ reading /\ stored = StreamPart!Nothing
      /\ Len(shown) + Pieces(out) = Len(full)
    BY <1>1 DEF Streaming, StreamTyped
<1>7. /\ Carries(chunks, Len(full), c) /\ Carries(out, Len(shown), c)
      /\ full = Numbers(Len(full)) /\ shown = Numbers(Len(shown))
      /\ chunks \in Seq(Chunk) /\ out \in Seq(Chunk)
    BY <1>1, <1>3 DEF Streaming, StreamTyped
<1>8. /\ Len(full) \in Nat /\ Len(shown) \in Nat /\ Count(sent, Read) \in Nat
      /\ Pieces(chunks) \in Nat /\ Len(out) \in Nat /\ Pieces(out) = Len(out)
    BY <1>1, <1>6, Amounts
<1>9. /\ x \in Chunk /\ chunks' \in Seq(Chunk) /\ Len(chunks') = Len(chunks) - 1
      /\ ~x.done => /\ x.text = <<Len(full) + 1>> /\ Carries(chunks', Len(full) + 1, c)
                    /\ Pieces(chunks) = Pieces(chunks') + 1 /\ (Told(chunks') <=> Told(chunks))
      /\ x.done => x.text = <<>> /\ x.calls = c /\ chunks' = <<>> /\ Pieces(chunks) = 0 /\ Told(chunks)
    <2>1. PICK q : q = chunks
        OBVIOUS
    <2>2. PICK n : n = Len(full)
        OBVIOUS
    <2>3. /\ Head(q) \in Chunk /\ Tail(q) \in Seq(Chunk) /\ Len(Tail(q)) = Len(q) - 1
          /\ ~Head(q).done => /\ Head(q).text = <<n + 1>> /\ Carries(Tail(q), n + 1, c)
                              /\ Pieces(q) = Pieces(Tail(q)) + 1 /\ (Told(Tail(q)) <=> Told(q))
          /\ Head(q).done => /\ Head(q).text = <<>> /\ Head(q).calls = c /\ Tail(q) = <<>>
                             /\ Pieces(q) = 0 /\ Told(q)
        BY <1>1, <1>7, <1>8, <2>1, <2>2, TailCarries
    <2>4. x = Head(q) /\ chunks' = Tail(q)
        BY <1>2, <1>4, <2>1
    <2> QED
        BY <2>1, <2>2, <2>3, <2>4
<1>10. x.done \in BOOLEAN /\ Len(chunks) \in Nat /\ Len(chunks) <= ChunkCap
    BY <1>1, <1>9, ChunkIs DEF StreamTyped
<1>11. /\ full' = Numbers(Len(full')) /\ full' \in Seq(Nat)
       /\ Len(full') = IF x.done THEN Len(full) ELSE Len(full) + 1
    <2>1. PICK n : n = Len(full)
        OBVIOUS
    <2>2. PICK m : m = n + 1
        OBVIOUS
    <2>3. n \in Nat /\ m \in Nat /\ full = Numbers(n)
        BY <1>7, <1>8, <2>1, <2>2
    <2>4. CASE x.done
        <3>1. full' = Numbers(n) \o <<>>
            BY <1>4, <1>9, <2>3, <2>4
        <3> QED
            BY <2>1, <2>3, <2>4, <3>1, NumbersNext
    <2>5. CASE ~x.done
        <3>1. full' = Numbers(n) \o <<n + 1>>
            BY <1>4, <1>9, <2>1, <2>3, <2>5
        <3>2. full' = Numbers(m)
            BY <2>2, <2>3, <3>1, NumbersNext
        <3>3. full' \in Seq(Nat) /\ Len(full') = m
            BY <2>3, <3>2, NumbersNext
        <3> QED
            BY <2>1, <2>2, <2>5, <3>2, <3>3
    <2> QED
        BY <2>4, <2>5
<1>12. /\ Carries(chunks', Len(full'), c) /\ Pieces(chunks') \in Nat
       /\ Len(full') + Pieces(chunks') = Len(full) + Pieces(chunks)
       /\ Told(chunks') => Told(chunks)
    <2>1. CASE x.done
        BY <1>8, <1>9, <1>11, <2>1, NoChunks
    <2>2. CASE ~x.done
        <3>1. Carries(chunks', Len(full'), c) /\ (Told(chunks') <=> Told(chunks)) /\ chunks' \in Seq(Chunk)
            BY <1>9, <1>11, <2>2
        <3>2. PICK q : q = chunks'
            OBVIOUS
        <3>3. PICK n : n = Len(full')
            OBVIOUS
        <3>4. Pieces(q) \in Nat
            BY <3>1, <3>2, <3>3, PiecesOn
        <3>5. Pieces(chunks') \in Nat
            BY <3>2, <3>4
        <3> QED
            BY <1>8, <1>9, <1>11, <2>2, <3>1, <3>5
    <2> QED
        BY <1>10, <2>1, <2>2
<1>13. CASE Len(out) < ChunkCap /\ out' = Append(out, x) /\ relaying' = relaying
    <2>1. IF x.done THEN x.text = <<>> /\ x.calls = c ELSE x.text = <<Len(shown) + Len(out) + 1>>
        BY <1>6, <1>8, <1>9
    <2>2. /\ out' \in Seq(Chunk) /\ Len(out') = Len(out) + 1
          /\ Carries(out', Len(shown), c) /\ (Told(out') <=> x.done)
          /\ Pieces(out') = IF x.done THEN Len(out) ELSE Len(out) + 1
        <3>1. /\ Append(out, x) \in Seq(Chunk) /\ Len(Append(out, x)) = Len(out) + 1
              /\ Carries(Append(out, x), Len(shown), c) /\ (Told(Append(out, x)) <=> x.done)
              /\ Pieces(Append(out, x)) = IF x.done THEN Len(out) ELSE Len(out) + 1
            BY <1>6, <1>7, <1>8, <1>9, <2>1, AppendCarries
        <3> QED
            BY <1>13, <3>1
    <2>3. StreamTyped' /\ Chatting'
        BY <1>1, <1>4, <1>8, <1>9, <1>10, <1>11, <1>13, <2>2 DEF StreamTyped, Chatting
    <2>4. Len(shown') + Pieces(out') = Len(full')
        BY <1>4, <1>6, <1>8, <1>11, <2>2
    <2>5. /\ Told(chunks') => AllRead'
          /\ Told(out') => AllRead' /\ chunks' = <<>>
        BY <1>1, <1>4, <1>9, <1>12, <2>2 DEF Streaming, AllRead
    <2>6. /\ Len(full') + Pieces(chunks') <= Count(sent', Read')
          /\ streaming' \/ Told(chunks') \/ Told(out') => Len(full') + Pieces(chunks') = Count(sent', Read')
        <3>1. /\ Len(full) + Pieces(chunks) <= Count(sent, Read)
              /\ streaming \/ Told(chunks) => Len(full) + Pieces(chunks) = Count(sent, Read)
            BY <1>1 DEF Streaming
        <3>2. Told(out') => Told(chunks)
            BY <1>9, <2>2
        <3> QED
            BY <1>4, <1>5, <1>12, <3>1, <3>2
    <2>7. Carries(chunks', Len(full'), StreamPart!CallsOf(sent')) /\ Carries(out', Len(shown'), StreamPart!CallsOf(sent')) /\ shown' = Numbers(Len(shown'))
        BY <1>3, <1>4, <1>7, <1>12, <2>2
    <2>8. last' = StreamPart!Nothing /\ reading' /\ stored' = StreamPart!Nothing
        BY <1>4, <1>6
    <2>9. Streaming'
        BY <1>11, <2>4, <2>5, <2>6, <2>7, <2>8 DEF Streaming
    <2> QED
        BY <1>4, <1>5, <2>3, <2>9 DEF StreamInv
<1>14. CASE cancelled /\ relaying' = FALSE /\ out' = out
    <2>1. StreamTyped' /\ Chatting'
        <3>1. Chatting'
            BY <1>1, <1>4, <1>14 DEF Chatting
        <3>2. Len(chunks') <= ChunkCap /\ Len(out') <= ChunkCap
            BY <1>1, <1>9, <1>10, <1>14 DEF StreamTyped
        <3> QED
            BY <1>1, <1>4, <1>9, <1>11, <1>14, <3>1, <3>2 DEF StreamTyped
    <2>2. ~Told(out') /\ last' = StreamPart!Nothing /\ reading' /\ stored' = StreamPart!Nothing /\ ~relaying' /\ cancelled'
        BY <1>4, <1>6, <1>14
    <2>3. /\ Len(full') + Pieces(chunks') <= Count(sent', Read')
          /\ streaming' \/ Told(chunks') => Len(full') + Pieces(chunks') = Count(sent', Read')
        <3>1. /\ Len(full) + Pieces(chunks) <= Count(sent, Read)
              /\ streaming \/ Told(chunks) => Len(full) + Pieces(chunks) = Count(sent, Read)
            BY <1>1 DEF Streaming
        <3> QED
            BY <1>4, <1>5, <1>12, <3>1
    <2>4. Carries(chunks', Len(full'), StreamPart!CallsOf(sent')) /\ Carries(out', Len(shown'), StreamPart!CallsOf(sent')) /\ shown' = Numbers(Len(shown'))
        BY <1>3, <1>4, <1>7, <1>12, <1>14
    <2>5. Told(chunks') => AllRead'
        BY <1>1, <1>4, <1>12 DEF Streaming, AllRead
    <2>6. Len(shown') + Pieces(out') <= Len(full')
        BY <1>4, <1>6, <1>8, <1>11, <1>14
    <2>7. Streaming'
        BY <1>11, <2>2, <2>3, <2>4, <2>5, <2>6 DEF Streaming
    <2> QED
        BY <1>4, <1>5, <2>1, <2>7 DEF StreamInv
<1> QED
    BY <1>4, <1>13, <1>14

LEMMA ClientReadsSound == ASSUME StreamInv, StreamPart!ClientReads, ChunkCap \in Nat PROVE StreamInv'
<1>1. /\ StreamTyped /\ EventsNumbered /\ OnWire /\ Parsed /\ Chatting /\ phase = "stream" /\ Streaming
      /\ reading
    BY InStream DEF StreamInv, StreamPart!ClientReads
<1>2. UNCHANGED <<api, phase, sent, wire, connection, cancelled, blocks, content, result, chunks,
                  streaming, full, relaying, stored>>
    BY DEF StreamPart!ClientReads
<1>3. EventsNumbered' /\ OnWire' /\ Parsed' /\ Read' = Read
    BY <1>1, <1>2, Unread
<1>4. last = StreamPart!Nothing
    BY <1>1 DEF Streaming
<1>5. /\ Len(full) \in Nat /\ Len(shown) \in Nat /\ Count(sent, Read) \in Nat
      /\ Pieces(chunks) \in Nat /\ Len(out) \in Nat /\ Pieces(out) \in Nat
    BY <1>1, Amounts
<1>6. CASE out = <<>> /\ ~relaying /\ reading' = FALSE /\ UNCHANGED <<out, shown, last>>
    <2>1. StreamTyped' /\ Chatting'
        BY <1>1, <1>2, <1>6 DEF StreamTyped, Chatting
    <2>2. Streaming'
        BY <1>1, <1>2, <1>3, <1>4, <1>6 DEF Streaming, AllRead
    <2> QED
        BY <1>2, <1>3, <2>1, <2>2 DEF StreamInv
<1>7. ASSUME NEW x, x = Head(out), out # <<>>, out' = Tail(out), shown' = shown \o x.text,
             last' = (IF x.done THEN x.calls ELSE last), reading' = ~x.done
      PROVE  StreamInv'
    <2>1. PICK c : c = StreamPart!CallsOf(sent)
        OBVIOUS
    <2>2. /\ Carries(out, Len(shown), c) /\ shown = Numbers(Len(shown)) /\ out \in Seq(Chunk)
          /\ Len(out) <= ChunkCap
        BY <1>1, <2>1 DEF Streaming, StreamTyped
    <2>3. /\ x \in Chunk /\ out' \in Seq(Chunk) /\ Len(out') = Len(out) - 1
          /\ ~x.done => /\ x.text = <<Len(shown) + 1>> /\ Carries(out', Len(shown) + 1, c)
                        /\ Pieces(out) = Pieces(out') + 1 /\ (Told(out') <=> Told(out))
          /\ x.done => x.text = <<>> /\ x.calls = c /\ out' = <<>> /\ Pieces(out) = 0 /\ Told(out)
        <3>1. PICK q : q = out
            OBVIOUS
        <3>2. PICK n : n = Len(shown)
            OBVIOUS
        <3>3. /\ Head(q) \in Chunk /\ Tail(q) \in Seq(Chunk) /\ Len(Tail(q)) = Len(q) - 1
              /\ ~Head(q).done => /\ Head(q).text = <<n + 1>> /\ Carries(Tail(q), n + 1, c)
                                  /\ Pieces(q) = Pieces(Tail(q)) + 1 /\ (Told(Tail(q)) <=> Told(q))
              /\ Head(q).done => /\ Head(q).text = <<>> /\ Head(q).calls = c /\ Tail(q) = <<>>
                                 /\ Pieces(q) = 0 /\ Told(q)
            BY <1>5, <1>7, <2>2, <3>1, <3>2, TailCarries
        <3>4. x = Head(q) /\ out' = Tail(q)
            BY <1>7, <3>1
        <3> QED
            BY <3>1, <3>2, <3>3, <3>4
    <2>4. x.done \in BOOLEAN /\ x.calls \in CallSets
        BY <2>3, ChunkIs
    <2>5. /\ shown' = Numbers(Len(shown')) /\ shown' \in Seq(Nat)
          /\ Len(shown') = IF x.done THEN Len(shown) ELSE Len(shown) + 1
        <3>1. PICK n : n = Len(shown)
            OBVIOUS
        <3>2. PICK m : m = n + 1
            OBVIOUS
        <3>3. n \in Nat /\ m \in Nat /\ shown = Numbers(n)
            BY <1>5, <2>2, <3>1, <3>2
        <3>4. CASE x.done
            <4>1. shown' = Numbers(n) \o <<>>
                BY <1>7, <2>3, <3>3, <3>4
            <4> QED
                BY <3>1, <3>3, <3>4, <4>1, NumbersNext
        <3>5. CASE ~x.done
            <4>1. shown' = Numbers(n) \o <<n + 1>>
                BY <1>7, <2>3, <3>1, <3>3, <3>5
            <4>2. shown' = Numbers(m)
                BY <3>2, <3>3, <4>1, NumbersNext
            <4>3. shown' \in Seq(Nat) /\ Len(shown') = m
                BY <3>3, <4>2, NumbersNext
            <4> QED
                BY <3>1, <3>2, <3>5, <4>2, <4>3
        <3> QED
            BY <3>4, <3>5
    <2>6. /\ Carries(out', Len(shown'), c) /\ Len(shown') + Pieces(out') = Len(shown) + Pieces(out)
          /\ Told(out') => Told(out)
        <3>1. CASE x.done
            BY <1>5, <2>3, <2>5, <3>1, NoChunks
        <3>2. CASE ~x.done
            <4>1. Carries(out', Len(shown'), c) /\ (Told(out') <=> Told(out)) /\ out' \in Seq(Chunk)
                BY <2>3, <2>5, <3>2
            <4>2. PICK q : q = out'
                OBVIOUS
            <4>3. PICK n : n = Len(shown')
                OBVIOUS
            <4>4. Pieces(q) \in Nat
                BY <4>1, <4>2, <4>3, PiecesOn
            <4>5. Pieces(out') \in Nat
                BY <4>2, <4>4
            <4> QED
                BY <1>5, <2>3, <2>5, <3>2, <4>1, <4>5
        <3> QED
            BY <2>4, <3>1, <3>2
    <2>7. StreamTyped' /\ Chatting'
        BY <1>1, <1>2, <1>5, <1>7, <2>2, <2>3, <2>4, <2>5 DEF StreamTyped, Chatting
    <2>8. Carries(chunks', Len(full'), StreamPart!CallsOf(sent')) /\ Carries(out', Len(shown'), StreamPart!CallsOf(sent')) /\ full' = Numbers(Len(full'))
        BY <1>1, <1>2, <2>1, <2>6 DEF Streaming
    <2>9. /\ Len(shown') + Pieces(out') <= Len(full')
          /\ relaying' \/ ~cancelled' \/ Told(out) => Len(shown') + Pieces(out') = Len(full')
        BY <1>1, <1>2, <2>6 DEF Streaming
    <2>10. /\ Len(full') + Pieces(chunks') <= Count(sent', Read')
           /\ streaming' \/ Told(chunks') \/ Told(out) => Len(full') + Pieces(chunks') = Count(sent', Read')
        BY <1>1, <1>2, <1>3 DEF Streaming
    <2>11. /\ Told(chunks') => AllRead'
           /\ Told(out) => AllRead' /\ chunks' = <<>>
           /\ stored' # StreamPart!Nothing => stored' = full' /\ ~relaying'
        BY <1>1, <1>2 DEF Streaming, AllRead
    <2>12. /\ x.done => Told(out) /\ last' = StreamPart!CallsOf(sent') /\ ~reading' /\ out' = <<>> /\ ~streaming' /\ chunks' = <<>>
           /\ ~x.done => last' = StreamPart!Nothing /\ reading'
        BY <1>2, <1>4, <1>7, <2>1, <2>3, <2>11 DEF AllRead
    <2>13. Streaming'
        BY <2>4, <2>5, <2>6, <2>8, <2>9, <2>10, <2>11, <2>12 DEF Streaming
    <2> QED
        BY <1>2, <1>3, <2>7, <2>13 DEF StreamInv
<1> QED
    BY <1>6, <1>7 DEF StreamPart!ClientReads

LEMMA StreamStarts == ASSUME StreamPart!Init, ChunkCap \in Nat PROVE StreamInv
<1>1. /\ Len(<<>>) = 0 /\ Len(sent) = 0 /\ Len(wire) = 0 /\ Len(blocks) = 0 /\ DOMAIN sent = {} /\ DOMAIN blocks = {}
      /\ Read = 0
    BY DEF StreamPart!Init, Read
<1>2. StreamTyped
    <2>1. chunks = <<>> /\ out = <<>> /\ Len(chunks) <= ChunkCap /\ Len(out) <= ChunkCap
        BY <1>1 DEF StreamPart!Init
    <2>2. /\ sent = <<>> /\ wire = <<>> /\ blocks = <<>> /\ content = <<>> /\ full = <<>> /\ shown = <<>>
          /\ \A S : <<>> \in Seq(S)
        BY DEF StreamPart!Init
    <2> QED
        BY <2>1, <2>2 DEF StreamPart!Init, StreamTyped
<1>3. \A k : UpTo(StreamPart!At(sent, k), 0) = {}
    BY <1>1 DEF StreamPart!At, UpTo
<1>4. EventsNumbered /\ OnWire
    BY <1>1 DEF EventsNumbered, OnWire
<1>5. Parsed
    BY <1>1, <1>3, FS_EmptySet DEF Parsed, Opens
<1>6. Count(sent, Read) = 0
    BY <1>1, <1>3, FS_EmptySet DEF Count
<1>7. Chatting
    BY <1>6, NoNumbers DEF StreamPart!Init, Chatting
<1> QED
    BY <1>2, <1>4, <1>5, <1>7 DEF StreamPart!Init, StreamInv

LEMMA StreamStep == ASSUME StreamInv, [StreamPart!Next]_(StreamPart!vars), ChunkCap \in Nat PROVE StreamInv'
<1>1. CASE UNCHANGED StreamPart!vars
    BY <1>1 DEF StreamPart!vars, StreamInv, StreamTyped, EventsNumbered, OnWire, Parsed, Chatting, Streaming, AllRead, Read
<1>2. CASE StreamPart!Next
    BY <1>2, EmitSound, EndsSound, ChatReadsSound, ChatEndsSound, StreamOpensSound, StreamReadsSound,
       CutSound, RelaySound, ClientReadsSound DEF StreamPart!Next
<1> QED
    BY <1>1, <1>2

LEMMA StreamIsWhole == ASSUME StreamInv PROVE StreamPart!StreamsWhole
<1>1. StreamTyped /\ EventsNumbered /\ OnWire /\ Chatting /\ (phase = "stream" => Streaming)
    BY DEF StreamInv
<1>2. /\ StreamPart!TextOf(sent) = Numbers(Count(sent, Len(sent)))
      /\ wire = <<>> => Read = Len(sent)
    <2>1. sent \in Seq(Event) /\ Len(sent) \in Nat
        BY <1>1 DEF StreamTyped
    <2>2. UpTo(StreamPart!At(sent, "text"), Len(sent)) = StreamPart!At(sent, "text")
        BY <2>1, Places
    <2> QED
        BY <2>1, <2>2, StreamCountsAlike DEF StreamPart!TextOf, Numbers, Count, Read
<1>3. StreamPart!ChatWhole
    BY <1>1, <1>2 DEF StreamPart!ChatWhole, Chatting
<1>4. ASSUME last # StreamPart!Nothing PROVE shown = StreamPart!TextOf(sent) /\ last = StreamPart!CallsOf(sent)
    <2>1. phase = "stream" /\ Streaming
        BY <1>1, <1>4 DEF Chatting
    <2>2. AllRead /\ chunks = <<>> /\ ~reading /\ last = StreamPart!CallsOf(sent) /\ out = <<>>
        BY <1>4, <2>1 DEF Streaming
    <2>3. Pieces(chunks) = 0 /\ Pieces(out) = 0
        BY <2>2, NoChunks
    <2>4. /\ Len(full) + Pieces(chunks) = Count(sent, Read) /\ Len(shown) + Pieces(out) = Len(full)
          /\ shown = Numbers(Len(shown))
        BY <1>4, <2>1 DEF Streaming
    <2>5. Len(shown) = Count(sent, Len(sent))
        BY <1>2, <2>1, <2>2, <2>3, <2>4, Amounts DEF AllRead
    <2> QED
        BY <1>2, <2>2, <2>4, <2>5
<1>5. ASSUME phase = "stream", stored # StreamPart!Nothing
      PROVE  /\ StreamPart!IsPrefix(shown, stored) /\ StreamPart!IsPrefix(stored, StreamPart!TextOf(sent))
             /\ ~reading /\ ~cancelled => shown = stored
    <2>1. Streaming /\ stored = full
        BY <1>1, <1>5 DEF Streaming
    <2>2. /\ full = Numbers(Len(full)) /\ shown = Numbers(Len(shown))
          /\ Len(full) + Pieces(chunks) <= Count(sent, Read)
          /\ Len(shown) + Pieces(out) <= Len(full)
          /\ ~cancelled => Len(shown) + Pieces(out) = Len(full)
          /\ ~reading => out = <<>>
        BY <2>1 DEF Streaming
    <2>3. /\ Len(full) \in Nat /\ Len(shown) \in Nat /\ Count(sent, Read) \in Nat /\ Read \in Nat
          /\ Pieces(chunks) \in Nat /\ Pieces(out) \in Nat
        BY <2>1, Amounts
    <2>4. Count(sent, Len(sent)) \in Nat /\ Count(sent, Read) <= Count(sent, Len(sent))
        <3>1. sent \in Seq(Event) /\ Len(sent) \in Nat /\ Read <= Len(sent)
            BY <1>1 DEF StreamTyped, OnWire, Read
        <3>2. PICK P : P = StreamPart!At(sent, "text")
            OBVIOUS
        <3>3. \A i \in P : i \in Nat \ {0}
            BY <3>1, <3>2, Places
        <3>4. IsFiniteSet(UpTo(P, Len(sent))) /\ Cardinality(UpTo(P, Len(sent))) \in Nat
            BY <3>1, <3>3, UpToNext
        <3>5. ASSUME NEW i \in UpTo(P, Read) PROVE i \in UpTo(P, Len(sent))
            <4>1. i \in P /\ i <= Read /\ i \in Nat
                BY <3>3 DEF UpTo
            <4>2. i <= Len(sent)
                BY <2>3, <3>1, <4>1
            <4> QED
                BY <4>1, <4>2 DEF UpTo
        <3>6. Cardinality(UpTo(P, Read)) <= Cardinality(UpTo(P, Len(sent)))
            BY <3>4, <3>5, FS_Subset
        <3> QED
            BY <3>2, <3>4, <3>6 DEF Count
    <2>5. StreamPart!IsPrefix(shown, stored) /\ StreamPart!IsPrefix(stored, StreamPart!TextOf(sent))
        <3>1. PICK s : s = Len(shown)
            OBVIOUS
        <3>2. PICK f : f = Len(full)
            OBVIOUS
        <3>3. PICK t : t = Count(sent, Len(sent))
            OBVIOUS
        <3>4. s \in Nat /\ f \in Nat /\ t \in Nat /\ s <= f /\ f <= t
            BY <2>2, <2>3, <2>4, <3>1, <3>2, <3>3
        <3>5. StreamPart!IsPrefix(Numbers(s), Numbers(f)) /\ StreamPart!IsPrefix(Numbers(f), Numbers(t))
            BY <3>4, NumbersPrefix
        <3> QED
            BY <1>2, <2>1, <2>2, <3>1, <3>2, <3>3, <3>5
    <2>6. ASSUME ~reading, ~cancelled PROVE shown = stored
        <3>1. Pieces(out) = 0
            BY <2>2, <2>6, NoChunks
        <3> QED
            BY <2>1, <2>2, <2>3, <2>6, <3>1
    <2> QED
        BY <2>5, <2>6
<1> QED
    BY <1>3, <1>4, <1>5 DEF StreamPart!StreamsWhole, StreamPart!DoneMeansAll, StreamPart!ShownIsStored

--------------------------------------------------------------------------------
(***************************************************************************)
(* What agents say in a chat.                                              *)
(***************************************************************************)
LEMMA ChannelsGiven ==
    /\ DOMAIN ChannelRows = 1..Len(ChannelRows) /\ Len(ChannelRows) \in Nat
    /\ \A i \in DOMAIN ChannelRows : ChannelRows[i].type \in {"telegram", "discord", "slack"}
    /\ Limit["telegram"] \in Nat \ {0} /\ Limit["discord"] \in Nat \ {0}
    /\ \A t \in DOMAIN Texts : Texts[t].len \in Nat
    BY ServicesAssumption DEF ChannelsAssumed

Bot(i) == chatPosts[i].by # ChannelsPart!Person
Whole(a) == Texts[said[a].text].len

\* The last answer taken from the bus.
Routed == Len(said) - Len(outbound)

Post == [by : ChannelsPart!Keys \cup {ChannelsPart!Person}, kind : PostKinds \cup {"text"}, answer : Nat, from : Nat, to : Nat]
Received == [to : ChannelsPart!Keys, post : Nat, known : BOOLEAN]
Answer == [to : ChannelsPart!Keys, text : DOMAIN Texts, failed : BOOLEAN]

ChannelsTyped ==
    /\ todo \in 1..Len(ChannelRows) + 1 /\ channels \subseteq ChannelsPart!Keys
    /\ state \in [ChannelsPart!Keys -> {"off", "open", "on", "failed"}]
    /\ chatPosts \in Seq(Post) /\ inbound \in Seq(Received) /\ outbound \in Seq(Nat) /\ said \in Seq(Answer)
    /\ feed \in [ChannelsPart!Keys -> Seq(Nat)]
    /\ sending \in [answer : Nat, from : Nat]
    /\ \A k \in ChannelsPart!Keys : \A i \in DOMAIN feed[k] : feed[k][i] \in DOMAIN chatPosts
    /\ \A i \in DOMAIN inbound : inbound[i].post \in DOMAIN chatPosts

\* What a bot hears that must not hear itself.
OthersHeard ==
    /\ \A k \in ChannelsPart!Keys : ChannelsPart!Type(k) = "telegram" =>
        \A i \in DOMAIN feed[k] : chatPosts[feed[k][i]].by = ChannelsPart!Person
    /\ ChannelsPart!NoEcho

\* The bus holds what was said last, and nothing of it failed yet.
InLine ==
    /\ Len(outbound) <= Len(said)
    /\ \A i \in DOMAIN outbound : outbound[i] = Routed + i
    /\ \A a \in DOMAIN said : a > Routed => ~said[a].failed

\* What is being sent is the last answer taken, from where its parts have ended.
Underway ==
    sending # ChannelsPart!Resting =>
        /\ sending.answer = Routed /\ Routed > 0 /\ ~said[Routed].failed
        /\ sending.from = 0 \/ sending.from < Whole(Routed)
        /\ \A i \in DOMAIN chatPosts : Bot(i) /\ chatPosts[i].answer = Routed => chatPosts[i].to <= sending.from
        /\ sending.from > 0 => \E i \in DOMAIN chatPosts : Bot(i) /\ chatPosts[i].answer = Routed

\* A bot's posts are parts of what was said to it, and later ones are of later answers.
PartsPosted ==
    /\ \A i \in DOMAIN chatPosts : Bot(i) =>
        LET p == chatPosts[i]
        IN  /\ p.answer \in 1..Routed /\ said[p.answer].to = p.by
            /\ p.from < p.to /\ p.to <= Whole(p.answer)
            /\ ChannelsPart!Type(p.by) # "slack" => p.to - p.from <= Limit[ChannelsPart!Type(p.by)]
    /\ \A i, j \in DOMAIN chatPosts : Bot(i) /\ Bot(j) /\ i < j => chatPosts[i].answer <= chatPosts[j].answer

Follows(i, j) ==
    /\ i < j /\ chatPosts[i].by = chatPosts[j].by
    /\ \A h \in DOMAIN chatPosts : i < h /\ h < j => chatPosts[h].by # chatPosts[i].by
LastByBot(i) == \A h \in DOMAIN chatPosts : i < h => chatPosts[h].by # chatPosts[i].by
PostSettled(i) == chatPosts[i].to = Whole(chatPosts[i].answer) \/ said[chatPosts[i].answer].failed

\* Between two posts of a bot nothing of an answer is missing that did not fail, nor after its last
\* one but what is being sent.
Joined ==
    /\ \A i, j \in DOMAIN chatPosts : Bot(i) /\ Follows(i, j) =>
        IF chatPosts[i].answer = chatPosts[j].answer THEN chatPosts[j].from = chatPosts[i].to
                                                     ELSE chatPosts[j].from = 0 /\ PostSettled(i)
    /\ \A i \in DOMAIN chatPosts : Bot(i) /\ LastByBot(i) =>
        PostSettled(i) \/ (sending.answer = chatPosts[i].answer /\ sending.from = chatPosts[i].to)

ChannelsInv == ChannelsTyped /\ OthersHeard /\ InLine /\ Underway /\ PartsPosted /\ Joined

LEMMA LeastIn ==
    ASSUME NEW S, \A i \in S : i \in Nat, S # {}
    PROVE  \E i \in S : \A j \in S : i <= j
<1> DEFINE R == OpToRel(<, Nat)
<1>1. IsWellFoundedOn(R, Nat)
    BY NatLessThanWellFounded
<1>2. S \subseteq Nat
    OBVIOUS
<1> HIDE DEF R
<1>3. PICK i \in S : \A j \in S : ~(<<j, i>> \in R)
    BY <1>1, <1>2, WFMin
<1>4. \A j \in Nat : j < i => <<j, i>> \in R
    BY DEF R, OpToRel
<1>5. ASSUME NEW j \in S PROVE i <= j
    <2>1. i \in Nat /\ j \in Nat /\ ~(j < i)
        BY <1>3, <1>4
    <2> QED
        BY <2>1
<1> QED
    BY <1>5

LEMMA GreatestIn ==
    ASSUME NEW n \in Nat, NEW S, \A i \in S : i \in Nat /\ i <= n, S # {}
    PROVE  \E i \in S : \A j \in S : j <= i
<1> DEFINE T == {n - i : i \in S}
<1>1. T # {} /\ \A x \in T : x \in Nat
    OBVIOUS
<1> HIDE DEF T
<1>2. PICK x \in T : \A y \in T : x <= y
    BY <1>1, LeastIn
<1>3. PICK i \in S : x = n - i
    BY DEF T
<1>4. ASSUME NEW j \in S PROVE j <= i
    <2>1. n - j \in T
        BY DEF T
    <2> QED
        BY <1>2, <1>3, <2>1
<1> QED
    BY <1>4

\* The adapters are of the three types, and none is a person.
LEMMA KeyTypes ==
    /\ \A t \in ChannelsPart!Types : t \in {"telegram", "discord", "slack"} /\ <<t, ChannelsPart!NoAccount>> \in ChannelsPart!Keys /\ ChannelsPart!Type(<<t, ChannelsPart!NoAccount>>) = t
    /\ \A k \in ChannelsPart!Keys : ChannelsPart!Type(k) \in {"telegram", "discord", "slack"} /\ k # ChannelsPart!Person
    /\ \A i \in DOMAIN ChannelRows : {ChannelRows[i].type} \X ChannelsPart!Accounts(ChannelRows[i]) \subseteq ChannelsPart!Keys
<1>1. \A t \in ChannelsPart!Types : t \in {"telegram", "discord", "slack"}
    BY ChannelsGiven DEF ChannelsPart!Types
<1>2. ASSUME NEW t \in ChannelsPart!Types PROVE <<t, ChannelsPart!NoAccount>> \in ChannelsPart!Keys /\ ChannelsPart!Type(<<t, ChannelsPart!NoAccount>>) = t
    <2>1. <<t, ChannelsPart!NoAccount>> \in ChannelsPart!Types \X {ChannelsPart!NoAccount}
        OBVIOUS
    <2>2. <<t, ChannelsPart!NoAccount>> \in ChannelsPart!Keys
        BY <2>1 DEF ChannelsPart!Keys
    <2> QED
        BY <2>2 DEF ChannelsPart!Type
<1>3. ASSUME NEW i \in DOMAIN ChannelRows PROVE {ChannelRows[i].type} \X ChannelsPart!Accounts(ChannelRows[i]) \subseteq ChannelsPart!Keys
    BY DEF ChannelsPart!Keys
<1>4. ASSUME NEW k \in ChannelsPart!Keys PROVE ChannelsPart!Type(k) \in {"telegram", "discord", "slack"}
    <2>1. CASE k \in ChannelsPart!Types \X {ChannelsPart!NoAccount}
        BY <1>1, <2>1 DEF ChannelsPart!Type
    <2>2. CASE \E i \in DOMAIN ChannelRows : k \in {ChannelRows[i].type} \X ChannelsPart!Accounts(ChannelRows[i])
        <3>1. PICK i \in DOMAIN ChannelRows : k \in {ChannelRows[i].type} \X ChannelsPart!Accounts(ChannelRows[i])
            BY <2>2
        <3>2. k[1] = ChannelRows[i].type
            BY <3>1
        <3> QED
            BY <3>2, ChannelsGiven DEF ChannelsPart!Type
    <2>3. k \in UNION {{ChannelRows[i].type} \X ChannelsPart!Accounts(ChannelRows[i]) : i \in DOMAIN ChannelRows} \/ k \in ChannelsPart!Types \X {ChannelsPart!NoAccount}
        BY DEF ChannelsPart!Keys
    <2>4. k \in UNION {{ChannelRows[i].type} \X ChannelsPart!Accounts(ChannelRows[i]) : i \in DOMAIN ChannelRows} =>
            \E i \in DOMAIN ChannelRows : k \in {ChannelRows[i].type} \X ChannelsPart!Accounts(ChannelRows[i])
        OBVIOUS
    <2> QED
        BY <2>1, <2>2, <2>3, <2>4
<1>5. ChannelsPart!Type(ChannelsPart!Person) = "person"
    BY DEF ChannelsPart!Type, ChannelsPart!Person
<1> QED
    BY <1>1, <1>2, <1>3, <1>4, <1>5

\* A part is not empty, ends within the text and is not longer than its channel allows.
LEMMA CutGrows ==
    ASSUME NEW type \in {"telegram", "discord", "slack"}, NEW t \in DOMAIN Texts,
           NEW from \in Nat, from < Texts[t].len
    PROVE  LET cut == ChannelsPart!Cut(type, Texts[t], from)
           IN  /\ cut \in Nat /\ from < cut /\ cut <= Texts[t].len
               /\ type # "slack" => cut - from <= Limit[type]
<1> DEFINE text == Texts[t]
<1>1. PICK n : n = Texts[t].len
    OBVIOUS
<1>2. n \in Nat /\ from < n
    BY <1>1, ChannelsGiven
<1>3. CASE type = "slack"
    <2>1. ChannelsPart!Cut(type, text, from) = n
        BY <1>1, <1>3 DEF ChannelsPart!Cut
    <2> QED
        BY <1>1, <1>2, <1>3, <2>1
<1>4. CASE type = "discord"
    <2>1. PICK l : l = Limit["discord"]
        OBVIOUS
    <2>2. l \in Nat \ {0}
        BY <2>1, ChannelsGiven
    <2>3. ChannelsPart!Cut(type, text, from) = IF n - from > l THEN from + l ELSE n
        BY <1>1, <1>4, <2>1 DEF ChannelsPart!Cut, ChannelsPart!CutDiscord
    <2> QED
        BY <1>1, <1>2, <1>4, <2>1, <2>2, <2>3
<1>5. CASE type = "telegram"
    <2>1. PICK l : l = Limit["telegram"]
        OBVIOUS
    <2>2. PICK reach : reach = from + l
        OBVIOUS
    <2>3. l \in Nat \ {0} /\ reach \in Nat /\ from < reach
        BY <2>1, <2>2, ChannelsGiven
    <2> DEFINE line(i)    == i \in text.lines
               paragraphs == {i \in from + 3 .. reach : line(i) /\ line(i - 1)}
               ends       == {i \in from + 2 .. reach : line(i)}
               Latest(S)  == CHOOSE i \in S : \A j \in S : j <= i
    <2>4. ChannelsPart!Cut(type, text, from) = IF n <= reach THEN n
                                               ELSE IF paragraphs # {} THEN Latest(paragraphs)
                                               ELSE IF ends # {} THEN Latest(ends) ELSE reach
        BY <1>1, <1>5, <2>1, <2>2 DEF ChannelsPart!Cut, ChannelsPart!CutTelegram
    <2>5. /\ \A i \in paragraphs : i \in Nat /\ from < i /\ i <= reach
          /\ \A i \in ends : i \in Nat /\ from < i /\ i <= reach
        BY <2>3
    <2> HIDE DEF paragraphs, ends
    <2>6. ASSUME NEW S, \A i \in S : i \in Nat /\ from < i /\ i <= reach, S # {}
          PROVE  Latest(S) \in S
        <3>1. \E i \in S : \A j \in S : j <= i
            BY <2>3, <2>6, GreatestIn
        <3> QED
            BY <3>1
    <2> HIDE DEF Latest
    <2>7. /\ ChannelsPart!Cut(type, text, from) \in Nat /\ from < ChannelsPart!Cut(type, text, from)
          /\ ChannelsPart!Cut(type, text, from) <= reach /\ ChannelsPart!Cut(type, text, from) <= n
        <3>1. CASE n <= reach
            BY <1>2, <2>4, <3>1
        <3>2. CASE ~(n <= reach) /\ paragraphs # {}
            BY <1>2, <2>3, <2>4, <2>5, <2>6, <3>2
        <3>3. CASE ~(n <= reach) /\ paragraphs = {} /\ ends # {}
            BY <1>2, <2>3, <2>4, <2>5, <2>6, <3>3
        <3>4. CASE ~(n <= reach) /\ paragraphs = {} /\ ends = {}
            BY <1>2, <2>3, <2>4, <3>4
        <3> QED
            BY <3>1, <3>2, <3>3, <3>4
    <2> QED
        BY <1>1, <1>5, <2>1, <2>2, <2>3, <2>7
<1> QED
    BY <1>3, <1>4, <1>5

LEMMA AppendedTo ==
    ASSUME NEW S, NEW s \in Seq(S), NEW x \in S
    PROVE  /\ Append(s, x) \in Seq(S) /\ Len(Append(s, x)) = Len(s) + 1
           /\ DOMAIN Append(s, x) = 1..Len(s) + 1 /\ DOMAIN s = 1..Len(s) /\ Len(s) \in Nat
           /\ Append(s, x)[Len(s) + 1] = x /\ \A i \in 1..Len(s) : Append(s, x)[i] = s[i]
    BY AppendProperties

\* Steps that touch neither the chats nor the answers.
LEMMA NothingPosted ==
    ASSUME InLine, Underway, PartsPosted, Joined,
           chatPosts' = chatPosts, said' = said, outbound' = outbound, sending' = sending
    PROVE  InLine' /\ Underway' /\ PartsPosted' /\ Joined'
<1>1. Routed' = Routed
    BY DEF Routed
<1>2. InLine'
    BY <1>1 DEF InLine
<1>3. Underway'
    BY <1>1 DEF Underway, Bot, Whole
<1>4. PartsPosted'
    BY <1>1 DEF PartsPosted, Bot, Whole
<1>5. Joined'
    BY DEF Joined, Bot, Follows, LastByBot, PostSettled, Whole
<1> QED
    BY <1>2, <1>3, <1>4, <1>5

\* Starting up.
LEMMA RegisterSound == ASSUME ChannelsInv, ChannelsPart!RegisterNext PROVE ChannelsInv'
<1>1. ChannelsTyped /\ OthersHeard /\ InLine /\ Underway /\ PartsPosted /\ Joined
    BY DEF ChannelsInv
<1>2. /\ UNCHANGED <<state, chatPosts, feed, inbound, outbound, said, sending>>
      /\ todo <= Len(ChannelRows) /\ todo' = todo + 1
    BY DEF ChannelsPart!RegisterNext, ChannelsPart!chat
<1>3. todo \in DOMAIN ChannelRows /\ todo' \in 1..Len(ChannelRows) + 1
    BY <1>1, <1>2, ChannelsGiven DEF ChannelsTyped
<1>4. channels' \subseteq ChannelsPart!Keys
    <2>1. CASE channels' = channels
        BY <1>1, <2>1 DEF ChannelsTyped
    <2>2. CASE ChannelsPart!RegisterChannelInstance(ChannelRows[todo])
        <3>1. PICK made \in SUBSET ChannelsPart!Accounts(ChannelRows[todo]) : channels' = channels \cup {ChannelRows[todo].type} \X made
            BY <2>2 DEF ChannelsPart!RegisterChannelInstance
        <3>2. {ChannelRows[todo].type} \X made \subseteq {ChannelRows[todo].type} \X ChannelsPart!Accounts(ChannelRows[todo])
            OBVIOUS
        <3>3. {ChannelRows[todo].type} \X ChannelsPart!Accounts(ChannelRows[todo]) \subseteq ChannelsPart!Keys
            BY <1>3, KeyTypes
        <3> QED
            BY <1>1, <3>1, <3>2, <3>3 DEF ChannelsTyped
    <2> QED
        BY <2>1, <2>2 DEF ChannelsPart!RegisterNext
<1>5. ChannelsTyped'
    BY <1>1, <1>2, <1>3, <1>4 DEF ChannelsTyped
<1>6. OthersHeard'
    BY <1>1, <1>2 DEF OthersHeard, ChannelsPart!NoEcho
<1>7. InLine' /\ Underway' /\ PartsPosted' /\ Joined'
    BY <1>1, <1>2, NothingPosted
<1> QED
    BY <1>5, <1>6, <1>7 DEF ChannelsInv

LEMMA StartsSound ==
    ASSUME ChannelsInv, NEW k \in ChannelsPart!Keys, ChannelsPart!Start(k) \/ ChannelsPart!StartFails(k) \/ ChannelsPart!KnowsItself(k)
    PROVE  ChannelsInv'
<1>1. ChannelsTyped /\ OthersHeard /\ InLine /\ Underway /\ PartsPosted /\ Joined
    BY DEF ChannelsInv
<1>2. /\ UNCHANGED <<todo, channels, chatPosts, feed, inbound, outbound, said, sending>>
      /\ \E s \in {"off", "open", "on", "failed"} : state' = [state EXCEPT ![k] = s]
    BY DEF ChannelsPart!Start, ChannelsPart!StartFails, ChannelsPart!KnowsItself, ChannelsPart!chat
<1>3. ChannelsTyped'
    BY <1>1, <1>2 DEF ChannelsTyped
<1>4. OthersHeard'
    BY <1>1, <1>2 DEF OthersHeard, ChannelsPart!NoEcho
<1>5. InLine' /\ Underway' /\ PartsPosted' /\ Joined'
    BY <1>1, <1>2, NothingPosted
<1> QED
    BY <1>3, <1>4, <1>5 DEF ChannelsInv

\* A post reaches the adapters that listen; no telegram bot hears a bot.
LEMMA PostIsHeard ==
    ASSUME ChannelsTyped, OthersHeard, NEW type, NEW post \in Post, ChannelsPart!Posted(type, post), inbound' = inbound
    PROVE  /\ chatPosts' \in Seq(Post) /\ Len(chatPosts') = Len(chatPosts) + 1 /\ Len(chatPosts) \in Nat
           /\ DOMAIN chatPosts = 1..Len(chatPosts) /\ DOMAIN chatPosts' = 1..Len(chatPosts) + 1
           /\ chatPosts'[Len(chatPosts) + 1] = post /\ \A i \in DOMAIN chatPosts : chatPosts'[i] = chatPosts[i]
           /\ feed' \in [ChannelsPart!Keys -> Seq(Nat)]
           /\ \A k \in ChannelsPart!Keys : \A i \in DOMAIN feed'[k] : feed'[k][i] \in DOMAIN chatPosts'
           /\ \A i \in DOMAIN inbound' : inbound'[i].post \in DOMAIN chatPosts'
           /\ OthersHeard'
<1> DEFINE n == Len(chatPosts) + 1
<1>1. /\ chatPosts' \in Seq(Post) /\ Len(chatPosts') = n /\ Len(chatPosts) \in Nat
      /\ DOMAIN chatPosts = 1..Len(chatPosts) /\ DOMAIN chatPosts' = 1..n
      /\ chatPosts'[n] = post /\ \A i \in DOMAIN chatPosts : chatPosts'[i] = chatPosts[i]
    <2>1. chatPosts \in Seq(Post) /\ chatPosts' = Append(chatPosts, post)
        BY DEF ChannelsTyped, ChannelsPart!Posted
    <2>2. /\ Append(chatPosts, post) \in Seq(Post) /\ Len(Append(chatPosts, post)) = n /\ Len(chatPosts) \in Nat
          /\ DOMAIN chatPosts = 1..Len(chatPosts) /\ DOMAIN Append(chatPosts, post) = 1..n
          /\ Append(chatPosts, post)[n] = post /\ \A i \in 1..Len(chatPosts) : Append(chatPosts, post)[i] = chatPosts[i]
        BY <2>1, AppendedTo
    <2> QED
        BY <2>1, <2>2
<1>2. ASSUME NEW k \in ChannelsPart!Keys
      PROVE  /\ feed'[k] \in Seq(Nat)
             /\ \A i \in DOMAIN feed'[k] : feed'[k][i] \in DOMAIN chatPosts'
             /\ ChannelsPart!Type(k) = "telegram" => \A i \in DOMAIN feed'[k] : chatPosts'[feed'[k][i]].by = ChannelsPart!Person
    <2>1. PICK f : f = feed[k]
        OBVIOUS
    <2>2. /\ f \in Seq(Nat) /\ (\A i \in DOMAIN f : f[i] \in DOMAIN chatPosts)
          /\ ChannelsPart!Type(k) = "telegram" => \A i \in DOMAIN f : chatPosts[f[i]].by = ChannelsPart!Person
        BY <2>1 DEF ChannelsTyped, OthersHeard
    <2>3. feed'[k] = IF ChannelsPart!Hears(k, type, post.by) THEN Append(f, n) ELSE f
        BY <2>1 DEF ChannelsPart!Posted
    <2>4. \A i \in DOMAIN f : f[i] \in DOMAIN chatPosts' /\ (ChannelsPart!Type(k) = "telegram" => chatPosts'[f[i]].by = ChannelsPart!Person)
        BY <1>1, <2>2
    <2>5. CASE ~ChannelsPart!Hears(k, type, post.by)
        BY <2>2, <2>3, <2>4, <2>5
    <2>6. CASE ChannelsPart!Hears(k, type, post.by)
        <3>1. ChannelsPart!Type(k) = "telegram" => post.by = ChannelsPart!Person
            BY <2>6 DEF ChannelsPart!Hears
        <3>2. PICK g : g = Append(f, n)
            OBVIOUS
        <3>3. n \in Nat
            BY <1>1
        <3>4. /\ g \in Seq(Nat) /\ DOMAIN g = 1..Len(f) + 1 /\ DOMAIN f = 1..Len(f) /\ Len(f) \in Nat
              /\ g[Len(f) + 1] = n /\ \A i \in 1..Len(f) : g[i] = f[i]
            BY <2>2, <3>2, <3>3, AppendedTo
        <3>5. ASSUME NEW i \in DOMAIN g
              PROVE  g[i] \in DOMAIN chatPosts' /\ (ChannelsPart!Type(k) = "telegram" => chatPosts'[g[i]].by = ChannelsPart!Person)
            <4>1. CASE i \in 1..Len(f)
                BY <2>4, <3>4, <4>1
            <4>2. CASE i = Len(f) + 1
                BY <1>1, <3>1, <3>4, <4>2
            <4> QED
                BY <3>4, <4>1, <4>2
        <3>6. feed'[k] = g
            BY <2>3, <2>6, <3>2
        <3> QED
            BY <3>4, <3>5, <3>6
    <2> QED
        BY <2>5, <2>6
<1>3. feed' \in [ChannelsPart!Keys -> Seq(Nat)]
    <2>1. feed' = [k \in ChannelsPart!Keys |-> feed'[k]]
        BY DEF ChannelsPart!Posted
    <2> QED
        BY <1>2, <2>1
<1>4. \A i \in DOMAIN inbound : inbound[i].post \in DOMAIN chatPosts /\ inbound[i].post \in DOMAIN chatPosts'
    BY <1>1 DEF ChannelsTyped
<1>5. OthersHeard'
    <2>1. ChannelsPart!NoEcho'
        <3>1. ASSUME NEW i \in DOMAIN inbound
              PROVE  chatPosts'[inbound[i].post].by = inbound[i].to =>
                        ChannelsPart!Type(inbound[i].to) = "discord" /\ ~inbound[i].known
            <4>1. chatPosts'[inbound[i].post] = chatPosts[inbound[i].post]
                BY <1>1, <1>4
            <4> QED
                BY <4>1 DEF OthersHeard, ChannelsPart!NoEcho
        <3> QED
            BY <3>1 DEF ChannelsPart!NoEcho
    <2> QED
        BY <1>2, <2>1 DEF OthersHeard
<1> QED
    BY <1>1, <1>2, <1>3, <1>4, <1>5

\* What people write comes between the bots' posts and changes nothing about them.
LEMMA PersonSound ==
    ASSUME ChannelsInv, NEW type \in ChannelsPart!Types, NEW kind \in PostKinds, ChannelsPart!PersonPosts(type, kind)
    PROVE  ChannelsInv'
<1> DEFINE post == [by |-> ChannelsPart!Person, kind |-> kind, answer |-> 0, from |-> 0, to |-> 0]
<1>1. ChannelsTyped /\ OthersHeard /\ InLine /\ Underway /\ PartsPosted /\ Joined
    BY DEF ChannelsInv
<1>2. ChannelsPart!Posted(type, post) /\ UNCHANGED <<todo, channels, state, inbound, outbound, said, sending>>
    BY DEF ChannelsPart!PersonPosts
<1>3. post \in Post /\ post.by = ChannelsPart!Person
    BY DEF Post
<1> HIDE DEF post
<1>4. /\ chatPosts' \in Seq(Post) /\ Len(chatPosts') = Len(chatPosts) + 1 /\ Len(chatPosts) \in Nat
      /\ DOMAIN chatPosts = 1..Len(chatPosts) /\ DOMAIN chatPosts' = 1..Len(chatPosts) + 1
      /\ chatPosts'[Len(chatPosts) + 1] = post /\ \A i \in DOMAIN chatPosts : chatPosts'[i] = chatPosts[i]
      /\ feed' \in [ChannelsPart!Keys -> Seq(Nat)]
      /\ \A k \in ChannelsPart!Keys : \A i \in DOMAIN feed'[k] : feed'[k][i] \in DOMAIN chatPosts'
      /\ \A i \in DOMAIN inbound' : inbound'[i].post \in DOMAIN chatPosts'
      /\ OthersHeard'
    BY <1>1, <1>2, <1>3, PostIsHeard
<1>5. ChannelsTyped'
    BY <1>1, <1>2, <1>4 DEF ChannelsTyped
<1>6. Routed' = Routed
    BY <1>2 DEF Routed
<1>7. InLine'
    BY <1>1, <1>2, <1>6 DEF InLine
<1>8. /\ \A i \in DOMAIN chatPosts : i \in DOMAIN chatPosts' /\ i < Len(chatPosts) + 1 /\ chatPosts'[i] = chatPosts[i]
      /\ \A i \in DOMAIN chatPosts' : chatPosts'[i].by # ChannelsPart!Person => i \in DOMAIN chatPosts
    <2>1. ASSUME NEW i \in DOMAIN chatPosts', chatPosts'[i].by # ChannelsPart!Person PROVE i \in DOMAIN chatPosts
        BY <1>3, <1>4, <2>1
    <2> QED
        BY <1>4, <2>1
<1>9. Underway'
    BY <1>1, <1>2, <1>6, <1>8 DEF Underway, Bot, Whole
<1>10. PartsPosted'
    BY <1>1, <1>2, <1>6, <1>8 DEF PartsPosted, Bot, Whole
<1>11. Joined'
    <2>1. ASSUME NEW i \in DOMAIN chatPosts', NEW j \in DOMAIN chatPosts', Bot(i)', Follows(i, j)'
          PROVE  IF chatPosts'[i].answer = chatPosts'[j].answer THEN chatPosts'[j].from = chatPosts'[i].to
                                                                ELSE chatPosts'[j].from = 0 /\ PostSettled(i)'
        <3>1. chatPosts'[i].by # ChannelsPart!Person /\ chatPosts'[j].by = chatPosts'[i].by
            BY <2>1 DEF Bot, Follows
        <3>2. i \in DOMAIN chatPosts /\ j \in DOMAIN chatPosts
            BY <1>8, <3>1
        <3>3. Bot(i) /\ Follows(i, j)
            BY <1>8, <2>1, <3>2 DEF Bot, Follows
        <3>4. PostSettled(i)' <=> PostSettled(i)
            BY <1>2, <1>8, <3>2 DEF PostSettled, Whole
        <3> QED
            BY <1>1, <1>8, <3>2, <3>3, <3>4 DEF Joined
    <2>2. ASSUME NEW i \in DOMAIN chatPosts', Bot(i)', LastByBot(i)'
          PROVE  PostSettled(i)' \/ (sending'.answer = chatPosts'[i].answer /\ sending'.from = chatPosts'[i].to)
        <3>1. i \in DOMAIN chatPosts
            BY <1>8, <2>2 DEF Bot
        <3>2. Bot(i) /\ LastByBot(i)
            BY <1>8, <2>2, <3>1 DEF Bot, LastByBot
        <3>3. PostSettled(i)' <=> PostSettled(i)
            BY <1>2, <1>8, <3>1 DEF PostSettled, Whole
        <3> QED
            BY <1>1, <1>2, <1>8, <3>1, <3>2, <3>3 DEF Joined
    <2> QED
        BY <2>1, <2>2 DEF Joined
<1> QED
    BY <1>4, <1>5, <1>7, <1>9, <1>10, <1>11 DEF ChannelsInv

\* From the chat to the bus.
LEMMA HandleSound ==
    ASSUME ChannelsInv, NEW k \in ChannelsPart!Keys, ChannelsPart!Handle(k)
    PROVE  ChannelsInv'
<1>1. ChannelsTyped /\ OthersHeard /\ InLine /\ Underway /\ PartsPosted /\ Joined
    BY DEF ChannelsInv
<1>2. /\ UNCHANGED <<todo, channels, state, chatPosts, outbound, said, sending>>
      /\ state[k] \in {"open", "on"} /\ feed[k] # <<>> /\ feed' = [feed EXCEPT ![k] = Tail(@)]
    BY DEF ChannelsPart!Handle
<1>3. PICK f : f = feed[k]
    OBVIOUS
<1>4. f \in Seq(Nat) /\ f # <<>> /\ \A i \in DOMAIN f : f[i] \in DOMAIN chatPosts
    BY <1>1, <1>2, <1>3 DEF ChannelsTyped
<1>5. /\ Tail(f) \in Seq(Nat) /\ Len(f) \in Nat /\ Head(f) = f[1] /\ 1 \in DOMAIN f
      /\ \A i \in DOMAIN Tail(f) : i + 1 \in DOMAIN f /\ Tail(f)[i] = f[i + 1]
    BY <1>4
<1>6. feed'[k] = Tail(f) /\ \A l \in ChannelsPart!Keys \ {k} : feed'[l] = feed[l]
    BY <1>1, <1>2, <1>3 DEF ChannelsTyped
<1>7. \A l \in ChannelsPart!Keys : \A i \in DOMAIN feed'[l] : \E j \in DOMAIN feed[l] : feed'[l][i] = feed[l][j]
    <2>1. ASSUME NEW l \in ChannelsPart!Keys, NEW i \in DOMAIN feed'[l] PROVE \E j \in DOMAIN feed[l] : feed'[l][i] = feed[l][j]
        <3>1. CASE l # k
            BY <1>6, <3>1
        <3>2. CASE l = k
            <4>1. i \in DOMAIN Tail(f)
                BY <1>6, <3>2
            <4>2. i + 1 \in DOMAIN f /\ Tail(f)[i] = f[i + 1]
                BY <1>5, <4>1
            <4> QED
                BY <1>3, <1>6, <3>2, <4>2
        <3> QED
            BY <3>1, <3>2
    <2> QED
        BY <2>1
<1>8. PICK h : h = Head(f)
    OBVIOUS
<1>9. h \in DOMAIN chatPosts /\ h \in Nat /\ (ChannelsPart!Type(k) = "telegram" => chatPosts[h].by = ChannelsPart!Person)
    <2>1. h = feed[k][1] /\ 1 \in DOMAIN feed[k]
        BY <1>3, <1>5, <1>8
    <2>2. h \in DOMAIN chatPosts /\ (ChannelsPart!Type(k) = "telegram" => chatPosts[h].by = ChannelsPart!Person)
        BY <1>1, <2>1 DEF ChannelsTyped, OthersHeard
    <2>3. chatPosts \in Seq(Post)
        BY <1>1 DEF ChannelsTyped
    <2> QED
        BY <2>2, <2>3
<1> DEFINE r == [to |-> k, post |-> h, known |-> state[k] = "on"]
<1>10. r \in Received /\ r.to = k /\ r.post = h /\ r.known = (state[k] = "on")
    BY <1>9 DEF Received
<1>11. inbound' = IF ChannelsPart!Takes(k, chatPosts[h]) THEN Append(inbound, r) ELSE inbound
    BY <1>3, <1>8 DEF ChannelsPart!Handle
<1> HIDE DEF r
<1>12. /\ inbound' \in Seq(Received)
       /\ \A i \in DOMAIN inbound' : (i \in DOMAIN inbound /\ inbound'[i] = inbound[i]) \/
                                     (ChannelsPart!Takes(k, chatPosts[h]) /\ inbound'[i] = r)
    <2>1. inbound \in Seq(Received)
        BY <1>1 DEF ChannelsTyped
    <2>2. CASE ~ChannelsPart!Takes(k, chatPosts[h])
        BY <1>11, <2>1, <2>2
    <2>3. CASE ChannelsPart!Takes(k, chatPosts[h])
        BY <1>10, <1>11, <2>1, <2>3, AppendedTo
    <2> QED
        BY <2>2, <2>3
<1>13. ChannelsPart!Takes(k, chatPosts[h]) /\ chatPosts[h].by = k => ChannelsPart!Type(k) = "discord" /\ state[k] # "on"
    <2>1. k # ChannelsPart!Person /\ ChannelsPart!Type(k) \in {"telegram", "discord", "slack"}
        BY KeyTypes
    <2>2. CASE ChannelsPart!Type(k) = "telegram"
        BY <1>9, <2>1, <2>2
    <2>3. CASE ChannelsPart!Type(k) = "slack"
        BY <2>3 DEF ChannelsPart!Takes, ChannelsPart!SlackTakes
    <2>4. CASE ChannelsPart!Type(k) = "discord"
        BY <2>4 DEF ChannelsPart!Takes, ChannelsPart!DiscordTakes
    <2> QED
        BY <2>1, <2>2, <2>3, <2>4
<1>14. ChannelsTyped'
    <2>1. feed' \in [ChannelsPart!Keys -> Seq(Nat)]
        BY <1>1, <1>2, <1>3, <1>5 DEF ChannelsTyped
    <2>2. \A l \in ChannelsPart!Keys : \A i \in DOMAIN feed'[l] : feed'[l][i] \in DOMAIN chatPosts'
        BY <1>1, <1>2, <1>7 DEF ChannelsTyped
    <2>3. \A i \in DOMAIN inbound' : inbound'[i].post \in DOMAIN chatPosts'
        BY <1>1, <1>2, <1>9, <1>10, <1>12 DEF ChannelsTyped
    <2> QED
        BY <1>1, <1>2, <1>12, <2>1, <2>2, <2>3 DEF ChannelsTyped
<1>15. OthersHeard'
    <2>1. \A l \in ChannelsPart!Keys : ChannelsPart!Type(l) = "telegram" => \A i \in DOMAIN feed'[l] : chatPosts'[feed'[l][i]].by = ChannelsPart!Person
        BY <1>1, <1>2, <1>7 DEF OthersHeard
    <2>2. ChannelsPart!NoEcho'
        <3>1. ASSUME NEW i \in DOMAIN inbound', chatPosts'[inbound'[i].post].by = inbound'[i].to
              PROVE  ChannelsPart!Type(inbound'[i].to) = "discord" /\ ~inbound'[i].known
            <4>1. CASE i \in DOMAIN inbound /\ inbound'[i] = inbound[i]
                BY <1>1, <1>2, <3>1, <4>1 DEF OthersHeard, ChannelsPart!NoEcho
            <4>2. CASE ChannelsPart!Takes(k, chatPosts[h]) /\ inbound'[i] = r
                BY <1>2, <1>10, <1>13, <3>1, <4>2
            <4> QED
                BY <1>12, <4>1, <4>2
        <3> QED
            BY <3>1 DEF ChannelsPart!NoEcho
    <2> QED
        BY <2>1, <2>2 DEF OthersHeard
<1>16. InLine' /\ Underway' /\ PartsPosted' /\ Joined'
    BY <1>1, <1>2, NothingPosted
<1> QED
    BY <1>14, <1>15, <1>16 DEF ChannelsInv

\* What is said last waits behind what was said before, and changes none of it.
LEMMA SaysSound ==
    ASSUME ChannelsTyped, InLine, Underway, PartsPosted, Joined, NEW k \in ChannelsPart!Keys, NEW text \in DOMAIN Texts,
           ChannelsPart!Says(k, text), chatPosts' = chatPosts, sending' = sending
    PROVE  /\ said' \in Seq(Answer) /\ outbound' \in Seq(Nat)
           /\ InLine' /\ Underway' /\ PartsPosted' /\ Joined'
<1> DEFINE x == [to |-> k, text |-> text, failed |-> FALSE]
<1>1. PICK n, m : n = Len(said) /\ m = Len(outbound)
    OBVIOUS
<1>2. x \in Answer /\ ~x.failed
    BY DEF Answer
<1>3. said' = Append(said, x) /\ outbound' = Append(outbound, n + 1)
    BY <1>1 DEF ChannelsPart!Says
<1> HIDE DEF x
<1>4. said \in Seq(Answer) /\ outbound \in Seq(Nat)
    BY DEF ChannelsTyped
<1>5. /\ said' \in Seq(Answer) /\ Len(said') = n + 1 /\ n \in Nat
      /\ DOMAIN said' = 1..n + 1 /\ DOMAIN said = 1..n
      /\ said'[n + 1] = x /\ \A a \in 1..n : said'[a] = said[a]
    BY <1>1, <1>2, <1>3, <1>4, AppendedTo
<1>6. /\ outbound' \in Seq(Nat) /\ Len(outbound') = m + 1 /\ m \in Nat
      /\ DOMAIN outbound' = 1..m + 1 /\ DOMAIN outbound = 1..m
      /\ outbound'[m + 1] = n + 1 /\ \A i \in 1..m : outbound'[i] = outbound[i]
    <2>1. n + 1 \in Nat
        BY <1>5
    <2> QED
        BY <1>1, <1>3, <1>4, <2>1, AppendedTo
<1>7. PICK q : q = Routed
    OBVIOUS
<1>8. q = n - m /\ m <= n /\ q \in Nat /\ q <= n /\ Routed' = q
    BY <1>1, <1>5, <1>6, <1>7 DEF Routed, InLine
<1>9. InLine'
    <2>1. \A i \in DOMAIN outbound' : outbound'[i] = q + i
        <3>1. \A i \in 1..m : outbound[i] = q + i
            BY <1>6, <1>7 DEF InLine
        <3>2. n + 1 = q + (m + 1)
            BY <1>5, <1>6, <1>8
        <3> QED
            BY <1>6, <3>1, <3>2
    <2>2. \A a \in DOMAIN said' : a > q => ~said'[a].failed
        <3>1. \A a \in 1..n : a > q => ~said[a].failed
            BY <1>5, <1>7 DEF InLine
        <3> QED
            BY <1>2, <1>5, <3>1
    <2> QED
        BY <1>1, <1>5, <1>6, <1>8, <2>1, <2>2 DEF InLine
<1>10. \A a \in 1..q : said'[a] = said[a] /\ Whole(a)' = Whole(a)
    BY <1>5, <1>8 DEF Whole
<1>11. Underway'
    <2>1. CASE sending = ChannelsPart!Resting
        BY <2>1 DEF Underway, ChannelsPart!Resting
    <2>2. CASE sending # ChannelsPart!Resting
        <3>1. q \in 1..q
            BY <1>7, <1>8, <2>2 DEF Underway
        <3>2. said'[q] = said[q] /\ Whole(q)' = Whole(q)
            BY <1>10, <3>1
        <3>3. Texts[said'[Routed'].text].len = Texts[said[q].text].len
            BY <1>8, <3>2
        <3> QED
            BY <1>7, <1>8, <2>2, <3>2, <3>3 DEF Underway, Bot, Whole
    <2> QED
        BY <2>1, <2>2
<1>12. \A i \in DOMAIN chatPosts : Bot(i) => chatPosts[i].answer \in 1..q
    BY <1>7 DEF PartsPosted
<1>13. PartsPosted'
    <2>1. ASSUME NEW i \in DOMAIN chatPosts, Bot(i)
          PROVE  LET p == chatPosts[i]
                 IN  /\ p.answer \in 1..Routed' /\ said'[p.answer].to = p.by
                     /\ p.from < p.to /\ p.to <= Texts[said'[p.answer].text].len
                     /\ ChannelsPart!Type(p.by) # "slack" => p.to - p.from <= Limit[ChannelsPart!Type(p.by)]
        <3>1. chatPosts[i].answer \in 1..q /\ said'[chatPosts[i].answer] = said[chatPosts[i].answer]
            BY <1>10, <1>12, <2>1
        <3> QED
            BY <1>8, <2>1, <3>1 DEF PartsPosted, Whole
    <2> QED
        BY <2>1 DEF PartsPosted, Bot, Whole
<1>14. \A i \in DOMAIN chatPosts : Bot(i) => (PostSettled(i)' <=> PostSettled(i))
    BY <1>10, <1>12 DEF PostSettled, Whole
<1>15. Joined'
    BY <1>14 DEF Joined, Bot, Follows, LastByBot
<1> QED
    BY <1>5, <1>6, <1>9, <1>11, <1>13, <1>15

LEMMA RepliesSound ==
    ASSUME ChannelsInv, NEW text \in DOMAIN Texts,
           ChannelsPart!Replies(text) \/ \E type \in ChannelsPart!Types : ChannelsPart!MessageTool(type, text)
    PROVE  ChannelsInv'
<1>1. ChannelsTyped /\ OthersHeard /\ InLine /\ Underway /\ PartsPosted /\ Joined
    BY DEF ChannelsInv
<1>2. UNCHANGED <<todo, channels, state, chatPosts, feed, sending>>
    BY DEF ChannelsPart!Replies, ChannelsPart!MessageTool, ChannelsPart!chat
<1>3. /\ \E k \in ChannelsPart!Keys : ChannelsPart!Says(k, text)
      /\ inbound' \in Seq(Received)
      /\ \A i \in DOMAIN inbound' : \E j \in DOMAIN inbound : inbound'[i] = inbound[j]
    <2>1. inbound \in Seq(Received)
        BY <1>1 DEF ChannelsTyped
    <2>2. CASE ChannelsPart!Replies(text)
        <3>1. inbound # <<>> /\ inbound' = Tail(inbound) /\ ChannelsPart!Says(Head(inbound).to, text)
            BY <2>2 DEF ChannelsPart!Replies
        <3>2. Head(inbound) \in Received
            BY <2>1, <3>1
        <3>3. Head(inbound).to \in ChannelsPart!Keys
            BY <3>2 DEF Received
        <3>4. /\ inbound' \in Seq(Received)
              /\ \A i \in DOMAIN inbound' : i + 1 \in DOMAIN inbound /\ inbound'[i] = inbound[i + 1]
            BY <2>1, <3>1
        <3> QED
            BY <3>1, <3>3, <3>4
    <2>3. ASSUME NEW type \in ChannelsPart!Types, ChannelsPart!MessageTool(type, text)
          PROVE  (\E k \in ChannelsPart!Keys : ChannelsPart!Says(k, text)) /\ inbound' = inbound
        BY <2>3, KeyTypes DEF ChannelsPart!MessageTool
    <2> QED
        BY <2>1, <2>2, <2>3
<1>4. PICK k \in ChannelsPart!Keys : ChannelsPart!Says(k, text)
    BY <1>3
<1>5. said' \in Seq(Answer) /\ outbound' \in Seq(Nat) /\ InLine' /\ Underway' /\ PartsPosted' /\ Joined'
    BY <1>1, <1>2, <1>4, SaysSound
<1>6. ChannelsTyped'
    <2>1. \A i \in DOMAIN inbound' : inbound'[i].post \in DOMAIN chatPosts'
        BY <1>1, <1>2, <1>3 DEF ChannelsTyped
    <2> QED
        BY <1>1, <1>2, <1>3, <1>5, <2>1 DEF ChannelsTyped
<1>7. OthersHeard'
    BY <1>1, <1>2, <1>3 DEF OthersHeard, ChannelsPart!NoEcho
<1> QED
    BY <1>5, <1>6, <1>7 DEF ChannelsInv

\* An answer taken from the bus is the one that was said longest ago, and nothing is being sent.
LEMMA RouteSound == ASSUME ChannelsInv, ChannelsPart!RouteOutbound PROVE ChannelsInv'
<1>1. ChannelsTyped /\ OthersHeard /\ InLine /\ Underway /\ PartsPosted /\ Joined
    BY DEF ChannelsInv
<1>2. /\ UNCHANGED <<todo, channels, state, chatPosts, feed, inbound>>
      /\ outbound # <<>> /\ sending = ChannelsPart!Resting /\ outbound' = Tail(outbound)
    BY DEF ChannelsPart!RouteOutbound, ChannelsPart!chat
<1>3. PICK n, m, q, h : n = Len(said) /\ m = Len(outbound) /\ q = Routed /\ h = Head(outbound)
    OBVIOUS
<1>4. /\ n \in Nat /\ m \in Nat /\ m > 0 /\ DOMAIN said = 1..n /\ DOMAIN outbound = 1..m /\ h = outbound[1]
      /\ said \in Seq(Answer) /\ outbound \in Seq(Nat)
      /\ outbound' \in Seq(Nat) /\ Len(outbound') = m - 1 /\ DOMAIN outbound' = 1..m - 1
      /\ \A i \in 1..m - 1 : outbound'[i] = outbound[i + 1]
    BY <1>1, <1>2, <1>3 DEF ChannelsTyped
<1>5. /\ q = n - m /\ m <= n /\ q \in Nat /\ h = q + 1 /\ h \in 1..n
      /\ (\A i \in 1..m : outbound[i] = q + i) /\ (\A a \in 1..n : a > q => ~said[a].failed)
    <2>1. q = n - m /\ m <= n /\ (\A i \in 1..m : outbound[i] = q + i) /\ (\A a \in 1..n : a > q => ~said[a].failed)
        BY <1>1, <1>3, <1>4 DEF Routed, InLine
    <2> QED
        BY <1>4, <2>1
<1>6. /\ said' \in Seq(Answer) /\ Len(said') = n /\ DOMAIN said' = 1..n
      /\ \A a \in 1..n : said'[a].to = said[a].to /\ said'[a].text = said[a].text
      /\ \A a \in 1..n : a # h => said'[a] = said[a]
      /\ \/ sending' = [answer |-> h, from |-> 0] /\ said' = said
         \/ sending' = ChannelsPart!Resting
    <2>1. CASE sending' = [answer |-> h, from |-> 0] /\ said' = said
        BY <1>3, <1>4, <2>1
    <2>2. CASE said' = [said EXCEPT ![h].failed = said[h].to \notin channels] /\ sending' = sending
        <3>1. PICK b \in BOOLEAN : said' = [said EXCEPT ![h].failed = b]
            BY <2>2
        <3>2. said[h] \in Answer
            BY <1>4, <1>5
        <3>3. [said[h] EXCEPT !.failed = b] \in Answer
            BY <3>2 DEF Answer
        <3>4. said' = [said EXCEPT ![h] = [said[h] EXCEPT !.failed = b]]
            BY <3>1
        <3>5. said' \in Seq(Answer) /\ Len(said') = n /\ DOMAIN said' = 1..n
            <4>1. said \in Seq(Answer) /\ h \in 1..Len(said) /\ n = Len(said) /\ n \in Nat
                BY <1>3, <1>4, <1>5
            <4>2. PICK e \in Answer : e = [said[h] EXCEPT !.failed = b]
                BY <3>3
            <4> QED
                BY <3>4, <4>1, <4>2, ExceptSeq
        <3>6. \A a \in 1..n : said'[a].to = said[a].to /\ said'[a].text = said[a].text
            BY <1>4, <1>5, <3>2, <3>4 DEF Answer
        <3> QED
            BY <1>2, <1>4, <2>2, <3>4, <3>5, <3>6
    <2> QED
        BY <1>3, <2>1, <2>2 DEF ChannelsPart!RouteOutbound
<1>7. Routed' = q + 1
    BY <1>4, <1>5, <1>6 DEF Routed
<1>8. \A i \in DOMAIN chatPosts : Bot(i) => chatPosts[i].answer \in 1..q
    BY <1>1, <1>3 DEF PartsPosted
<1>9. \A a \in 1..q : a \in 1..n /\ a # h /\ said'[a] = said[a] /\ Whole(a)' = Whole(a)
    BY <1>5, <1>6 DEF Whole
<1>10. InLine'
    <2>1. Len(outbound') <= Len(said')
        BY <1>4, <1>5, <1>6
    <2>2. \A i \in DOMAIN outbound' : outbound'[i] = Routed' + i
        BY <1>4, <1>5, <1>7
    <2>3. \A a \in DOMAIN said' : a > Routed' => ~said'[a].failed
        BY <1>5, <1>6, <1>7
    <2> QED
        BY <2>1, <2>2, <2>3 DEF InLine
<1>11. Underway'
    <2>1. CASE sending' = ChannelsPart!Resting
        BY <2>1 DEF Underway, ChannelsPart!Resting
    <2>2. CASE sending' = [answer |-> h, from |-> 0] /\ said' = said
        <3>1. sending'.answer = Routed' /\ Routed' > 0 /\ sending'.from = 0 /\ ~said'[Routed'].failed
            BY <1>5, <1>7, <2>2
        <3>2. \A i \in DOMAIN chatPosts : Bot(i) => chatPosts[i].answer # Routed'
            BY <1>5, <1>7, <1>8
        <3> QED
            BY <1>2, <3>1, <3>2 DEF Underway, Bot, Whole
    <2> QED
        BY <1>6, <2>1, <2>2
<1>12. PartsPosted'
    <2>1. ASSUME NEW i \in DOMAIN chatPosts, Bot(i)
          PROVE  LET p == chatPosts[i]
                 IN  /\ p.answer \in 1..Routed' /\ said'[p.answer].to = p.by
                     /\ p.from < p.to /\ p.to <= Texts[said'[p.answer].text].len
                     /\ ChannelsPart!Type(p.by) # "slack" => p.to - p.from <= Limit[ChannelsPart!Type(p.by)]
        <3>1. chatPosts[i].answer \in 1..q /\ said'[chatPosts[i].answer] = said[chatPosts[i].answer]
            BY <1>8, <1>9, <2>1
        <3>2. chatPosts[i].answer \in 1..Routed'
            BY <1>5, <1>7, <3>1
        <3> QED
            BY <1>1, <2>1, <3>1, <3>2 DEF PartsPosted, Whole
    <2>2. \A i, j \in DOMAIN chatPosts : Bot(i) /\ Bot(j) /\ i < j => chatPosts[i].answer <= chatPosts[j].answer
        BY <1>1 DEF PartsPosted
    <2> QED
        BY <1>2, <2>1, <2>2 DEF PartsPosted, Bot, Whole
<1>13. \A i \in DOMAIN chatPosts : Bot(i) => (PostSettled(i)' <=> PostSettled(i))
    BY <1>2, <1>8, <1>9 DEF PostSettled, Whole
<1>14. \A i \in DOMAIN chatPosts : Bot(i) => sending.answer # chatPosts[i].answer
    BY <1>2, <1>5, <1>8 DEF ChannelsPart!Resting
<1>15. Joined'
    <2>1. \A i, j \in DOMAIN chatPosts : Bot(i) /\ Follows(i, j) =>
            IF chatPosts[i].answer = chatPosts[j].answer THEN chatPosts[j].from = chatPosts[i].to
                                                         ELSE chatPosts[j].from = 0 /\ PostSettled(i)'
        BY <1>1, <1>13 DEF Joined
    <2>2. \A i \in DOMAIN chatPosts : Bot(i) /\ LastByBot(i) => PostSettled(i)'
        BY <1>1, <1>13, <1>14 DEF Joined
    <2> QED
        BY <1>2, <2>1, <2>2 DEF Joined, Bot, Follows, LastByBot
<1>16. ChannelsTyped'
    <2>1. sending' \in [answer : Nat, from : Nat]
        BY <1>4, <1>5, <1>6 DEF ChannelsPart!Resting
    <2> QED
        BY <1>1, <1>2, <1>4, <1>6, <2>1 DEF ChannelsTyped
<1>17. OthersHeard'
    BY <1>1, <1>2 DEF OthersHeard, ChannelsPart!NoEcho
<1> QED
    BY <1>10, <1>11, <1>12, <1>15, <1>16, <1>17 DEF ChannelsInv

\* A refused part ends its answer: what had arrived of it is all there is.
LEMMA FailSound == ASSUME ChannelsInv, ChannelsPart!SendFails PROVE ChannelsInv'
<1>1. ChannelsTyped /\ OthersHeard /\ InLine /\ Underway /\ PartsPosted /\ Joined
    BY DEF ChannelsInv
<1>2. /\ UNCHANGED <<todo, channels, state, chatPosts, feed, inbound, outbound>>
      /\ sending # ChannelsPart!Resting /\ sending' = ChannelsPart!Resting
      /\ said' = [said EXCEPT ![sending.answer].failed = TRUE]
    BY DEF ChannelsPart!SendFails, ChannelsPart!chat
<1>3. PICK n, q : n = Len(said) /\ q = Routed
    OBVIOUS
<1>4. /\ sending.answer = q /\ q > 0 /\ q \in Nat /\ q <= n /\ n \in Nat /\ said \in Seq(Answer)
      /\ DOMAIN said = 1..n /\ q \in 1..n
    <2>1. /\ sending.answer = q /\ q > 0 /\ said \in Seq(Answer) /\ outbound \in Seq(Nat)
          /\ Len(outbound) <= Len(said) /\ q = Len(said) - Len(outbound)
        BY <1>1, <1>2, <1>3 DEF Underway, ChannelsTyped, InLine, Routed
    <2> QED
        BY <1>3, <2>1
<1>5. /\ said' \in Seq(Answer) /\ Len(said') = n /\ DOMAIN said' = 1..n
      /\ \A a \in 1..n : said'[a].to = said[a].to /\ said'[a].text = said[a].text
      /\ \A a \in 1..n : a # q => said'[a] = said[a]
      /\ said'[q].failed
    <2>1. said[q] \in Answer
        BY <1>4
    <2>2. [said[q] EXCEPT !.failed = TRUE] \in Answer
        BY <2>1 DEF Answer
    <2>3. said' = [said EXCEPT ![q] = [said[q] EXCEPT !.failed = TRUE]]
        BY <1>2, <1>4
    <2>4. said' \in Seq(Answer) /\ Len(said') = n /\ DOMAIN said' = 1..n
        BY <1>3, <1>4, <2>2, <2>3, ExceptSeq
    <2>5. \A a \in 1..n : said'[a].to = said[a].to /\ said'[a].text = said[a].text
        BY <1>4, <2>1, <2>3 DEF Answer
    <2>6. said'[q].failed
        BY <1>4, <2>1, <2>3 DEF Answer
    <2> QED
        BY <1>4, <2>3, <2>4, <2>5, <2>6
<1>6. Routed' = q
    BY <1>2, <1>3, <1>5 DEF Routed
<1>7. \A i \in DOMAIN chatPosts : Bot(i) => chatPosts[i].answer \in 1..q
    BY <1>1, <1>3 DEF PartsPosted
<1>8. InLine'
    <2>1. \A a \in DOMAIN said' : a > q => ~said'[a].failed
        BY <1>1, <1>3, <1>4, <1>5 DEF InLine
    <2> QED
        BY <1>1, <1>2, <1>3, <1>5, <1>6, <2>1 DEF InLine
<1>9. Underway'
    BY <1>2 DEF Underway, ChannelsPart!Resting
<1>10. \A a \in 1..q : a \in 1..n /\ said'[a].to = said[a].to /\ Whole(a)' = Whole(a)
    BY <1>4, <1>5 DEF Whole
<1>11. PartsPosted'
    <2>1. ASSUME NEW i \in DOMAIN chatPosts, Bot(i)
          PROVE  LET p == chatPosts[i]
                 IN  /\ p.answer \in 1..Routed' /\ said'[p.answer].to = p.by
                     /\ p.from < p.to /\ p.to <= Texts[said'[p.answer].text].len
                     /\ ChannelsPart!Type(p.by) # "slack" => p.to - p.from <= Limit[ChannelsPart!Type(p.by)]
        <3>1. chatPosts[i].answer \in 1..q
            BY <1>7, <2>1
        <3>2. said'[chatPosts[i].answer].to = said[chatPosts[i].answer].to /\ said'[chatPosts[i].answer].text = said[chatPosts[i].answer].text
            BY <1>5, <1>10, <3>1
        <3> QED
            BY <1>1, <1>6, <2>1, <3>1, <3>2 DEF PartsPosted, Whole
    <2>2. \A i, j \in DOMAIN chatPosts : Bot(i) /\ Bot(j) /\ i < j => chatPosts[i].answer <= chatPosts[j].answer
        BY <1>1 DEF PartsPosted
    <2> QED
        BY <1>2, <2>1, <2>2 DEF PartsPosted, Bot, Whole
<1>12. ASSUME NEW i \in DOMAIN chatPosts, Bot(i)
       PROVE  (PostSettled(i) => PostSettled(i)') /\ (chatPosts[i].answer = q => PostSettled(i)')
    <2>1. chatPosts[i].answer \in 1..q /\ Whole(chatPosts[i].answer)' = Whole(chatPosts[i].answer)
        BY <1>2, <1>7, <1>10, <1>12 DEF Whole
    <2>2. chatPosts[i].answer # q => said'[chatPosts[i].answer] = said[chatPosts[i].answer]
        BY <1>4, <1>5, <1>10, <2>1
    <2> QED
        BY <1>2, <1>5, <2>1, <2>2 DEF PostSettled
<1>13. Joined'
    <2>1. \A i, j \in DOMAIN chatPosts : Bot(i) /\ Follows(i, j) =>
            IF chatPosts[i].answer = chatPosts[j].answer THEN chatPosts[j].from = chatPosts[i].to
                                                         ELSE chatPosts[j].from = 0 /\ PostSettled(i)'
        BY <1>1, <1>12 DEF Joined
    <2>2. \A i \in DOMAIN chatPosts : Bot(i) /\ LastByBot(i) => PostSettled(i)'
        BY <1>1, <1>4, <1>12 DEF Joined
    <2> QED
        BY <1>2, <2>1, <2>2 DEF Joined, Bot, Follows, LastByBot
<1>14. ChannelsTyped'
    BY <1>1, <1>2, <1>5 DEF ChannelsTyped, ChannelsPart!Resting
<1>15. OthersHeard'
    BY <1>1, <1>2 DEF OthersHeard, ChannelsPart!NoEcho
<1> QED
    BY <1>8, <1>9, <1>11, <1>13, <1>14, <1>15 DEF ChannelsInv

\* A part goes on where the last one of its answer ended.
LEMMA PartSound == ASSUME ChannelsInv, ChannelsPart!SendPart PROVE ChannelsInv'
<1>1. ChannelsTyped /\ OthersHeard /\ InLine /\ Underway /\ PartsPosted /\ Joined
    BY DEF ChannelsInv
<1>2. /\ UNCHANGED <<todo, channels, state, inbound, outbound, said>>
      /\ sending # ChannelsPart!Resting /\ ChannelsPart!Text.len > 0
    BY DEF ChannelsPart!SendPart
<1>3. PICK a, f, e, whole, k :
          a = sending.answer /\ f = sending.from /\ e = ChannelsPart!PartEnd /\ whole = ChannelsPart!Text.len /\ k = ChannelsPart!Current.to
    OBVIOUS
<1>4. /\ a = Routed /\ a > 0 /\ a \in Nat /\ a \in 1..Len(said) /\ said \in Seq(Answer) /\ f \in Nat
      /\ sending = [answer |-> a, from |-> f]
    <2>1. /\ a = Routed /\ a > 0 /\ said \in Seq(Answer) /\ outbound \in Seq(Nat)
          /\ Len(outbound) <= Len(said) /\ a = Len(said) - Len(outbound)
          /\ sending \in [answer : Nat, from : Nat]
        BY <1>1, <1>2, <1>3 DEF Underway, ChannelsTyped, InLine, Routed
    <2>2. sending = [answer |-> a, from |-> f] /\ a \in Nat /\ f \in Nat
        BY <1>3, <2>1
    <2>3. Len(said) \in Nat /\ Len(outbound) \in Nat
        BY <2>1
    <2>4. a \in 1..Len(said)
        BY <2>1, <2>2, <2>3
    <2> QED
        BY <2>1, <2>2, <2>4
<1>5. /\ k = said[a].to /\ k \in ChannelsPart!Keys /\ whole = Whole(a) /\ said[a] \in Answer
      /\ ChannelsPart!Type(k) \in {"telegram", "discord", "slack"} /\ k # ChannelsPart!Person
    <2>1. said[a] \in Answer
        BY <1>4
    <2>2. k = said[a].to /\ k \in ChannelsPart!Keys /\ whole = Whole(a)
        BY <1>3, <2>1 DEF ChannelsPart!Current, ChannelsPart!Text, Whole, Answer
    <2> QED
        BY <2>1, <2>2, KeyTypes
<1>6. /\ ~said[a].failed /\ f < whole
      /\ \A i \in DOMAIN chatPosts : Bot(i) /\ chatPosts[i].answer = a => chatPosts[i].to <= f
      /\ f > 0 => \E i \in DOMAIN chatPosts : Bot(i) /\ chatPosts[i].answer = a
    BY <1>1, <1>2, <1>3, <1>4, <1>5 DEF Underway
<1>7. /\ e \in Nat /\ f < e /\ e <= whole /\ (ChannelsPart!Type(k) # "slack" => e - f <= Limit[ChannelsPart!Type(k)])
    <2>1. PICK t \in DOMAIN Texts : t = said[a].text
        BY <1>5 DEF Answer
    <2>2. PICK type \in {"telegram", "discord", "slack"} : type = ChannelsPart!Type(k)
        BY <1>5
    <2>3. whole = Texts[t].len /\ f < Texts[t].len
        BY <1>5, <1>6, <2>1 DEF Whole
    <2>4. e = ChannelsPart!Cut(type, Texts[t], f)
        BY <1>3, <1>4, <2>1, <2>2 DEF ChannelsPart!PartEnd, ChannelsPart!Text, ChannelsPart!Current
    <2> QED
        BY <1>4, <2>2, <2>3, <2>4, CutGrows
<1> DEFINE post == [by |-> k, kind |-> "text", answer |-> a, from |-> f, to |-> e]
<1>8. post \in Post /\ post.by = k /\ post.answer = a /\ post.from = f /\ post.to = e
    BY <1>4, <1>5, <1>7 DEF Post
<1>9. ChannelsPart!Posted(ChannelsPart!Type(k), post) /\ sending' = IF e = whole THEN ChannelsPart!Resting ELSE [sending EXCEPT !.from = e]
    BY <1>3 DEF ChannelsPart!SendPart, ChannelsPart!GoesOn
<1> HIDE DEF post
<1>10. PICK n : n = Len(chatPosts) + 1
    OBVIOUS
<1>11. /\ chatPosts' \in Seq(Post) /\ n \in Nat /\ n > 0
       /\ DOMAIN chatPosts = 1..n - 1 /\ DOMAIN chatPosts' = 1..n
       /\ chatPosts'[n] = post /\ \A i \in DOMAIN chatPosts : chatPosts'[i] = chatPosts[i]
       /\ feed' \in [ChannelsPart!Keys -> Seq(Nat)]
       /\ \A l \in ChannelsPart!Keys : \A i \in DOMAIN feed'[l] : feed'[l][i] \in DOMAIN chatPosts'
       /\ \A i \in DOMAIN inbound' : inbound'[i].post \in DOMAIN chatPosts'
       /\ OthersHeard'
    BY <1>1, <1>2, <1>8, <1>9, <1>10, PostIsHeard
<1>12. \/ e = whole /\ sending' = ChannelsPart!Resting
       \/ e # whole /\ sending' = [answer |-> a, from |-> e]
    BY <1>4, <1>9
<1>13. Routed' = a
    BY <1>2, <1>4 DEF Routed
<1>14. /\ \A i \in DOMAIN chatPosts : i \in DOMAIN chatPosts' /\ i < n /\ i \in Nat /\ chatPosts'[i] = chatPosts[i]
       /\ \A i \in DOMAIN chatPosts' : i = n \/ i \in DOMAIN chatPosts
       /\ n \in DOMAIN chatPosts' /\ chatPosts'[n].by = k /\ chatPosts'[n].answer = a
       /\ chatPosts'[n].from = f /\ chatPosts'[n].to = e
    <2>1. n \in 1..n /\ \A i \in 1..n : i = n \/ i \in 1..n - 1
        BY <1>11
    <2>2. \A i \in 1..n - 1 : i \in 1..n /\ i < n /\ i \in Nat
        BY <1>11
    <2> QED
        BY <1>8, <1>11, <2>1, <2>2
<1>15. \A i \in DOMAIN chatPosts : (Bot(i)' <=> Bot(i)) /\ (PostSettled(i)' <=> PostSettled(i))
    BY <1>2, <1>14 DEF Bot, PostSettled, Whole
<1>16. \A i \in DOMAIN chatPosts : Bot(i) =>
           /\ chatPosts[i].answer \in 1..a /\ said[chatPosts[i].answer].to = chatPosts[i].by
           /\ chatPosts[i].from \in Nat /\ chatPosts[i].to \in Nat /\ chatPosts[i].from < chatPosts[i].to
    <2>1. ASSUME NEW i \in DOMAIN chatPosts PROVE chatPosts[i].from \in Nat /\ chatPosts[i].to \in Nat
        <3>1. chatPosts[i] \in Post
            BY <1>1 DEF ChannelsTyped
        <3> QED
            BY <3>1 DEF Post
    <2> QED
        BY <1>1, <1>4, <2>1 DEF PartsPosted
<1>17. InLine'
    BY <1>1, <1>2, <1>4, <1>13 DEF InLine
<1>18. ChannelsTyped'
    <2>1. sending' \in [answer : Nat, from : Nat]
        BY <1>4, <1>7, <1>12 DEF ChannelsPart!Resting
    <2> QED
        BY <1>1, <1>2, <1>11, <2>1 DEF ChannelsTyped
<1>19. Underway'
    <2>1. CASE sending' = ChannelsPart!Resting
        BY <2>1 DEF Underway, ChannelsPart!Resting
    <2>2. CASE e # whole /\ sending' = [answer |-> a, from |-> e]
        <3>1. /\ sending'.answer = Routed' /\ Routed' > 0 /\ ~said'[Routed'].failed
              /\ sending'.from = e /\ Routed' = a
            BY <1>2, <1>4, <1>6, <1>13, <2>2
        <3>2. e < Texts[said'[Routed'].text].len
            BY <1>2, <1>5, <1>7, <1>13, <2>2, ChannelsGiven DEF Whole, Answer
        <3>3. \A i \in DOMAIN chatPosts' : chatPosts'[i].by # ChannelsPart!Person /\ chatPosts'[i].answer = a => chatPosts'[i].to <= e
            <4>1. ASSUME NEW i \in DOMAIN chatPosts, chatPosts[i].by # ChannelsPart!Person, chatPosts[i].answer = a PROVE chatPosts[i].to <= e
                BY <1>4, <1>6, <1>7, <1>16, <4>1 DEF Bot
            <4> QED
                BY <1>7, <1>14, <4>1
        <3>4. \E i \in DOMAIN chatPosts' : chatPosts'[i].by # ChannelsPart!Person /\ chatPosts'[i].answer = a
            BY <1>5, <1>14
        <3> QED
            BY <3>1, <3>2, <3>3, <3>4 DEF Underway, Bot, Whole
    <2> QED
        BY <1>12, <2>1, <2>2
<1>20. PartsPosted'
    <2>1. ASSUME NEW i \in DOMAIN chatPosts', chatPosts'[i].by # ChannelsPart!Person
          PROVE  LET p == chatPosts'[i]
                 IN  /\ p.answer \in 1..a /\ said[p.answer].to = p.by
                     /\ p.from < p.to /\ p.to <= Whole(p.answer)
                     /\ ChannelsPart!Type(p.by) # "slack" => p.to - p.from <= Limit[ChannelsPart!Type(p.by)]
        <3>1. CASE i \in DOMAIN chatPosts
            BY <1>1, <1>4, <1>14, <2>1, <3>1 DEF PartsPosted, Bot
        <3>2. CASE i = n
            <4>1. a \in 1..a
                BY <1>4
            <4> QED
                BY <1>5, <1>7, <1>14, <3>2, <4>1
        <3> QED
            BY <1>14, <3>1, <3>2
    <2>2. ASSUME NEW i \in DOMAIN chatPosts', NEW j \in DOMAIN chatPosts',
                 chatPosts'[i].by # ChannelsPart!Person, chatPosts'[j].by # ChannelsPart!Person, i < j
          PROVE  chatPosts'[i].answer <= chatPosts'[j].answer
        <3>1. i \in DOMAIN chatPosts
            BY <1>11, <1>14, <2>2
        <3>2. CASE j \in DOMAIN chatPosts
            BY <1>1, <1>14, <2>2, <3>1, <3>2 DEF PartsPosted, Bot
        <3>3. CASE j = n
            <4>1. chatPosts[i].answer \in 1..a
                BY <1>14, <1>16, <2>2, <3>1 DEF Bot
            <4> QED
                BY <1>4, <1>14, <3>1, <3>3, <4>1
        <3> QED
            BY <1>14, <3>2, <3>3
    <2>3. PICK s : s = said
        OBVIOUS
    <2> QED
        BY <1>2, <1>13, <2>1, <2>2 DEF PartsPosted, Bot, Whole
<1>21. Joined'
    <2>1. ASSUME NEW i \in DOMAIN chatPosts', NEW j \in DOMAIN chatPosts', chatPosts'[i].by # ChannelsPart!Person, Follows(i, j)'
          PROVE  IF chatPosts'[i].answer = chatPosts'[j].answer THEN chatPosts'[j].from = chatPosts'[i].to
                                                                ELSE chatPosts'[j].from = 0 /\ PostSettled(i)'
        <3>1. /\ i < j /\ chatPosts'[i].by = chatPosts'[j].by
              /\ \A h \in DOMAIN chatPosts' : i < h /\ h < j => chatPosts'[h].by # chatPosts'[i].by
            BY <2>1 DEF Follows
        <3>2. i \in DOMAIN chatPosts /\ Bot(i) /\ chatPosts'[i] = chatPosts[i]
            BY <1>11, <1>14, <2>1, <3>1 DEF Bot
        <3>3. CASE j \in DOMAIN chatPosts
            <4>1. Follows(i, j)
                BY <1>14, <3>1, <3>2, <3>3 DEF Follows
            <4> QED
                BY <1>1, <1>14, <1>15, <3>2, <3>3, <4>1 DEF Joined
        <3>4. CASE j = n
            <4>1. LastByBot(i) /\ chatPosts[i].by = k
                <5>1. \A h \in DOMAIN chatPosts : i < h => chatPosts[h].by # chatPosts[i].by
                    BY <1>14, <3>1, <3>2, <3>4
                <5> QED
                    BY <1>14, <3>1, <3>2, <3>4, <5>1 DEF LastByBot
            <4>2. PostSettled(i) \/ (a = chatPosts[i].answer /\ f = chatPosts[i].to)
                BY <1>1, <1>3, <3>2, <4>1 DEF Joined
            <4>3. CASE chatPosts[i].answer = a
                <5>1. CASE PostSettled(i)
                    <6>1. chatPosts[i].to = whole /\ chatPosts[i].to <= f
                        BY <1>5, <1>6, <3>2, <4>3, <5>1 DEF PostSettled
                    <6>2. whole \in Nat
                        BY <1>5, ChannelsGiven DEF Whole, Answer
                    <6> QED
                        BY <1>4, <1>6, <6>1, <6>2
                <5>2. CASE f = chatPosts[i].to
                    BY <1>14, <3>2, <3>4, <4>3, <5>2
                <5> QED
                    BY <4>2, <5>1, <5>2
            <4>4. CASE chatPosts[i].answer # a
                <5>1. PostSettled(i)'
                    BY <1>15, <3>2, <4>2, <4>4
                <5>2. ASSUME f > 0 PROVE FALSE
                    <6>1. PICK g \in DOMAIN chatPosts : Bot(g) /\ chatPosts[g].answer = a
                        BY <1>6, <5>2
                    <6>2. chatPosts[g].by = k
                        BY <1>5, <1>16, <6>1
                    <6>3. ~(i < g) /\ g \in Nat /\ i \in Nat /\ g # i
                        BY <1>14, <3>2, <4>1, <4>4, <6>1, <6>2 DEF LastByBot
                    <6>4. chatPosts[g].answer <= chatPosts[i].answer
                        BY <1>1, <3>2, <6>1, <6>3 DEF PartsPosted
                    <6>5. chatPosts[i].answer \in 1..a
                        BY <1>16, <3>2
                    <6> QED
                        BY <1>4, <4>4, <6>1, <6>4, <6>5
                <5> QED
                    BY <1>4, <1>14, <3>2, <3>4, <4>4, <5>1, <5>2
            <4> QED
                BY <4>3, <4>4
        <3> QED
            BY <1>14, <3>3, <3>4
    <2>2. ASSUME NEW i \in DOMAIN chatPosts', chatPosts'[i].by # ChannelsPart!Person, LastByBot(i)'
          PROVE  PostSettled(i)' \/ (sending'.answer = chatPosts'[i].answer /\ sending'.from = chatPosts'[i].to)
        <3>1. CASE i = n
            <4>1. CASE e = whole
                BY <1>2, <1>5, <1>14, <3>1, <4>1 DEF PostSettled, Whole
            <4>2. CASE e # whole /\ sending' = [answer |-> a, from |-> e]
                BY <1>14, <3>1, <4>2
            <4> QED
                BY <1>12, <4>1, <4>2
        <3>2. CASE i \in DOMAIN chatPosts
            <4>1. Bot(i) /\ LastByBot(i) /\ chatPosts[i].by # k
                BY <1>14, <2>2, <3>2 DEF Bot, LastByBot
            <4>2. chatPosts[i].answer # a
                BY <1>5, <1>16, <3>2, <4>1
            <4>3. PostSettled(i)
                BY <1>1, <1>3, <3>2, <4>1, <4>2 DEF Joined
            <4> QED
                BY <1>15, <3>2, <4>3
        <3> QED
            BY <1>14, <3>1, <3>2
    <2> QED
        BY <2>1, <2>2 DEF Joined, Bot
<1> QED
    BY <1>11, <1>17, <1>18, <1>19, <1>20, <1>21 DEF ChannelsInv

LEMMA ChannelsStart == ASSUME ChannelsPart!Init PROVE ChannelsInv
<1>1. /\ todo = 1 /\ channels = {} /\ state = [k \in ChannelsPart!Keys |-> "off"] /\ chatPosts = <<>> /\ feed = [k \in ChannelsPart!Keys |-> <<>>]
      /\ inbound = <<>> /\ outbound = <<>> /\ said = <<>> /\ sending = ChannelsPart!Resting
    BY DEF ChannelsPart!Init
<1>2. /\ chatPosts \in Seq(Post) /\ inbound \in Seq(Received) /\ outbound \in Seq(Nat) /\ said \in Seq(Answer)
      /\ feed \in [ChannelsPart!Keys -> Seq(Nat)] /\ sending \in [answer : Nat, from : Nat]
      /\ DOMAIN chatPosts = {} /\ DOMAIN inbound = {} /\ DOMAIN outbound = {} /\ DOMAIN said = {}
      /\ \A k \in ChannelsPart!Keys : DOMAIN feed[k] = {}
      /\ Len(outbound) = 0 /\ Len(said) = 0
    <2>1. /\ chatPosts \in Seq(Post) /\ inbound \in Seq(Received) /\ outbound \in Seq(Nat) /\ said \in Seq(Answer)
          /\ feed \in [ChannelsPart!Keys -> Seq(Nat)]
        BY <1>1
    <2>2. DOMAIN <<>> = {} /\ Len(<<>>) = 0
        OBVIOUS
    <2>3. sending \in [answer : Nat, from : Nat]
        BY <1>1 DEF ChannelsPart!Resting
    <2>4. \A k \in ChannelsPart!Keys : DOMAIN feed[k] = {}
        BY <1>1, <2>2
    <2> QED
        BY <1>1, <2>1, <2>2, <2>3, <2>4
<1>3. todo \in 1..Len(ChannelRows) + 1
    BY <1>1, ChannelsGiven
<1>4. ChannelsTyped
    BY <1>1, <1>2, <1>3 DEF ChannelsTyped
<1>5. OthersHeard
    BY <1>2 DEF OthersHeard, ChannelsPart!NoEcho
<1>6. InLine
    BY <1>2 DEF InLine
<1>7. Underway /\ PartsPosted /\ Joined
    BY <1>1, <1>2 DEF Underway, PartsPosted, Joined
<1> QED
    BY <1>4, <1>5, <1>6, <1>7 DEF ChannelsInv

LEMMA ChannelsStep == ASSUME ChannelsInv, [ChannelsPart!Next]_(ChannelsPart!vars) PROVE ChannelsInv'
<1>1. CASE UNCHANGED ChannelsPart!vars
    <2>1. ChannelsTyped /\ OthersHeard /\ InLine /\ Underway /\ PartsPosted /\ Joined
        BY DEF ChannelsInv
    <2>2. UNCHANGED <<todo, channels, state, chatPosts, feed, inbound, outbound, said, sending>>
        BY <1>1 DEF ChannelsPart!vars
    <2>3. ChannelsTyped' /\ OthersHeard'
        BY <2>1, <2>2 DEF ChannelsTyped, OthersHeard, ChannelsPart!NoEcho
    <2>4. InLine' /\ Underway' /\ PartsPosted' /\ Joined'
        BY <2>1, <2>2, NothingPosted
    <2> QED
        BY <2>3, <2>4 DEF ChannelsInv
<1>2. CASE ChannelsPart!RegisterNext
    BY <1>2, RegisterSound
<1>3. ASSUME NEW k \in ChannelsPart!Keys, ChannelsPart!Start(k) \/ ChannelsPart!StartFails(k) \/ ChannelsPart!KnowsItself(k) PROVE ChannelsInv'
    BY <1>3, StartsSound
<1>4. ASSUME NEW k \in ChannelsPart!Keys, ChannelsPart!Handle(k) PROVE ChannelsInv'
    BY <1>4, HandleSound
<1>5. ASSUME NEW type \in ChannelsPart!Types, NEW kind \in PostKinds, ChannelsPart!PersonPosts(type, kind) PROVE ChannelsInv'
    BY <1>5, PersonSound
<1>6. ASSUME NEW text \in DOMAIN Texts, ChannelsPart!Replies(text) \/ \E type \in ChannelsPart!Types : ChannelsPart!MessageTool(type, text)
      PROVE  ChannelsInv'
    BY <1>6, RepliesSound
<1>7. CASE ChannelsPart!RouteOutbound
    BY <1>7, RouteSound
<1>8. CASE ChannelsPart!SendPart
    BY <1>8, PartSound
<1>9. CASE ChannelsPart!SendFails
    BY <1>9, FailSound
<1> QED
    BY <1>1, <1>2, <1>3, <1>4, <1>5, <1>6, <1>7, <1>8, <1>9 DEF ChannelsPart!Next

LEMMA ChannelsDo == ASSUME ChannelsInv PROVE ChannelsPart!ChannelsDeliver
<1>1. ChannelsTyped /\ OthersHeard /\ PartsPosted /\ Joined
    BY DEF ChannelsInv
<1>2. PICK n : n = Len(chatPosts)
    OBVIOUS
<1>3. n \in Nat /\ DOMAIN chatPosts = 1..n
    BY <1>1, <1>2 DEF ChannelsTyped
<1>4. ASSUME NEW i \in DOMAIN chatPosts, chatPosts[i].by # ChannelsPart!Person
      PROVE  LET p     == chatPosts[i]
                 whole == Texts[said[p.answer].text].len
                 later == {j \in i + 1 .. Len(chatPosts) : chatPosts[j].by = p.by}
                 next  == chatPosts[CHOOSE j \in later : \A h \in later : j <= h]
             IN  /\ p.from < p.to /\ p.to <= whole
                 /\ ChannelsPart!Type(p.by) # "slack" => p.to - p.from <= Limit[ChannelsPart!Type(p.by)]
                 /\ later # {} /\ next.answer = p.answer => next.from = p.to
                 /\ later # {} /\ next.answer # p.answer => next.answer > p.answer /\ next.from = 0
                 /\ \/ p.to = whole \/ sending.answer = p.answer \/ said[p.answer].failed
                    \/ later # {} /\ next.answer = p.answer
    <2> DEFINE later == {j \in i + 1 .. n : chatPosts[j].by = chatPosts[i].by}
               next  == CHOOSE j \in later : \A h \in later : j <= h
    <2>1. /\ chatPosts[i].from < chatPosts[i].to /\ chatPosts[i].to <= Whole(chatPosts[i].answer)
          /\ ChannelsPart!Type(chatPosts[i].by) # "slack" => chatPosts[i].to - chatPosts[i].from <= Limit[ChannelsPart!Type(chatPosts[i].by)]
        BY <1>1, <1>4 DEF PartsPosted, Bot
    <2>2. /\ i \in 1..n /\ \A j \in later : j \in Nat /\ j \in 1..n /\ i < j /\ chatPosts[j].by = chatPosts[i].by
          /\ \A j \in 1..n : i < j /\ chatPosts[j].by = chatPosts[i].by => j \in later
        BY <1>3, <1>4
    <2> HIDE DEF later
    <2>3. CASE later = {}
        <3>1. LastByBot(i)
            BY <1>3, <2>2, <2>3 DEF LastByBot
        <3>2. PostSettled(i) \/ sending.answer = chatPosts[i].answer
            BY <1>1, <1>4, <3>1 DEF Joined, Bot
        <3> QED
            BY <1>2, <2>1, <2>3, <3>2 DEF PostSettled, Whole, later
    <2>4. CASE later # {}
        <3>1. \E j \in later : \A h \in later : j <= h
            BY <2>2, <2>4, LeastIn
        <3>2. next \in later /\ \A h \in later : next <= h
            BY <3>1
        <3> HIDE DEF next
        <3>3. next \in DOMAIN chatPosts /\ i < next /\ chatPosts[next].by = chatPosts[i].by
            BY <1>3, <2>2, <3>2
        <3>4. Follows(i, next)
            <4>1. ASSUME NEW h \in 1..n, i < h, h < next, chatPosts[h].by = chatPosts[i].by PROVE FALSE
                <5>1. h \in later /\ next \in Nat
                    BY <2>2, <3>2, <4>1
                <5> QED
                    BY <3>2, <4>1, <5>1
            <4> QED
                BY <1>3, <3>3, <4>1 DEF Follows
        <3>5. IF chatPosts[i].answer = chatPosts[next].answer THEN chatPosts[next].from = chatPosts[i].to
                                                              ELSE chatPosts[next].from = 0 /\ PostSettled(i)
            BY <1>1, <1>4, <3>3, <3>4 DEF Joined, Bot
        <3>6. chatPosts[i].answer <= chatPosts[next].answer /\ chatPosts[i].answer \in Nat /\ chatPosts[next].answer \in Nat
            <4>1. chatPosts[i] \in Post /\ chatPosts[next] \in Post
                BY <1>1, <3>3 DEF ChannelsTyped
            <4>2. chatPosts[i].answer <= chatPosts[next].answer
                BY <1>1, <1>4, <3>3 DEF PartsPosted, Bot
            <4> QED
                BY <4>1, <4>2 DEF Post
        <3>7. chatPosts[next].answer # chatPosts[i].answer => chatPosts[next].answer > chatPosts[i].answer
            BY <3>6
        <3> QED
            BY <1>2, <2>1, <2>4, <3>5, <3>7 DEF PostSettled, Whole, later, next
    <2> QED
        BY <2>3, <2>4
<1>5. ChannelsPart!PartsWhole
    BY <1>4 DEF ChannelsPart!PartsWhole
<1> QED
    BY <1>1, <1>5 DEF ChannelsPart!ChannelsDeliver, OthersHeard

--------------------------------------------------------------------------------
(***************************************************************************)
(* The ranges of what the invariants above need not speak of.              *)
(***************************************************************************)
PluginRanges ==
    /\ running \in BOOLEAN /\ notes \in 0 .. MaxNotes
    /\ mutex \in PluginPart!Caller \cup {PluginPart!Free, "sweep"}

LEMMA PluginRangesKept ==
    ASSUME PluginAssumed, PluginRanges, [PluginPart!Next]_(PluginPart!vars)
    PROVE  PluginRanges'
<1> USE DEF PluginRanges, PluginAssumed, PluginPart!lock
<1>1. ASSUME NEW c \in PluginPart!Caller,
             \/ PluginPart!Call(c) \/ PluginPart!TakeToWrite(c) \/ PluginPart!Write(c) \/ PluginPart!Answered(c)
             \/ PluginPart!Expire(c) \/ PluginPart!Leave(c) \/ PluginPart!Return(c)
      PROVE  PluginRanges'
    BY <1>1 DEF PluginPart!Call, PluginPart!TakeToWrite, PluginPart!Write, PluginPart!Answered, PluginPart!Expire,
                PluginPart!Leave, PluginPart!Return, PluginPart!pipes
<1>2. ASSUME \/ PluginPart!Start \/ PluginPart!StartFails \/ PluginPart!Advance \/ PluginPart!Adopt \/ PluginPart!StopAll
             \/ PluginPart!Close \/ PluginPart!Kill \/ PluginPart!SweepOne \/ PluginPart!SweepDone
      PROVE  PluginRanges'
    BY <1>2 DEF PluginPart!Start, PluginPart!StartFails, PluginPart!Advance, PluginPart!Adopt, PluginPart!StopAll,
                PluginPart!Close, PluginPart!Kill, PluginPart!SweepOne, PluginPart!SweepDone, PluginPart!pipes
<1>3. CASE PluginPart!Notifies
    BY <1>3 DEF PluginPart!Notifies
<1>4. ASSUME \/ PluginPart!ReadAnswer \/ PluginPart!SendAnswer \/ PluginPart!ForwardNote \/ PluginPart!ReadEnd
             \/ PluginPart!TakeRequest \/ PluginPart!Reply \/ PluginPart!Die \/ UNCHANGED PluginPart!vars
      PROVE  PluginRanges'
    BY <1>4 DEF PluginPart!ReadAnswer, PluginPart!SendAnswer, PluginPart!ForwardNote, PluginPart!ReadEnd,
                PluginPart!TakeRequest, PluginPart!Reply, PluginPart!Die, PluginPart!pipes, PluginPart!vars
<1> QED
    BY <1>1, <1>2, <1>3, <1>4 DEF PluginPart!Next

LEMMA PluginTypes == PluginInv /\ PluginRanges => PluginPart!TypeOK
    BY DEF PluginInv, PluginTyped, PluginRanges, PluginPart!TypeOK, PluginPlace, Under

\* The walk is at a provider or just past the last, and every adapter is one of the registry, which
\* makes one of the outcomes of whatever it hears.
ChainRanges ==
    /\ saves \in 0 .. MaxSaves
    /\ chainCall.at \in 1 .. Len(ToolPart!Refs(chainCall.chain)) + 1
    /\ \A i \in DOMAIN chainCall.asked : chainCall.asked[i].outcome \in ToolPart!Outcomes

LEMMA RefsCounted ==
    ASSUME ToolAssumed, NEW s \in Chains
    PROVE  Len(ToolPart!Refs(s)) \in Nat /\ DOMAIN ToolPart!Refs(s) = 1 .. Len(ToolPart!Refs(s))
    BY DEF ToolAssumed, Chains

LEMMA AdaptersKnown ==
    ASSUME ToolAssumed, NEW s \in Chains, NEW p, ToolPart!Usable(s, p), NEW args, NEW reply \in ToolPart!Replies
    PROVE  ToolPart!Asked(s, p, args, reply) \in ToolPart!Outcomes
<1>1. s.category \in {"web_search", "image_gen", "tts"}
    BY NothingUsable DEF ToolAssumed, Chains
<1>2. ToolPart!Registry[s.category][p] \in {ToolPart!Brave, ToolPart!Exa, ToolPart!SearxNG, ToolPart!OpenAIImage, ToolPart!Fal,
                                            ToolPart!MiniMax, ToolPart!OpenAISpeech}
    BY <1>1 DEF ToolPart!Usable, ToolPart!Registered, ToolPart!Registry
<1>3. ASSUME NEW a \in {ToolPart!Brave, ToolPart!Exa, ToolPart!SearxNG, ToolPart!OpenAIImage, ToolPart!Fal,
                        ToolPart!MiniMax, ToolPart!OpenAISpeech},
             reply \notin {"unreachable", "busy", "refused"}
      PROVE  a.reads[reply] \in ToolPart!Outcomes
    <2>1. reply \in {"cut", "garbled", "error", "empty", "results"}
        BY <1>3 DEF ToolPart!Replies
    <2> QED
        BY <1>3, <2>1 DEF ToolPart!Brave, ToolPart!Exa, ToolPart!SearxNG, ToolPart!OpenAIImage, ToolPart!Fal,
                          ToolPart!MiniMax, ToolPart!OpenAISpeech, ToolPart!Decoded, ToolPart!Outcomes
<1>4. ToolPart!RetriableHTTP(s, p, reply) \in ToolPart!Outcomes
    BY <1>2, <1>3 DEF ToolPart!RetriableHTTP, ToolPart!Outcomes
<1> QED
    BY <1>4 DEF ToolPart!Asked, ToolPart!Outcomes

LEMMA ChainRangesInit == ASSUME ToolAssumed PROVE ToolPart!Init => ChainRanges
<1> SUFFICES ASSUME ToolPart!Init PROVE ChainRanges
    OBVIOUS
<1>1. chainCall.chain \in Chains /\ chainCall.at = 1 /\ chainCall.asked = <<>>
    BY DEF ToolPart!Init, ToolPart!Idle, Chains
<1> QED
    BY <1>1, RefsCounted DEF ToolAssumed, ToolPart!Init, ChainRanges

LEMMA ChainRangesKept ==
    ASSUME ToolAssumed, WalkInv, ChainRanges, [ToolPart!Next]_(ToolPart!vars)
    PROVE  ChainRanges'
<1>1. chainCall \in Walks /\ chainCall.chain \in Chains /\ chain \in Chains /\ MaxSaves \in Nat /\ saves \in 0 .. MaxSaves
    BY DEF WalkInv, WalkTypes, Walks, ToolAssumed, ChainRanges
<1>2. /\ Len(ToolPart!Refs(chainCall.chain)) \in Nat
      /\ DOMAIN ToolPart!Refs(chainCall.chain) = 1 .. Len(ToolPart!Refs(chainCall.chain))
    BY <1>1, RefsCounted
<1>3. ASSUME NEW s \in ToolSettings, ToolPart!SaveTools(s) PROVE ChainRanges'
    BY <1>1, <1>3 DEF ToolPart!SaveTools, ChainRanges
<1>4. ASSUME ToolPart!Build \/ UNCHANGED ToolPart!vars PROVE ChainRanges'
    BY <1>4 DEF ToolPart!Build, ToolPart!vars, ChainRanges
<1>5. ASSUME chainCall'.at = 1, chainCall'.chain \in Chains, chainCall'.asked = <<>>, saves' = saves PROVE ChainRanges'
    BY <1>1, <1>5, RefsCounted DEF ChainRanges
<1>6. ASSUME NEW args \in {"good", "bad"}, ToolPart!Begin(args) PROVE ChainRanges'
    <2>1. chainCall'.at = 1 /\ chainCall'.chain = chain /\ chainCall'.asked = <<>> /\ saves' = saves
        BY <1>6 DEF ToolPart!Begin, ToolPart!Idle
    <2> QED
        BY <1>1, <1>5, <2>1
<1>7. CASE ToolPart!Return
    <2>1. chainCall'.at = 1 /\ chainCall'.chain = ToolPart!None /\ chainCall'.asked = <<>> /\ saves' = saves
        BY <1>7 DEF ToolPart!Return, ToolPart!Idle
    <2> QED
        BY <1>5, <2>1 DEF Chains
<1>8. CASE ToolPart!Skip \/ ToolPart!Exhausted
    <2>1. /\ chainCall'.chain = chainCall.chain /\ chainCall'.asked = chainCall.asked /\ saves' = saves
          /\ chainCall'.at = chainCall.at \/ (chainCall'.at = chainCall.at + 1 /\ chainCall.at \in DOMAIN ToolPart!Refs(chainCall.chain))
        BY <1>1, <1>8 DEF ToolPart!Skip, ToolPart!Exhausted, ToolPart!Walking, Walks
    <2> QED
        BY <1>2, <2>1 DEF ChainRanges
<1>9. ASSUME NEW reply \in ToolPart!Replies, ToolPart!Ask(reply) PROVE ChainRanges'
    <2> DEFINE outcome == ToolPart!Asked(chainCall.chain, ToolPart!Current, chainCall.args, reply)
               new     == [at |-> chainCall.at, outcome |-> outcome]
               longer  == Append(chainCall.asked, new)
    <2>1. outcome \in ToolPart!Outcomes
        BY <1>1, <1>9, AdaptersKnown DEF ToolPart!Ask
    <2>2. outcome \in Heard
        BY <1>1, <1>9 DEF Heard, ToolPart!Current, Walks
    <2>3. /\ chainCall'.chain = chainCall.chain /\ chainCall'.asked = longer /\ saves' = saves
          /\ chainCall'.at = chainCall.at \/ (chainCall'.at = chainCall.at + 1 /\ chainCall.at \in DOMAIN ToolPart!Refs(chainCall.chain))
        BY <1>1, <1>9 DEF ToolPart!Ask, ToolPart!Walking, Walks
    <2>4. /\ chainCall.asked \in Seq([at : Nat, outcome : Heard]) /\ new \in [at : Nat, outcome : Heard]
          /\ new.outcome = outcome
        BY <1>1, <2>2 DEF Walks
    <2> HIDE DEF new, outcome
    <2>5. \A i \in DOMAIN longer : \/ i \in DOMAIN chainCall.asked /\ longer[i] = chainCall.asked[i]
                                   \/ longer[i] = new
        BY <2>4
    <2> QED
        BY <1>2, <2>1, <2>3, <2>4, <2>5 DEF ChainRanges
<1> QED
    BY <1>3, <1>4, <1>6, <1>7, <1>8, <1>9 DEF ToolPart!Next

LEMMA ChainTypes == ASSUME ToolAssumed PROVE WalkInv /\ ChainRanges => ToolPart!TypeOK
<1> SUFFICES ASSUME WalkInv, ChainRanges PROVE ToolPart!TypeOK
    OBVIOUS
<1>1. /\ saved \in ToolSettings /\ chain \in Chains /\ chainCall.chain \in Chains
      /\ chainCall.state \in {"idle", "walking", "answered", "failed"} /\ chainCall.args \in {"good", "bad"}
    BY DEF WalkInv, WalkTypes, Walks
<1>2. ASSUME NEW i \in DOMAIN chainCall.asked
      PROVE  chainCall.asked[i].at \in 1 .. Len(ToolPart!Refs(chainCall.chain))
    <2>1. chainCall.asked[i].at \in ToolPart!UpTo
        BY <1>2 DEF WalkInv, ToolPart!AskedInOrder
    <2> QED
        BY <1>1, <2>1, RefsCounted DEF ToolPart!UpTo
<1> QED
    BY <1>1, <1>2 DEF ChainRanges, Chains, ToolPart!TypeOK

LEMMA StreamTypes == StreamInv => StreamPart!TypeOK
<1> SUFFICES ASSUME StreamTyped PROVE StreamPart!TypeOK
    BY DEF StreamInv
<1>1. \A i \in DOMAIN blocks : blocks[i].type \in {"text", "thinking", "tool"} /\ blocks[i].parts \in Nat
    <2>1. blocks \in Seq(Block)
        BY DEF StreamTyped
    <2>2. \A b \in Block : b.type \in {"text", "thinking", "tool"} /\ b.parts \in Nat
        BY DEF Block, BlockTypes
    <2>3. \A i \in DOMAIN blocks : blocks[i] \in Block
        BY <2>1
    <2> QED
        BY <2>2, <2>3
<1>2. /\ phase \in {"chat", "ask", "stream", "calls", "over"} /\ connection \in {"open", "ended", "broken"}
      /\ Len(chunks) <= ChunkCap /\ Len(out) <= ChunkCap
    BY DEF StreamTyped
<1>3. cancelled \in BOOLEAN /\ streaming \in BOOLEAN /\ relaying \in BOOLEAN /\ reading \in BOOLEAN
    BY Zenon DEF StreamTyped
<1>4. {cancelled, streaming, relaying, reading} \subseteq BOOLEAN
    BY <1>3, Zenon
<1> QED
    BY <1>1, <1>2, <1>4, Zenon DEF StreamPart!TypeOK

LEMMA ChannelsTypes == ChannelsInv => ChannelsPart!TypeOK
<1> SUFFICES ASSUME ChannelsInv PROVE ChannelsPart!TypeOK
    OBVIOUS
<1>1. /\ todo \in 1 .. Len(ChannelRows) + 1 /\ channels \subseteq ChannelsPart!Keys
      /\ state \in [ChannelsPart!Keys -> {"off", "open", "on", "failed"}]
      /\ \A k \in ChannelsPart!Keys : \A i \in DOMAIN feed[k] : feed[k][i] \in DOMAIN chatPosts
    BY DEF ChannelsInv, ChannelsTyped
<1>2. \A i \in DOMAIN chatPosts : chatPosts[i].by \in ChannelsPart!Keys \cup {ChannelsPart!Person}
    <2>1. chatPosts \in Seq(Post) /\ \A p \in Post : p.by \in ChannelsPart!Keys \cup {ChannelsPart!Person}
        BY DEF ChannelsInv, ChannelsTyped, Post
    <2> QED
        BY <2>1
<1>3. /\ Len(said) \in Nat /\ DOMAIN said = 1 .. Len(said)
      /\ Len(outbound) \in Nat /\ DOMAIN outbound = 1 .. Len(outbound) /\ Len(outbound) <= Len(said)
    BY DEF ChannelsInv, ChannelsTyped, InLine
<1>4. \A i \in DOMAIN outbound : outbound[i] \in DOMAIN said
    BY <1>3 DEF ChannelsInv, InLine, Routed
<1>5. sending.answer \in 0 .. Len(said)
    BY <1>3 DEF ChannelsInv, Underway, Routed, ChannelsPart!Resting
<1> QED
    BY <1>1, <1>2, <1>4, <1>5 DEF ChannelsPart!TypeOK

--------------------------------------------------------------------------------
(***************************************************************************)
(* What a component does among the others is what it does alone.           *)
(***************************************************************************)
LEMMA PluginRuns == [AllNext]_allVars => [PluginPart!Next]_(PluginPart!vars)
BY DEF AllNext, Only, allVars, pluginVars, PluginPart!vars, PluginPart!lock, PluginPart!calls,
       PluginPart!pipes

LEMMA MCPRuns == [AllNext]_allVars => [MCPPart!Next]_(MCPPart!vars)
BY DEF AllNext, Only, allVars, mcpVars, MCPPart!vars

LEMMA ToolRuns == [AllNext]_allVars => [ToolPart!Next]_(ToolPart!vars)
BY DEF AllNext, Only, allVars, toolVars, ToolPart!vars

LEMMA StreamRuns == [AllNext]_allVars => [StreamPart!Next]_(StreamPart!vars)
BY DEF AllNext, Only, allVars, streamVars, StreamPart!vars

LEMMA ChannelsRun == [AllNext]_allVars => [ChannelsPart!Next]_(ChannelsPart!vars)
BY DEF AllNext, Only, allVars, channelsVars, ChannelsPart!vars

\* Whoever calls a plugin or an MCP server gets the answer to that very call and is not left
\* waiting by Stop, and a tool with a chain of providers asks those it has, in order, until the
\* first answer (Plugin.call and readLoop, StdioClient.call, Chain.Execute).
THEOREM CallersStayAnswered == AllSpec => []CallersAnswered
<1> USE ServicesAssumption
<1>1. AllSpec => []PluginInv
  BY PluginInit, PluginKept, PluginRuns, PTL DEF AllSpec, AllInit
<1>2. AllSpec => []MCPInv
  BY MCPInit, MCPStep, MCPRuns, PTL DEF AllSpec, AllInit
<1>3. AllSpec => []WalkInv
  BY InitWalk, StepWalk, ToolRuns, PTL DEF AllSpec, AllInit
<1>4. PluginInv /\ MCPInv /\ WalkInv => CallersAnswered
  BY MCPMatches, ServedIsAsked DEF CallersAnswered, PluginInv, PluginPart!PluginCallsEnd, WalkInv, ToolPart!ChainSound
<1> QED
  BY <1>1, <1>2, <1>3, <1>4, PTL

LEMMA CallersTypes ==
    AllSpec => [](PluginPart!TypeOK /\ MCPPart!TypeOK /\ ToolPart!TypeOK /\ StreamPart!TypeOK /\ ChannelsPart!TypeOK)
<1> USE ServicesAssumption
<1>1. PluginPart!Init => PluginRanges
    <2>1. PluginPart!Init => running \in BOOLEAN
        BY DEF PluginPart!Init
    <2>2. PluginPart!Init => notes \in 0 .. MaxNotes
        BY DEF PluginAssumed, PluginPart!Init
    <2>3. PluginPart!Init => mutex \in PluginPart!Caller \cup {PluginPart!Free, "sweep"}
        BY DEF PluginPart!Init
    <2> QED
        BY <2>1, <2>2, <2>3 DEF PluginRanges
<1>2. AllSpec => [](PluginInv /\ PluginRanges)
    <2>1. PluginInv /\ PluginRanges /\ [PluginPart!Next]_(PluginPart!vars) => (PluginInv /\ PluginRanges)'
        BY PluginKept, PluginRangesKept
    <2> QED
        BY <1>1, <2>1, PluginInit, PluginRuns, PTL DEF AllSpec, AllInit
<1>3. AllSpec => []MCPInv
    BY MCPInit, MCPStep, MCPRuns, PTL DEF AllSpec, AllInit
<1>4. AllSpec => [](WalkInv /\ ChainRanges)
    <2>1. WalkInv /\ ChainRanges /\ [ToolPart!Next]_(ToolPart!vars) => (WalkInv /\ ChainRanges)'
        BY StepWalk, ChainRangesKept
    <2> QED
        BY <2>1, InitWalk, ChainRangesInit, ToolRuns, PTL DEF AllSpec, AllInit
<1>5. AllSpec => []StreamInv
    BY StreamStarts, StreamStep, StreamRuns, PTL DEF AllSpec, AllInit
<1>6. AllSpec => []ChannelsInv
    BY ChannelsStart, ChannelsStep, ChannelsRun, PTL DEF AllSpec, AllInit
<1>7. /\ PluginInv /\ PluginRanges => PluginPart!TypeOK
      /\ MCPInv => MCPPart!TypeOK
      /\ WalkInv /\ ChainRanges => ToolPart!TypeOK
    BY PluginTypes, MCPMatches, ChainTypes
<1> QED
    BY <1>2, <1>3, <1>4, <1>5, <1>6, <1>7, StreamTypes, ChannelsTypes, PTL

\* Of what the model sends, the parser, the two channels between it and the client, and the loop
\* that stores the answer keep the text and the tool calls whole and in order, and a stream that
\* is cut leaves the beginning of the text (parseSSE, streamLLM, the relay to the client).
THEOREM StreamsStayWhole == AllSpec => []StreamsWhole
<1> USE ServicesAssumption
<1>1. AllSpec => []StreamInv
  BY StreamStarts, StreamStep, StreamRuns, PTL DEF AllSpec, AllInit
<1>2. StreamInv => StreamsWhole
  BY StreamIsWhole DEF StreamsWhole
<1> QED
  BY <1>1, <1>2, PTL

\* Whatever agents answer, and whichever part a service refuses, the parts of an answer are posted
\* in order, each from where the last one ended and none longer than the channel allows, and no
\* bot takes what it wrote itself for a message (routeOutbound, SendMessage, Send, the handlers).
THEOREM ChannelsStayDelivered == AllSpec => []ChannelsDeliver
<1>1. AllSpec => []ChannelsInv
  BY ChannelsStart, ChannelsStep, ChannelsRun, PTL DEF AllSpec, AllInit
<1>2. ChannelsInv => ChannelsDeliver
  BY ChannelsDo DEF ChannelsDeliver
<1> QED
  BY <1>1, <1>2, PTL

================================================================================
