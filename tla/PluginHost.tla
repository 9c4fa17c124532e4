-------------------------------- MODULE PluginHost --------------------------------
(***************************************************************************)
(* internal/plugin/process.go and manager.go: one plugin subprocess, the   *)
(* goroutines that call it over its pipes, the goroutine that reads its    *)
(* answers and the gateway, which starts it and stops it.                  *)
(*                                                                         *)
(* A call takes a number, is entered in pending, is written to the         *)
(* plugin's stdin under the process's mutex and waits on a channel of one  *)
(* place.  The critical sections that cannot block are single actions; the *)
(* mutex is a variable for the two that can: the write to a full pipe, and *)
(* the sweep of Stop, which sends to the channels while it holds it.       *)
(* Hooks and plugin tools (hook_adapter.go, tool_adapter.go) are not       *)
(* attached by the gateway and have no caller here.                        *)
(***************************************************************************)
EXTENDS Integers, Sequences, FiniteSets

CONSTANTS
    Impatient,      (* callers whose context has a deadline: ExecuteProvider *)
    Patient,        (* callers without one: SendToChannel                    *)
    MaxId,          (* bound on the calls                                    *)
    MaxNotes,       (* bound on the notifications of the plugin              *)
    PipeCap         (* requests the plugin's stdin holds                     *)

VARIABLES
    alive,          (* the plugin process                                    *)
    running,        (* Process.running                                       *)
    mutex,          (* who holds Process.mu across a blocking operation      *)
    nextID,         (* Process.nextID                                        *)
    pending,        (* Process.pending: the numbers that have an entry       *)
    channel,        (* number -> what its channel holds                      *)
    caller,         (* caller -> where its call is and the call's number     *)
    stdin, working, (* requests in the pipe, and in the plugin               *)
    stdout,         (* answers and notifications the plugin wrote            *)
    reader,         (* what readLoop is doing                                *)
    notes,          (* notifications written so far                          *)
    host            (* where StartAll, Run and StopAll are                   *)

lock   == <<running, mutex>>
calls  == <<nextID, pending, channel, caller>>
pipes  == <<alive, stdin, working, stdout, notes>>
vars   == <<lock, calls, pipes, reader, host>>

Host   == "gateway"
Caller == Impatient \cup Patient \cup {Host}
Ids    == 2 .. MaxId                      \* nextID starts at 1 and Add comes first
Free   == "nobody"
Note   == 0
ReadingOn == [at |-> "reading", id |-> Note]

Init ==
    /\ alive = FALSE /\ running = FALSE
    /\ mutex = Free
    /\ nextID = 1 /\ pending = {}
    /\ channel = [i \in Ids |-> "empty"]
    /\ caller = [c \in Caller |-> [at |-> "idle", id |-> 1]]
    /\ stdin = <<>> /\ working = {} /\ stdout = <<>> /\ notes = 0
    /\ reader = [at |-> "off", id |-> Note]
    /\ host = "discovered"

At(c, where)   == caller[c].at = where
Goes(c, where) == caller' = [caller EXCEPT ![c].at = where]

----------------------------------------------------------------------------------

\* Start: the subprocess runs, and readLoop with it.
Start ==
    /\ host = "discovered" /\ mutex = Free
    /\ alive' = TRUE /\ running' = TRUE
    /\ reader' = ReadingOn
    /\ host' = "initialize"
    /\ UNCHANGED <<mutex, calls, stdin, working, stdout, notes>>

\* StartAll skips a plugin that is disabled or does not start.
StartFails ==
    /\ host = "discovered"
    /\ host' = "done"
    /\ UNCHANGED <<lock, calls, pipes, reader>>

\* When the gateway itself calls: initialize, provider.list, shutdown.
MayCall(c) ==
    IF c = Host THEN host \in {"initialize", "list", "shutdown"}
                ELSE host \in {"up", "shutdown", "close", "wait", "sweep", "stopped", "done"}

\* Call takes a number and enters its channel, if the plugin runs.
Call(c) ==
    /\ At(c, "idle") /\ MayCall(c)
    /\ nextID < MaxId /\ mutex = Free
    /\ nextID' = nextID + 1
    /\ IF running
       THEN /\ pending' = pending \cup {nextID + 1}
            /\ caller' = [caller EXCEPT ![c] = [at |-> "entered", id |-> nextID + 1]]
       ELSE /\ pending' = pending
            /\ Goes(c, "failed")
    /\ UNCHANGED <<lock, channel, pipes, reader, host>>

\* It takes the mutex to write, ...
TakeToWrite(c) ==
    /\ At(c, "entered") /\ mutex = Free
    /\ mutex' = c
    /\ UNCHANGED <<running, calls, pipes, reader, host>>

\* ... and keeps it until the pipe has room, or the write fails.
Write(c) ==
    /\ mutex = c /\ At(c, "entered")
    /\ \/ /\ alive /\ Len(stdin) < PipeCap
          /\ stdin' = Append(stdin, caller[c].id)
          /\ Goes(c, "waiting")
       \/ /\ ~alive
          /\ stdin' = stdin
          /\ Goes(c, "leaving")
    /\ mutex' = Free
    /\ UNCHANGED <<running, nextID, pending, channel, alive, working, stdout, notes,
                   reader, host>>

\* The select of Call: an answer, or the end of a context that has a deadline.
Answered(c) ==
    /\ At(c, "waiting") /\ channel[caller[c].id] # "empty"
    /\ channel' = [channel EXCEPT ![caller[c].id] = "empty"]
    /\ Goes(c, IF channel[caller[c].id] = "answer" THEN "answered" ELSE "leaving")
    /\ UNCHANGED <<lock, nextID, pending, pipes, reader, host>>

HasDeadline(c) == c \in Impatient \/ (c = Host /\ host = "shutdown")

Expire(c) ==
    /\ At(c, "waiting") /\ HasDeadline(c)
    /\ Goes(c, "leaving")
    /\ UNCHANGED <<lock, nextID, pending, channel, pipes, reader, host>>

\* The deferred delete, and what the gateway does with the outcome.
Leave(c) ==
    /\ caller[c].at \in {"answered", "leaving"} /\ mutex = Free
    /\ pending' = pending \ {caller[c].id}
    /\ Goes(c, IF At(c, "answered") THEN "done" ELSE "failed")
    /\ UNCHANGED <<lock, nextID, channel, pipes, reader, host>>

Return(c) ==
    /\ c # Host
    /\ caller[c].at \in {"done", "failed"}
    /\ Goes(c, "idle")
    /\ UNCHANGED <<lock, nextID, pending, channel, pipes, reader, host>>

\* StartAll and Run: a plugin that fails initialize is stopped; one that runs is
\* adopted as a channel and, if it is a tool plugin, asked for its providers.
Advance ==
    /\ caller[Host].at \in {"done", "failed"}
    /\ Goes(Host, "idle")
    /\ host' = CASE host = "initialize" /\ At(Host, "done")   -> "adopt"
                 [] host = "initialize" /\ At(Host, "failed") ->
                        IF running THEN "shutdown" ELSE "done"
                 [] host = "list"     -> "up"
                 [] host = "shutdown" -> "close"
    /\ UNCHANGED <<lock, nextID, pending, channel, pipes, reader>>

Adopt ==
    /\ host = "adopt" /\ mutex = Free
    /\ host' \in (IF running THEN {"list", "up"} ELSE {"up"})
    /\ UNCHANGED <<lock, calls, pipes, reader>>

\* StopAll leaves alone a plugin that does not run.
StopAll ==
    /\ host = "up" /\ mutex = Free
    /\ host' = IF running THEN "shutdown" ELSE "done"
    /\ UNCHANGED <<lock, calls, pipes, reader>>

\* Stop, once its shutdown call is over: the process is not running any more.
Close ==
    /\ host = "close" /\ mutex = Free
    /\ running' = FALSE
    /\ host' = "wait"
    /\ UNCHANGED <<mutex, calls, pipes, reader>>

\* It waits for the process, kills it, and takes the mutex to sweep pending.
Kill ==
    /\ host = "wait" /\ mutex = Free
    /\ alive' = FALSE
    /\ mutex' = "sweep"
    /\ host' = "sweep"
    /\ UNCHANGED <<running, calls, stdin, working, stdout, notes, reader>>

\* A sweep that only empties the map.
SweepForgets ==
    /\ mutex = "sweep" /\ pending # {}
    /\ pending' = {}
    /\ UNCHANGED <<lock, nextID, channel, caller, pipes, reader, host>>

SweepOne ==
    /\ mutex = "sweep"
    /\ \E i \in pending :
        /\ channel[i] = "empty"
        /\ channel' = [channel EXCEPT ![i] = "stopped"]
        /\ pending' = pending \ {i}
    /\ UNCHANGED <<lock, nextID, caller, pipes, reader, host>>

SweepDone ==
    /\ mutex = "sweep" /\ pending = {}
    /\ mutex' = Free
    /\ host' = "stopped"
    /\ UNCHANGED <<running, calls, pipes, reader>>

----------------------------------------------------------------------------------

\* readLoop looks a response's channel up under the mutex and sends without it.
ReadAnswer ==
    /\ reader.at = "reading" /\ stdout # <<>> /\ mutex = Free
    /\ stdout' = Tail(stdout)
    /\ reader' = IF Head(stdout) = Note \/ Head(stdout) \in pending
                 THEN [at |-> "sending", id |-> Head(stdout)] ELSE reader
    /\ UNCHANGED <<lock, calls, alive, stdin, working, notes, host>>

SendAnswer ==
    /\ reader.at = "sending" /\ reader.id # Note
    /\ channel[reader.id] = "empty"
    /\ channel' = [channel EXCEPT ![reader.id] = "answer"]
    /\ reader' = ReadingOn
    /\ UNCHANGED <<lock, nextID, pending, caller, pipes, host>>

\* handleNotification blocks until the bus takes the message.
ForwardNote ==
    /\ reader.at = "sending" /\ reader.id = Note
    /\ reader' = ReadingOn
    /\ UNCHANGED <<lock, calls, pipes, host>>

\* The deferred function of readLoop clears running, and only that.
ReadEnd ==
    /\ reader.at = "reading" /\ ~alive /\ mutex = Free
    /\ running' = FALSE
    /\ reader' = [at |-> "ended", id |-> Note]
    /\ UNCHANGED <<mutex, calls, pipes, host>>

\* The plugin (external): takes requests, answers them in any order, notifies, dies.
TakeRequest ==
    /\ alive /\ stdin # <<>>
    /\ stdin' = Tail(stdin)
    /\ working' = working \cup {Head(stdin)}
    /\ UNCHANGED <<lock, calls, alive, stdout, notes, reader, host>>

Reply ==
    /\ alive
    /\ \E i \in working :
        /\ working' = working \ {i}
        /\ stdout' = Append(stdout, i)
    /\ UNCHANGED <<lock, calls, alive, stdin, notes, reader, host>>

Notifies ==
    /\ alive /\ notes < MaxNotes
    /\ notes' = notes + 1
    /\ stdout' = Append(stdout, Note)
    /\ UNCHANGED <<lock, calls, alive, stdin, working, reader, host>>

Die ==
    /\ alive
    /\ alive' = FALSE
    /\ UNCHANGED <<lock, calls, stdin, working, stdout, notes, reader, host>>

Next ==
    \/ Start \/ StartFails \/ Advance \/ Adopt \/ StopAll
    \/ Close \/ Kill \/ SweepOne \/ SweepDone
    \/ ReadAnswer \/ SendAnswer \/ ForwardNote \/ ReadEnd
    \/ TakeRequest \/ Reply \/ Notifies \/ Die
    \/ \E c \in Caller :
        \/ Call(c) \/ TakeToWrite(c) \/ Write(c) \/ Answered(c)
        \/ Expire(c) \/ Leave(c) \/ Return(c)

----------------------------------------------------------------------------------

TypeOK ==
    /\ alive \in BOOLEAN /\ running \in BOOLEAN
    /\ mutex \in Caller \cup {Free, "sweep"}
    /\ nextID \in 1 .. MaxId
    /\ pending \subseteq Ids
    /\ channel \in [Ids -> {"empty", "answer", "stopped"}]
    /\ caller \in [Caller -> [at : {"idle", "entered", "waiting", "answered", "leaving",
                                    "done", "failed"}, id : 1 .. MaxId]]
    /\ notes \in 0 .. MaxNotes

\* What the sweep is for (process.go:232, "Cancel any pending calls"): once Stop has
\* gone through, whoever still waits finds something on its channel, also a call
\* without a deadline and one that came in while Stop was under way.
StopLeavesNobodyWaiting ==
    host = "stopped" =>
        \A c \in Caller : At(c, "waiting") => channel[caller[c].id] # "empty"

\* While the plugin lives no answer is lost: what a caller waits for is in a pipe, in
\* the plugin, in readLoop's hands or on the caller's channel.
NoAnswerLost ==
    \A c \in Caller :
        (alive /\ At(c, "waiting")) =>
            LET i == caller[c].id
            IN  \/ i \in working
                \/ \E k \in DOMAIN stdin : stdin[k] = i
                \/ \E k \in DOMAIN stdout : stdout[k] = i
                \/ reader = [at |-> "sending", id |-> i]
                \/ channel[i] # "empty"

\* Of a call that is under way: its answer comes, or Stop ends it.  (A plugin that
\* dies by itself fails nobody: readLoop only clears running.)
PluginCallsEnd == StopLeavesNobodyWaiting /\ NoAnswerLost
=============================================================================
