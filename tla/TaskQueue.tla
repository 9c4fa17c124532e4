-------------------------------- MODULE TaskQueue --------------------------------
(***************************************************************************)
(* internal/taskqueue/queue.go: one bounded channel and one worker         *)
(* goroutine per chat, a counting semaphore over all chats, and a sweeper  *)
(* that closes and forgets the channel of a chat that looks idle.          *)
(*                                                                         *)
(* The only caller of Submit is the gateway's processInbound goroutine, so *)
(* there is one sender.  A chatQueue is named by the task whose submission *)
(* created it: a chat that is swept and then used again gets a new         *)
(* chatQueue, and the old one may still have a worker.                     *)
(*                                                                         *)
(* Time is counted in ticks.  age[q] is the time since q.lastUsed and      *)
(* runAge[q] the time q's worker has spent in the handler; both saturate.  *)
(* With Prompt = TRUE a tick happens only when every goroutine is waiting  *)
(* for something that is not there yet, and a handler returns within       *)
(* RunBound ticks; with Prompt = FALSE any goroutine may be arbitrarily    *)
(* slow.                                                                   *)
(***************************************************************************)
EXTENDS Integers, Sequences, FiniteSets

CONSTANTS
    Chats,          (* the chat keys, "channel:chatID"                       *)
    NoChat,         (* the chat of a task that does not exist yet            *)
    MaxTasks,       (* bound on submissions: the model's inputs              *)
    MaxConcurrent,  (* maxConcurrent, capacity of the semaphore channel      *)
    ChanCap,        (* capacity of a chat's channel, 100 in the code         *)
    Keep,           (* completed tasks are pruned above this many, 200       *)
    IdleTimeout,    (* idleTimeout, 5 minutes in the code                    *)
    RunBound,       (* ticks a handler runs at most: taskTimeout and the     *)
                    (* time it takes to notice the cancelled context         *)
    Prompt          (* whether goroutines that can run do so within a tick   *)

ASSUME ConstantsAssumption ==
    /\ NoChat \notin Chats
    /\ MaxTasks \in Nat
    /\ MaxConcurrent \in Nat \ {0}
    /\ ChanCap \in Nat \ {0}
    /\ Keep \in Nat
    /\ IdleTimeout \in Nat
    /\ RunBound \in Nat
    /\ Prompt \in BOOLEAN

VARIABLES
    seq,        (* q.seq: number of tasks submitted so far                   *)
    chatOf,     (* Task.ChatKey                                              *)
    status,     (* Task.Status, "none" before the task exists                *)
    listed,     (* q.tasks: the tasks the observability map still holds      *)
    queueOf,    (* q.chatQueues: chat -> chatQueue, NoQueue when absent      *)
    chan,       (* chatQueue.ch: tasks buffered in each channel              *)
    closed,     (* the chatQueues whose channel was closed                   *)
    age,        (* now - chatQueue.lastUsed, up to IdleTimeout + 1           *)
    wpc,        (* where the worker of each chatQueue is                     *)
    wtask,      (* the task the worker of each chatQueue holds               *)
    runAge,     (* ticks the worker has been in the handler                  *)
    sem,        (* len(q.sem): slots taken                                   *)
    sender,     (* Submit between q.mu.Unlock() and the end of cq.ch <- task *)
    stopped,    (* q.ctx is cancelled                                        *)
    panicked    (* a send on a closed channel killed the process             *)

vars == <<seq, chatOf, status, listed, queueOf, chan, closed, age,
          wpc, wtask, runAge, sem, sender, stopped, panicked>>

Task    == 1 .. MaxTasks
NoTask  == 0
NoQueue == 0

TaskStatus == {"none", "pending", "running", "done", "failed"}
Terminal   == {"done", "failed"}

(***************************************************************************)
(* Worker locations: "none" (no goroutine yet), "recv" (select on the      *)
(* channel), "acquire" (select on the semaphore), "start" (slot taken, not *)
(* yet marked running), "run" (in the handler), "release" (result stored,  *)
(* slot still held), "touch" (back from executeTask), "exit".              *)
(***************************************************************************)
WorkerLoc   == {"none", "recv", "acquire", "start", "run", "release", "touch", "exit"}
HoldsSlot   == {"start", "run", "release"}
HoldsTask   == {"acquire", "start", "run"}

Busy        == HoldsTask \cup HoldsSlot \cup {"touch"}

Idle == [task |-> NoTask, queue |-> NoQueue]

----------------------------------------------------------------------------------

Init ==
    /\ seq = 0
    /\ chatOf = [t \in Task |-> NoChat]
    /\ status = [t \in Task |-> "none"]
    /\ listed = {}
    /\ queueOf = [c \in Chats |-> NoQueue]
    /\ chan = [q \in Task |-> <<>>]
    /\ closed = {}
    /\ age = [q \in Task |-> 0]
    /\ wpc = [q \in Task |-> "none"]
    /\ wtask = [q \in Task |-> NoTask]
    /\ runAge = [q \in Task |-> 0]
    /\ sem = 0
    /\ sender = Idle
    /\ stopped = FALSE
    /\ panicked = FALSE

----------------------------------------------------------------------------------
(***************************************************************************)
(* Submit.  Under q.mu it records the task, finds or creates the chatQueue *)
(* (spawning its worker) and refreshes lastUsed; the send is after the     *)
(* unlock and blocks while the channel is full.                            *)
(***************************************************************************)
\* The chatQueue a new task t of chat c goes to: the one in the map, or its own.
QueueFor(c, t) == IF queueOf[c] = NoQueue THEN t ELSE queueOf[c]

\* Faulty variant: lastUsed is only set when the chatQueue is created.
SubmitNoRefresh(c) ==
    LET t == seq + 1
        q == QueueFor(c, t)
    IN  /\ ~stopped
        /\ sender = Idle
        /\ seq < MaxTasks
        /\ seq' = t
        /\ chatOf' = [chatOf EXCEPT ![t] = c]
        /\ status' = [status EXCEPT ![t] = "pending"]
        /\ listed' = listed \cup {t}
        /\ queueOf' = [queueOf EXCEPT ![c] = q]
        /\ wpc' = IF q = t THEN [wpc EXCEPT ![t] = "recv"] ELSE wpc
        /\ sender' = [task |-> t, queue |-> q]
        /\ UNCHANGED <<chan, closed, age, wtask, runAge, sem, stopped, panicked>>

Submit(c) ==
    LET t == seq + 1
        q == QueueFor(c, t)
    IN  /\ ~stopped
        /\ sender = Idle
        /\ seq < MaxTasks
        /\ seq' = t
        /\ chatOf' = [chatOf EXCEPT ![t] = c]
        /\ status' = [status EXCEPT ![t] = "pending"]
        /\ listed' = listed \cup {t}
        /\ queueOf' = [queueOf EXCEPT ![c] = q]
        /\ wpc' = IF q = t THEN [wpc EXCEPT ![t] = "recv"] ELSE wpc
        /\ age' = [age EXCEPT ![q] = 0]
        /\ sender' = [task |-> t, queue |-> q]
        /\ UNCHANGED <<chan, closed, wtask, runAge, sem, stopped, panicked>>

\* Faulty variant: the send does not wait for room and drops the task instead.
SendOrDrop ==
    /\ sender # Idle
    /\ sender.queue \notin closed
    /\ chan' = IF Len(chan[sender.queue]) < ChanCap
               THEN [chan EXCEPT ![sender.queue] = Append(@, sender.task)]
               ELSE chan
    /\ sender' = Idle
    /\ UNCHANGED <<seq, chatOf, status, listed, queueOf, closed, age,
                   wpc, wtask, runAge, sem, stopped, panicked>>

Send ==
    /\ sender # Idle
    /\ sender.queue \notin closed
    /\ Len(chan[sender.queue]) < ChanCap
    /\ chan' = [chan EXCEPT ![sender.queue] = Append(@, sender.task)]
    /\ sender' = Idle
    /\ UNCHANGED <<seq, chatOf, status, listed, queueOf, closed, age,
                   wpc, wtask, runAge, sem, stopped, panicked>>

\* A send on a closed channel panics, also when the sender was already blocked.
SendPanics ==
    /\ sender # Idle
    /\ sender.queue \in closed
    /\ panicked' = TRUE
    /\ UNCHANGED <<seq, chatOf, status, listed, queueOf, chan, closed, age,
                   wpc, wtask, runAge, sem, sender, stopped>>

----------------------------------------------------------------------------------
(***************************************************************************)
(* processChatQueue and executeTask.                                       *)
(***************************************************************************)
\* Faulty variant: the newest task of the chat is taken first.
ReceiveNewest(q) ==
    /\ wpc[q] = "recv"
    /\ chan[q] # <<>>
    /\ wtask' = [wtask EXCEPT ![q] = chan[q][Len(chan[q])]]
    /\ chan' = [chan EXCEPT ![q] = SubSeq(@, 1, Len(@) - 1)]
    /\ wpc' = [wpc EXCEPT ![q] = "acquire"]
    /\ UNCHANGED <<seq, chatOf, status, listed, queueOf, closed, age,
                   runAge, sem, sender, stopped, panicked>>

Receive(q) ==
    /\ wpc[q] = "recv"
    /\ chan[q] # <<>>
    /\ wtask' = [wtask EXCEPT ![q] = Head(chan[q])]
    /\ chan' = [chan EXCEPT ![q] = Tail(@)]
    /\ wpc' = [wpc EXCEPT ![q] = "acquire"]
    /\ UNCHANGED <<seq, chatOf, status, listed, queueOf, closed, age,
                   runAge, sem, sender, stopped, panicked>>

\* Faulty variant: the worker does not watch the context.
ExitOnCloseOnly(q) ==
    /\ wpc[q] = "recv"
    /\ q \in closed /\ chan[q] = <<>>
    /\ wpc' = [wpc EXCEPT ![q] = "exit"]
    /\ UNCHANGED <<seq, chatOf, status, listed, queueOf, chan, closed, age,
                   wtask, runAge, sem, sender, stopped, panicked>>

\* The channel is closed and drained, or the context is done; with a task
\* buffered and the context done the select picks either branch.
Exit(q) ==
    /\ wpc[q] = "recv"
    /\ stopped \/ (q \in closed /\ chan[q] = <<>>)
    /\ wpc' = [wpc EXCEPT ![q] = "exit"]
    /\ UNCHANGED <<seq, chatOf, status, listed, queueOf, chan, closed, age,
                   wtask, runAge, sem, sender, stopped, panicked>>

\* Faulty variant: the semaphore admits one more than its capacity.
SlotFreeOffByOne == sem <= MaxConcurrent

SlotFree == sem < MaxConcurrent

AcquireSlot(q) ==
    /\ wpc[q] = "acquire"
    /\ SlotFree
    /\ sem' = sem + 1
    /\ wpc' = [wpc EXCEPT ![q] = "start"]
    /\ UNCHANGED <<seq, chatOf, status, listed, queueOf, chan, closed, age,
                   wtask, runAge, sender, stopped, panicked>>

\* Faulty variant: the release is deferred before the slot is taken, so a
\* worker that gives up returns a slot it never had.
AbandonReleasing(q) ==
    /\ wpc[q] = "acquire"
    /\ stopped
    /\ wpc' = [wpc EXCEPT ![q] = "release"]
    /\ wtask' = [wtask EXCEPT ![q] = NoTask]
    /\ UNCHANGED <<seq, chatOf, status, listed, queueOf, chan, closed, age,
                   runAge, sem, sender, stopped, panicked>>

\* The context ends while the worker waits for a slot: the task is dropped
\* and stays "pending".
AbandonTask(q) ==
    /\ wpc[q] = "acquire"
    /\ stopped
    /\ wpc' = [wpc EXCEPT ![q] = "touch"]
    /\ wtask' = [wtask EXCEPT ![q] = NoTask]
    /\ UNCHANGED <<seq, chatOf, status, listed, queueOf, chan, closed, age,
                   runAge, sem, sender, stopped, panicked>>

MarkRunning(q) ==
    /\ wpc[q] = "start"
    /\ status' = [status EXCEPT ![wtask[q]] = "running"]
    /\ wpc' = [wpc EXCEPT ![q] = "run"]
    /\ runAge' = [runAge EXCEPT ![q] = 0]
    /\ UNCHANGED <<seq, chatOf, listed, queueOf, chan, closed, age,
                   wtask, sem, sender, stopped, panicked>>

HandlerReturns(q) ==
    /\ wpc[q] = "run"
    /\ \E result \in Terminal : status' = [status EXCEPT ![wtask[q]] = result]
    /\ wpc' = [wpc EXCEPT ![q] = "release"]
    /\ wtask' = [wtask EXCEPT ![q] = NoTask]
    /\ runAge' = [runAge EXCEPT ![q] = 0]
    /\ UNCHANGED <<seq, chatOf, listed, queueOf, chan, closed, age,
                   sem, sender, stopped, panicked>>

\* Faulty variant: the slot is never given back.
LeakSlot(q) ==
    /\ wpc[q] = "release"
    /\ wpc' = [wpc EXCEPT ![q] = "touch"]
    /\ UNCHANGED <<seq, chatOf, status, listed, queueOf, chan, closed, age,
                   wtask, runAge, sem, sender, stopped, panicked>>

ReleaseSlot(q) ==
    /\ wpc[q] = "release"
    /\ sem' = sem - 1
    /\ wpc' = [wpc EXCEPT ![q] = "touch"]
    /\ UNCHANGED <<seq, chatOf, status, listed, queueOf, chan, closed, age,
                   wtask, runAge, sender, stopped, panicked>>

Touch(q) ==
    /\ wpc[q] = "touch"
    /\ age' = [age EXCEPT ![q] = 0]
    /\ wpc' = [wpc EXCEPT ![q] = "recv"]
    /\ UNCHANGED <<seq, chatOf, status, listed, queueOf, chan, closed,
                   wtask, runAge, sem, sender, stopped, panicked>>

----------------------------------------------------------------------------------
(***************************************************************************)
(* cleanupIdleQueues: one pass under q.mu closes and forgets every queue   *)
(* that has not been touched for longer than IdleTimeout and whose channel *)
(* is empty.  Whether a worker is busy is not looked at.                   *)
(***************************************************************************)
\* Faulty variant: an empty channel is enough, whenever it was last used.
EmptyLooksIdle(c) ==
    /\ queueOf[c] # NoQueue
    /\ chan[queueOf[c]] = <<>>

LooksIdle(c) ==
    /\ queueOf[c] # NoQueue
    /\ age[queueOf[c]] > IdleTimeout
    /\ chan[queueOf[c]] = <<>>

Cleanup ==
    LET expired == {c \in Chats : LooksIdle(c)}
    IN  /\ expired # {}
        /\ closed' = closed \cup {queueOf[c] : c \in expired}
        /\ queueOf' = [c \in Chats |-> IF c \in expired THEN NoQueue ELSE queueOf[c]]
        /\ UNCHANGED <<seq, chatOf, status, listed, chan, age,
                       wpc, wtask, runAge, sem, sender, stopped, panicked>>

(***************************************************************************)
(* RecentTasks spawns pruneOldTasks when the map holds more than Keep      *)
(* tasks: the oldest completed ones go, as many as are above the limit.    *)
(* Creation times are the submission order.                                *)
(***************************************************************************)
Prunable == {t \in listed : status[t] \in Terminal}

\* Faulty variant: the sort is the wrong way round.
Newest(S, n) == {t \in S : Cardinality({u \in S : u > t}) < n}

Oldest(S, n) == {t \in S : Cardinality({u \in S : u < t}) < n}

Prune ==
    /\ Cardinality(listed) > Keep
    /\ Prunable # {}
    /\ listed' = listed \ Oldest(Prunable, Cardinality(listed) - Keep)
    /\ UNCHANGED <<seq, chatOf, status, queueOf, chan, closed, age,
                   wpc, wtask, runAge, sem, sender, stopped, panicked>>

\* The gateway stops the queue after processInbound has returned.
Stop ==
    /\ ~stopped
    /\ sender = Idle
    /\ stopped' = TRUE
    /\ UNCHANGED <<seq, chatOf, status, listed, queueOf, chan, closed, age,
                   wpc, wtask, runAge, sem, sender, panicked>>

----------------------------------------------------------------------------------
(***************************************************************************)
(* The passage of time.                                                    *)
(***************************************************************************)
SenderCanRun == 
    /\ sender # Idle
    /\ sender.queue \in closed \/ Len(chan[sender.queue]) < ChanCap

WorkerCanRun(q) ==
    \/ wpc[q] = "recv" /\ (chan[q] # <<>> \/ q \in closed \/ stopped)
    \/ wpc[q] = "acquire" /\ (SlotFree \/ stopped)
    \/ wpc[q] \in {"start", "release", "touch"}
    \/ wpc[q] = "run" /\ runAge[q] >= RunBound

Older(a, limit) == IF a < limit THEN a + 1 ELSE a

\* Only the age of a queue in the map is ever read.
InMap(q) == \E c \in Chats : queueOf[c] = q

Tick ==
    /\ Prompt => ~SenderCanRun /\ \A q \in Task : ~WorkerCanRun(q)
    /\ age' = [q \in Task |-> IF InMap(q) THEN Older(age[q], IdleTimeout + 1)
                              ELSE age[q]]
    /\ runAge' = [q \in Task |-> IF wpc[q] = "run" THEN Older(runAge[q], RunBound)
                                 ELSE runAge[q]]
    /\ UNCHANGED <<seq, chatOf, status, listed, queueOf, chan, closed,
                   wpc, wtask, sem, sender, stopped, panicked>>

WorkerStep(q) ==
    \/ Receive(q)
    \/ Exit(q)
    \/ AcquireSlot(q)
    \/ AbandonTask(q)
    \/ MarkRunning(q)
    \/ HandlerReturns(q)
    \/ ReleaseSlot(q)
    \/ Touch(q)

Next ==
    /\ ~panicked
    /\ \/ \E c \in Chats : Submit(c)
       \/ Send
       \/ SendPanics
       \/ \E q \in Task : WorkerStep(q)
       \/ Cleanup
       \/ Prune
       \/ Stop
       \/ Tick

Spec == Init /\ [][Next]_vars

(***************************************************************************)
(* Go runs every goroutine that can run, and serves goroutines blocked on  *)
(* a channel in arrival order: a worker waiting for a slot gets one if     *)
(* slots keep being released (strong fairness), as does the sender waiting *)
(* for room.  A handler returns because its context has a deadline.        *)
(* Submissions, Stop, the sweeper and the pruner are owed nothing.         *)
(***************************************************************************)
Fairness ==
    /\ SF_vars(~panicked /\ Send)
    /\ \A q \in Task :
        /\ WF_vars(~panicked /\ WorkerStep(q))
        /\ SF_vars(~panicked /\ AcquireSlot(q))

FairSpec == Spec /\ Fairness

----------------------------------------------------------------------------------
(***************************************************************************)
(* Properties.                                                             *)
(***************************************************************************)

\* Types and ranges of the variables; the semaphore and the channels never
\* exceed their capacities.
TypeOK ==
    /\ seq \in 0 .. MaxTasks
    /\ chatOf \in [Task -> Chats \cup {NoChat}]
    /\ status \in [Task -> TaskStatus]
    /\ listed \in SUBSET Task
    /\ queueOf \in [Chats -> Task \cup {NoQueue}]
    /\ chan \in [Task -> Seq(Task)]
    /\ \A q \in Task : Len(chan[q]) <= ChanCap
    /\ closed \in SUBSET Task
    /\ age \in [Task -> 0 .. IdleTimeout + 1]
    /\ wpc \in [Task -> WorkerLoc]
    /\ wtask \in [Task -> Task \cup {NoTask}]
    /\ runAge \in [Task -> 0 .. RunBound]
    /\ sem \in 0 .. MaxConcurrent
    /\ sender \in [task : Task, queue : Task] \cup {Idle}
    /\ stopped \in BOOLEAN
    /\ panicked \in BOOLEAN

\* Every slot taken from the semaphore is held by exactly one worker, through
\* timeouts, failures, shutdown and abandoned queues: executeTask's deferred
\* release matches its acquisition.
SlotAccounting == sem = Cardinality({q \in Task : wpc[q] \in HoldsSlot})

\* No more than maxConcurrent handlers run at once, whatever the sweeper does.
ConcurrencyBound == Cardinality({t \in Task : status[t] = "running"}) <= MaxConcurrent

\* Where a task that has not started may be.
WithSender(t)     == sender # Idle /\ sender.task = t
WithWorker(t, q)  == wpc[q] \in {"acquire", "start"} /\ wtask[q] = t
InChannel(t, q)   == wpc[q] # "exit" /\ \E i \in 1 .. Len(chan[q]) : chan[q][i] = t

\* Until the queue is stopped no accepted task is lost or duplicated: a pending
\* task is with the sender, or with or on its way to one worker that is alive.
PendingTaskPlaced ==
    ~stopped =>
        \A t \in Task : status[t] = "pending" =>
            \/ /\ WithSender(t)
               /\ \A q \in Task : ~WithWorker(t, q) /\ ~InChannel(t, q)
            \/ /\ ~WithSender(t)
               /\ \E q \in Task :
                    /\ WithWorker(t, q) # InChannel(t, q)
                    /\ \A r \in Task \ {q} : ~WithWorker(t, r) /\ ~InChannel(t, r)

\* pruneOldTasks forgets completed tasks only, and the oldest of them first.
PrunesOldestCompleted ==
    [][\A t \in listed \ listed' :
          /\ status[t] \in Terminal
          /\ \A u \in listed' : status[u] \in Terminal => t < u]_vars

\* Two turns of one chat never run at the same time ("processChatQueue drains
\* tasks for a single chat, running them serially").
SerialPerChat ==
    \A t, u \in Task :
        status[t] = "running" /\ status[u] = "running" /\ chatOf[t] = chatOf[u] => t = u

\* Submit never sends on a channel the sweeper has closed in the meantime.
NoSendOnClosed == ~panicked

\* A pending task no goroutine will ever look at, left behind by a shutdown.
Forgotten(t) ==
    /\ status[t] = "pending"
    /\ ~WithSender(t)
    /\ \A q \in Task : ~WithWorker(t, q) /\ ~InChannel(t, q)

\* The queue implements its promise: chats served serially and in order.
Promise == INSTANCE ChatSerial
           WITH status <- [t \in Task |-> IF Forgotten(t) THEN "dropped" ELSE status[t]]
ServesChatsSerially == Promise!Spec

\* An accepted task completes unless the queue is stopped first, even when
\* slots are scarce and the sweeper removes queues whose worker is waiting.
EveryTaskCompletes ==
    \A t \in Task : status[t] = "pending" ~> status[t] \in Terminal \/ stopped

\* After Stop every worker goroutine ends.
StopEndsWorkers == stopped ~> \A q \in Task : wpc[q] \in {"none", "exit"}

==================================================================================
