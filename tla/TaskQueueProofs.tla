---------------------------- MODULE TaskQueueProofs ----------------------------
(***************************************************************************)
(* Theorems about TaskQueue, for every set of chats, every capacity and    *)
(* every timeout.                                                          *)
(*                                                                         *)
(* 1. Slots.  Nothing here uses Prompt.  The inductive invariant joins     *)
(*    TypeOK, SlotAccounting, RunningHeld and FutureWorkers.  TypeOK alone *)
(*    is not inductive: that releasing a slot leaves sem non-negative      *)
(*    follows from the worker being counted in sem, and that Submit may    *)
(*    start a worker without disturbing the count follows from its name    *)
(*    not being in use.                                                    *)
(*                                                                         *)
(* 2. Placement (NoTaskLost), without Prompt too.  That a pending task is  *)
(*    in exactly one place is not inductive: a task that is not pending    *)
(*    any more could still be buffered elsewhere.  The invariant is that   *)
(*    every task, pending or not, is in one place at most (Single), that   *)
(*    every pending one is in one (Somewhere), and that a worker leaves    *)
(*    only a queue that was closed (Left), which Send avoids.              *)
(*                                                                         *)
(* 3. Order (ChatsAreSerial, NoPanic, PromiseKept), where slots suffice    *)
(*    and goroutines are prompt (Roomy).  A chat is served in order by one *)
(*    worker as long as the sweeper takes no queue that is in use          *)
(*    (UsedIsMapped).  It takes one whose last use is IdleTimeout ago and  *)
(*    whose channel is empty, so the invariant bounds the age of a queue   *)
(*    in use by what its worker and the sender have done since (Ages), and *)
(*    that the worker is not left waiting follows from there being a slot  *)
(*    for every chat's only worker.                                        *)
(***************************************************************************)
EXTENDS TaskQueue, FiniteSetTheorems, SequenceTheorems, TLAPS

Holders == {q \in Task : wpc[q] \in HoldsSlot}
Running == {t \in Task : status[t] = "running"}
Runners == {q \in Task : wpc[q] = "run"}

\* Every running task is in the hands of a worker that is in the handler.
RunningHeld == \A t \in Running : \E q \in Runners : wtask[q] = t

\* No worker has the name of a task that was not submitted yet.
FutureWorkers == \A q \in Task : q > seq => wpc[q] = "none"

IndInv ==
    /\ TypeOK
    /\ SlotAccounting
    /\ RunningHeld
    /\ FutureWorkers

--------------------------------------------------------------------------------
(***************************************************************************)
(* Counting.                                                               *)
(***************************************************************************)

LEMMA TaskFinite == IsFiniteSet(Task)
BY ConstantsAssumption, FS_Interval DEF Task

LEMMA HoldersFinite == IsFiniteSet(Holders) /\ Cardinality(Holders) \in Nat
<1>1. Holders \in SUBSET Task
    BY DEF Holders
<1>2. IsFiniteSet(Holders)
    BY <1>1, TaskFinite, FS_Subset
<1> QED
    BY <1>2, FS_CardinalityType

\* A worker between its acquisition and its release is counted in sem.
LEMMA HolderCounted ==
    ASSUME SlotAccounting, NEW q \in Task, wpc[q] \in HoldsSlot
    PROVE  sem >= 1
<1>1. q \in Holders /\ Holders = Holders \cup {q}
    BY DEF Holders
<1>2. Holders # {} /\ Cardinality(Holders) # 0
    BY <1>1, HoldersFinite, FS_EmptySet
<1>3. sem = Cardinality(Holders)
    BY DEF SlotAccounting, Holders
<1> QED
    BY <1>2, <1>3, HoldersFinite

--------------------------------------------------------------------------------
(***************************************************************************)
(* Types.                                                                  *)
(***************************************************************************)

LEMMA TypeInit == Init => TypeOK
<1> SUFFICES ASSUME Init PROVE TypeOK
    OBVIOUS
<1>1. chan \in [Task -> Seq(Task)] /\ \A q \in Task : Len(chan[q]) <= ChanCap
    BY ConstantsAssumption DEF Init
<1>2. seq \in 0 .. MaxTasks /\ sem \in 0 .. MaxConcurrent
    BY ConstantsAssumption DEF Init
<1>3. age \in [Task -> 0 .. IdleTimeout + 1] /\ runAge \in [Task -> 0 .. RunBound]
    BY ConstantsAssumption DEF Init
<1>4. /\ status \in [Task -> TaskStatus]
      /\ wpc \in [Task -> WorkerLoc]
      /\ wtask \in [Task -> Task \cup {NoTask}]
    BY DEF Init, TaskStatus, WorkerLoc
<1> QED
    BY <1>1, <1>2, <1>3, <1>4 DEF Init, TypeOK

LEMMA TypeSubmit ==
    ASSUME TypeOK, NEW c \in Chats, Submit(c)
    PROVE  TypeOK'
<1>1. seq + 1 \in Task /\ seq' \in 0 .. MaxTasks
    BY ConstantsAssumption DEF TypeOK, Submit, Task
<1>2. QueueFor(c, seq + 1) \in Task
    BY <1>1, ConstantsAssumption DEF TypeOK, QueueFor
<1>3. chatOf' \in [Task -> Chats \cup {NoChat}]
    BY <1>1 DEF TypeOK, Submit
<1>4. status' \in [Task -> TaskStatus]
    BY <1>1 DEF TypeOK, Submit, TaskStatus
<1>5. queueOf' \in [Chats -> Task \cup {NoQueue}]
    BY <1>2 DEF TypeOK, Submit
<1>6. wpc' \in [Task -> WorkerLoc]
    BY <1>1 DEF TypeOK, Submit, WorkerLoc
<1>7. age' \in [Task -> 0 .. IdleTimeout + 1]
    BY <1>2, ConstantsAssumption DEF TypeOK, Submit
<1>8. sender' \in [task : Task, queue : Task] \cup {Idle}
    BY <1>1, <1>2 DEF Submit
<1>9. listed' \in SUBSET Task
    BY <1>1 DEF TypeOK, Submit
<1> QED
    BY <1>1, <1>3, <1>4, <1>5, <1>6, <1>7, <1>8, <1>9 DEF TypeOK, Submit

LEMMA TypeSend ==
    ASSUME TypeOK, Send
    PROVE  TypeOK'
<1>1. sender.task \in Task /\ sender.queue \in Task
    BY DEF TypeOK, Send
<1>2. chan' \in [Task -> Seq(Task)]
    BY <1>1 DEF TypeOK, Send
<1>3. \A q \in Task : Len(chan'[q]) <= ChanCap
    BY <1>1, ConstantsAssumption DEF TypeOK, Send
<1> QED
    BY <1>2, <1>3 DEF TypeOK, Send

LEMMA TypeReceive ==
    ASSUME TypeOK, NEW q \in Task, Receive(q)
    PROVE  TypeOK'
<1>1. chan[q] \in Seq(Task) /\ chan[q] # <<>>
    BY DEF TypeOK, Receive
<1>2. Head(chan[q]) \in Task /\ Tail(chan[q]) \in Seq(Task)
      /\ Len(Tail(chan[q])) <= Len(chan[q])
    BY <1>1
<1>3. wtask' \in [Task -> Task \cup {NoTask}] /\ wpc' \in [Task -> WorkerLoc]
    BY <1>2 DEF TypeOK, Receive, WorkerLoc
<1>4. chan' \in [Task -> Seq(Task)]
    BY <1>2 DEF TypeOK, Receive
<1>5. \A r \in Task : Len(chan'[r]) <= ChanCap
    BY <1>2, <1>1, ConstantsAssumption DEF TypeOK, Receive
<1> QED
    BY <1>3, <1>4, <1>5 DEF TypeOK, Receive

LEMMA TypeWorker ==
    ASSUME TypeOK, SlotAccounting, NEW q \in Task, WorkerStep(q)
    PROVE  TypeOK'
<1>1. CASE Receive(q)
    BY <1>1, TypeReceive
<1>2. CASE Exit(q)
    BY <1>2 DEF TypeOK, Exit, WorkerLoc
<1>3. CASE AcquireSlot(q)
    <2>1. sem' \in 0 .. MaxConcurrent
        BY <1>3, ConstantsAssumption DEF TypeOK, AcquireSlot, SlotFree
    <2> QED
        BY <1>3, <2>1 DEF TypeOK, AcquireSlot, WorkerLoc
<1>4. CASE AbandonTask(q)
    BY <1>4 DEF TypeOK, AbandonTask, WorkerLoc
<1>5. CASE MarkRunning(q)
    <2>1. status' \in [Task -> TaskStatus]
        BY <1>5 DEF TypeOK, MarkRunning, TaskStatus
    <2>2. wpc' \in [Task -> WorkerLoc] /\ runAge' \in [Task -> 0 .. RunBound]
        BY <1>5, ConstantsAssumption DEF TypeOK, MarkRunning, WorkerLoc
    <2> QED
        BY <1>5, <2>1, <2>2 DEF TypeOK, MarkRunning
<1>6. CASE HandlerReturns(q)
    <2>1. status' \in [Task -> TaskStatus]
        BY <1>6 DEF TypeOK, HandlerReturns, TaskStatus, Terminal
    <2>2. wpc' \in [Task -> WorkerLoc] /\ wtask' \in [Task -> Task \cup {NoTask}]
        BY <1>6 DEF TypeOK, HandlerReturns, WorkerLoc
    <2>3. runAge' \in [Task -> 0 .. RunBound]
        BY <1>6, ConstantsAssumption DEF TypeOK, HandlerReturns
    <2> QED
        BY <1>6, <2>1, <2>2, <2>3 DEF TypeOK, HandlerReturns
<1>7. CASE ReleaseSlot(q)
    <2>1. sem' \in 0 .. MaxConcurrent
        BY <1>7, HolderCounted, ConstantsAssumption
           DEF TypeOK, ReleaseSlot, HoldsSlot
    <2> QED
        BY <1>7, <2>1 DEF TypeOK, ReleaseSlot, WorkerLoc
<1>8. CASE Touch(q)
    BY <1>8, ConstantsAssumption DEF TypeOK, Touch, WorkerLoc
<1> QED
    BY <1>1, <1>2, <1>3, <1>4, <1>5, <1>6, <1>7, <1>8 DEF WorkerStep

LEMMA TypeTick ==
    ASSUME TypeOK, Tick
    PROVE  TypeOK'
<1>1. age' \in [Task -> 0 .. IdleTimeout + 1]
    BY ConstantsAssumption DEF TypeOK, Tick, Older
<1>2. runAge' \in [Task -> 0 .. RunBound]
    BY ConstantsAssumption DEF TypeOK, Tick, Older
<1> QED
    BY <1>1, <1>2 DEF TypeOK, Tick

LEMMA TypeStep ==
    ASSUME TypeOK, SlotAccounting, [Next]_vars
    PROVE  TypeOK'
<1>1. ASSUME NEW c \in Chats, Submit(c) PROVE TypeOK'
    BY <1>1, TypeSubmit
<1>2. CASE Send
    BY <1>2, TypeSend
<1>3. CASE SendPanics
    BY <1>3 DEF TypeOK, SendPanics
<1>4. ASSUME NEW q \in Task, WorkerStep(q) PROVE TypeOK'
    BY <1>4, TypeWorker
<1>5. CASE Cleanup
    <2>1. closed' \in SUBSET Task /\ queueOf' \in [Chats -> Task \cup {NoQueue}]
        BY <1>5 DEF TypeOK, Cleanup, LooksIdle
    <2> QED
        BY <1>5, <2>1 DEF TypeOK, Cleanup
<1>6. CASE Prune
    BY <1>6 DEF TypeOK, Prune
<1>7. CASE Stop
    BY <1>7 DEF TypeOK, Stop
<1>8. CASE Tick
    BY <1>8, TypeTick
<1>9. CASE UNCHANGED vars
    BY <1>9 DEF TypeOK, vars
<1> QED
    BY <1>1, <1>2, <1>3, <1>4, <1>5, <1>6, <1>7, <1>8, <1>9 DEF Next

--------------------------------------------------------------------------------
(***************************************************************************)
(* Slots.                                                                  *)
(***************************************************************************)

\* A step that moves worker q neither into nor out of the critical stretch.
LEMMA SlotsSame ==
    ASSUME TypeOK, SlotAccounting, sem' = sem,
           NEW q \in Task, NEW loc, wpc' = [wpc EXCEPT ![q] = loc],
           wpc[q] \in HoldsSlot <=> loc \in HoldsSlot
    PROVE  SlotAccounting'
<1>1. Holders' = Holders
    BY DEF Holders, TypeOK
<1> QED
    BY <1>1 DEF SlotAccounting, Holders

LEMMA SlotsWorker ==
    ASSUME TypeOK, SlotAccounting, NEW q \in Task, WorkerStep(q)
    PROVE  SlotAccounting'
<1>1. CASE Receive(q)
    BY <1>1, SlotsSame DEF Receive, HoldsSlot
<1>2. CASE Exit(q)
    BY <1>2, SlotsSame DEF Exit, HoldsSlot
<1>3. CASE AcquireSlot(q)
    <2>1. q \notin Holders /\ Holders' = Holders \cup {q}
        BY <1>3 DEF Holders, TypeOK, AcquireSlot, HoldsSlot
    <2>2. Cardinality(Holders') = Cardinality(Holders) + 1
        BY <2>1, HoldersFinite, FS_AddElement
    <2> QED
        BY <1>3, <2>2 DEF SlotAccounting, Holders, AcquireSlot
<1>4. CASE AbandonTask(q)
    BY <1>4, SlotsSame DEF AbandonTask, HoldsSlot
<1>5. CASE MarkRunning(q)
    BY <1>5, SlotsSame DEF MarkRunning, HoldsSlot
<1>6. CASE HandlerReturns(q)
    BY <1>6, SlotsSame DEF HandlerReturns, HoldsSlot
<1>7. CASE ReleaseSlot(q)
    <2>1. q \in Holders /\ Holders' = Holders \ {q}
        BY <1>7 DEF Holders, TypeOK, ReleaseSlot, HoldsSlot
    <2>2. Cardinality(Holders') = Cardinality(Holders) - 1
        BY <2>1, HoldersFinite, FS_RemoveElement
    <2> QED
        BY <1>7, <2>2 DEF SlotAccounting, Holders, ReleaseSlot
<1>8. CASE Touch(q)
    BY <1>8, SlotsSame DEF Touch, HoldsSlot
<1> QED
    BY <1>1, <1>2, <1>3, <1>4, <1>5, <1>6, <1>7, <1>8 DEF WorkerStep

LEMMA SlotsStep ==
    ASSUME TypeOK, SlotAccounting, FutureWorkers, [Next]_vars
    PROVE  SlotAccounting'
<1>1. ASSUME NEW c \in Chats, Submit(c) PROVE SlotAccounting'
    <2>1. sem' = sem
        BY <1>1 DEF Submit
    <2>2. CASE wpc' = wpc
        BY <2>1, <2>2 DEF SlotAccounting
    <2>3. CASE wpc' = [wpc EXCEPT ![seq + 1] = "recv"]
        <3>1. seq + 1 \in Task /\ wpc[seq + 1] = "none"
            BY <1>1, ConstantsAssumption DEF TypeOK, Submit, Task, FutureWorkers
        <3> QED
            BY <2>1, <2>3, <3>1, SlotsSame DEF HoldsSlot
    <2> QED
        BY <1>1, <2>2, <2>3 DEF Submit
<1>2. ASSUME UNCHANGED <<sem, wpc>> PROVE SlotAccounting'
    BY <1>2 DEF SlotAccounting
<1>3. ASSUME NEW q \in Task, WorkerStep(q) PROVE SlotAccounting'
    BY <1>3, SlotsWorker
<1> QED
    BY <1>1, <1>2, <1>3
       DEF Next, vars, Send, SendPanics, Cleanup, Prune, Stop, Tick

--------------------------------------------------------------------------------
(***************************************************************************)
(* Workers and running tasks.                                              *)
(***************************************************************************)

LEMMA FutureStep ==
    ASSUME TypeOK, FutureWorkers, [Next]_vars
    PROVE  FutureWorkers'
<1>1. ASSUME NEW c \in Chats, Submit(c) PROVE FutureWorkers'
    BY <1>1, ConstantsAssumption DEF TypeOK, Submit, FutureWorkers, Task
<1>2. ASSUME UNCHANGED <<seq, wpc>> PROVE FutureWorkers'
    BY <1>2 DEF FutureWorkers
<1>3. ASSUME NEW q \in Task, WorkerStep(q) PROVE FutureWorkers'
    <2>1. seq' = seq /\ wpc[q] # "none" /\ \A r \in Task \ {q} : wpc'[r] = wpc[r]
        BY <1>3 DEF TypeOK, WorkerStep, Receive, Exit, AcquireSlot, AbandonTask,
                    MarkRunning, HandlerReturns, ReleaseSlot, Touch
    <2> QED
        BY <1>3, <2>1 DEF FutureWorkers
<1> QED
    BY <1>1, <1>2, <1>3
       DEF Next, vars, Send, SendPanics, Cleanup, Prune, Stop, Tick

\* A step that leaves the running tasks and the workers in the handler alone.
LEMMA RunningSame ==
    ASSUME RunningHeld,
           \A t \in Task : status'[t] = "running" => status[t] = "running",
           \A q \in Task : wpc[q] = "run" => wpc'[q] = "run" /\ wtask'[q] = wtask[q]
    PROVE  RunningHeld'
BY DEF RunningHeld, Running, Runners

LEMMA RunningWorker ==
    ASSUME TypeOK, RunningHeld, NEW q \in Task, WorkerStep(q)
    PROVE  RunningHeld'
<1>1. CASE MarkRunning(q)
    <2>1. ASSUME NEW t \in Task, status'[t] = "running"
          PROVE  \E r \in Task : wpc'[r] = "run" /\ wtask'[r] = t
        <3>1. CASE t = wtask[q]
            BY <1>1, <3>1 DEF TypeOK, MarkRunning
        <3>2. CASE t # wtask[q]
            <4>1. status[t] = "running"
                BY <1>1, <2>1, <3>2 DEF TypeOK, MarkRunning
            <4>2. PICK r \in Task : wpc[r] = "run" /\ wtask[r] = t
                BY <4>1 DEF RunningHeld, Running, Runners
            <4> QED
                BY <1>1, <4>2 DEF TypeOK, MarkRunning
        <3> QED
            BY <3>1, <3>2
    <2> QED
        BY <2>1 DEF RunningHeld, Running, Runners
<1>2. CASE HandlerReturns(q)
    <2>1. ASSUME NEW t \in Task, status'[t] = "running"
          PROVE  \E r \in Task : wpc'[r] = "run" /\ wtask'[r] = t
        <3>1. t # wtask[q] /\ status[t] = "running"
            BY <1>2, <2>1 DEF TypeOK, HandlerReturns, Terminal
        <3>2. PICK r \in Task : wpc[r] = "run" /\ wtask[r] = t
            BY <3>1 DEF RunningHeld, Running, Runners
        <3> QED
            BY <1>2, <3>1, <3>2 DEF TypeOK, HandlerReturns
    <2> QED
        BY <2>1 DEF RunningHeld, Running, Runners
<1>3. CASE \/ Receive(q) \/ Exit(q) \/ AcquireSlot(q)
           \/ AbandonTask(q) \/ ReleaseSlot(q) \/ Touch(q)
    <2>1. status' = status
        BY <1>3 DEF Receive, Exit, AcquireSlot, AbandonTask, ReleaseSlot, Touch
    <2>2. \A r \in Task : wpc[r] = "run" => wpc'[r] = "run" /\ wtask'[r] = wtask[r]
        BY <1>3 DEF TypeOK, Receive, Exit, AcquireSlot, AbandonTask, ReleaseSlot, Touch
    <2> QED
        BY <2>1, <2>2, RunningSame
<1> QED
    BY <1>1, <1>2, <1>3 DEF WorkerStep

LEMMA RunningStep ==
    ASSUME TypeOK, FutureWorkers, RunningHeld, [Next]_vars
    PROVE  RunningHeld'
<1>1. ASSUME NEW c \in Chats, Submit(c) PROVE RunningHeld'
    <2>1. seq + 1 \in Task /\ wpc[seq + 1] = "none"
        BY <1>1, ConstantsAssumption DEF TypeOK, Submit, Task, FutureWorkers
    <2>2. \A t \in Task : status'[t] = "running" => status[t] = "running"
        BY <1>1 DEF TypeOK, Submit
    <2>3. \A q \in Task : wpc[q] = "run" => wpc'[q] = "run" /\ wtask'[q] = wtask[q]
        BY <1>1, <2>1 DEF TypeOK, Submit
    <2> QED
        BY <2>2, <2>3, RunningSame
<1>2. ASSUME UNCHANGED <<status, wpc, wtask>> PROVE RunningHeld'
    BY <1>2 DEF RunningHeld, Running, Runners
<1>3. ASSUME NEW q \in Task, WorkerStep(q) PROVE RunningHeld'
    BY <1>3, RunningWorker
<1> QED
    BY <1>1, <1>2, <1>3
       DEF Next, vars, Send, SendPanics, Cleanup, Prune, Stop, Tick

--------------------------------------------------------------------------------
(***************************************************************************)
(* The theorems.                                                           *)
(***************************************************************************)

LEMMA IndInvInit == Init => IndInv
<1> SUFFICES ASSUME Init PROVE IndInv
    OBVIOUS
<1>1. Holders = {}
    BY DEF Init, Holders, HoldsSlot
<1>2. SlotAccounting
    BY <1>1, FS_EmptySet DEF Init, SlotAccounting, Holders
<1>3. RunningHeld /\ FutureWorkers
    BY DEF Init, RunningHeld, Running, FutureWorkers
<1> QED
    BY <1>2, <1>3, TypeInit DEF IndInv

LEMMA IndInvStep == IndInv /\ [Next]_vars => IndInv'
BY TypeStep, SlotsStep, RunningStep, FutureStep DEF IndInv

LEMMA IndInvHolds == Spec => []IndInv
BY IndInvInit, IndInvStep, PTL DEF Spec

\* The queue's data stays well formed, and the semaphore and every channel
\* stay within their capacities, for any number of chats and tasks.
THEOREM TypeCorrect == Spec => []TypeOK
<1>1. IndInv => TypeOK
    BY DEF IndInv
<1> QED
    BY <1>1, IndInvHolds, PTL

\* The slots taken are those of the workers between acquisition and release,
\* even through shutdown and the removal of their chatQueue.
THEOREM SlotsAccounted == Spec => []SlotAccounting
<1>1. IndInv => SlotAccounting
    BY DEF IndInv
<1> QED
    BY <1>1, IndInvHolds, PTL

\* No more handlers run than workers hold slots, and no more of these than
\* the semaphore's capacity.
LEMMA ConcurrencyFromInv == IndInv => ConcurrencyBound
<1> SUFFICES ASSUME IndInv PROVE ConcurrencyBound
    OBVIOUS
<1>1. Runners \in SUBSET Holders
    BY DEF Runners, Holders, HoldsSlot
<1>2. IsFiniteSet(Runners) /\ Cardinality(Runners) <= Cardinality(Holders)
    BY <1>1, HoldersFinite, FS_Subset
<1> DEFINE Held == {q \in Runners : wtask[q] \in Running}
           task == [q \in Held |-> wtask[q]]
<1>3. IsFiniteSet(Held) /\ Cardinality(Held) <= Cardinality(Runners)
    <2>1. Held \in SUBSET Runners
        OBVIOUS
    <2> QED
        BY <1>2, <2>1, FS_Subset
<1>4. task \in Surjection(Held, Running)
    BY DEF Surjection, IndInv, RunningHeld
<1>5. IsFiniteSet(Running) /\ Cardinality(Running) <= Cardinality(Held)
    BY <1>3, <1>4, FS_Surjection
<1>6. Cardinality(Holders) <= MaxConcurrent
    BY ConstantsAssumption DEF IndInv, TypeOK, SlotAccounting, Holders
<1>7. /\ Cardinality(Running) \in Nat
      /\ Cardinality(Held) \in Nat
      /\ Cardinality(Runners) \in Nat
    BY <1>2, <1>3, <1>5, FS_CardinalityType
<1>8. Cardinality(Running) <= MaxConcurrent
    BY <1>2, <1>3, <1>5, <1>6, <1>7, HoldersFinite, ConstantsAssumption
<1> QED
    BY <1>8 DEF ConcurrencyBound, Running

\* However many chats there are and however the sweeper, the timeouts and the
\* shutdown interfere, at most maxConcurrent handlers run at once.
THEOREM ConcurrencyBounded == Spec => []ConcurrencyBound
BY IndInvHolds, ConcurrencyFromInv, PTL

--------------------------------------------------------------------------------
(***************************************************************************)
(* Pruning.                                                                *)
(***************************************************************************)

\* The tasks below a later one include those below an earlier one.
LEMMA BelowGrows ==
    ASSUME NEW S \in SUBSET Task, NEW t \in Task, NEW u \in Task, u <= t
    PROVE  /\ Cardinality({v \in S : v < u}) \in Nat /\ Cardinality({v \in S : v < t}) \in Nat
           /\ Cardinality({v \in S : v < u}) <= Cardinality({v \in S : v < t})
<1>1. {v \in S : v < u} \in SUBSET {v \in S : v < t}
    <2>1. \A v \in S : v \in Int
        BY DEF Task
    <2>2. t \in Int /\ u \in Int
        BY DEF Task
    <2>3. \A v \in S : v < u => v < t
        BY <2>1, <2>2
    <2> QED
        BY <2>3
<1>2. IsFiniteSet({v \in S : v < t})
    <2>1. {v \in S : v < t} \in SUBSET Task
        OBVIOUS
    <2> QED
        BY <2>1, TaskFinite, FS_Subset
<1>3. IsFiniteSet({v \in S : v < u}) /\ Cardinality({v \in S : v < u}) <= Cardinality({v \in S : v < t})
    BY <1>1, <1>2, FS_Subset
<1> QED
    BY <1>2, <1>3, FS_CardinalityType

LEMMA PruneStep ==
    ASSUME TypeOK, [Next]_vars, NEW t \in listed \ listed'
    PROVE  /\ status[t] \in Terminal
           /\ \A u \in listed' : status[u] \in Terminal => t < u
<1> DEFINE n == Cardinality(listed) - Keep
<1>1. Prune
    BY DEF Next, vars, Submit, Send, SendPanics, WorkerStep, Receive, Exit, AcquireSlot,
           AbandonTask, MarkRunning, HandlerReturns, ReleaseSlot, Touch, Cleanup, Stop, Tick
<1>2. n \in Int
    <2>1. IsFiniteSet(listed)
        BY TaskFinite, FS_Subset DEF TypeOK
    <2> QED
        BY <2>1, FS_CardinalityType, ConstantsAssumption
<1>3. listed' = listed \ Oldest(Prunable, n)
    BY <1>1 DEF Prune
<1>4. Prunable \in SUBSET Task
    BY DEF Prunable, TypeOK
<1> HIDE DEF n
<1>5. t \in Prunable /\ Cardinality({v \in Prunable : v < t}) < n
    BY <1>3 DEF Oldest
<1>6. ASSUME NEW u \in listed', status[u] \in Terminal, u <= t PROVE FALSE
    <2>1. u \in Prunable /\ ~(Cardinality({v \in Prunable : v < u}) < n)
        BY <1>3, <1>6 DEF Oldest, Prunable
    <2>2. /\ Cardinality({v \in Prunable : v < u}) \in Nat /\ Cardinality({v \in Prunable : v < t}) \in Nat
          /\ Cardinality({v \in Prunable : v < u}) <= Cardinality({v \in Prunable : v < t})
        BY <1>4, <1>5, <1>6, <2>1, BelowGrows
    <2> QED
        BY <1>2, <1>5, <2>1, <2>2
<1>7. \A u \in listed' : u \in Int /\ t \in Int
    BY <1>3 DEF TypeOK, Task
<1> QED
    BY <1>5, <1>6, <1>7 DEF Prunable

\* What the observability map forgets is completed, and older than every
\* completed task it keeps, whatever the limit and the speed of the goroutines.
THEOREM PrunesOldest == Spec => PrunesOldestCompleted
<1>1. IndInv /\ [Next]_vars =>
          [\A t \in listed \ listed' :
              /\ status[t] \in Terminal
              /\ \A u \in listed' : status[u] \in Terminal => t < u]_vars
    BY PruneStep DEF IndInv
<1> QED
    BY <1>1, IndInvHolds, PTL DEF Spec, PrunesOldestCompleted

--------------------------------------------------------------------------------
(***************************************************************************)
(* Placement.                                                              *)
(***************************************************************************)
Has(q)      == wpc[q] \in HoldsTask
Buffered(q) == 1 .. Len(chan[q])

\* Workers, channels and sender share no task, and know no task that was not submitted.
SingleHeld == \A q, r \in Task : Has(q) /\ Has(r) /\ wtask[q] = wtask[r] => q = r
HeldNotBuffered ==
    \A q, r \in Task : Has(q) => \A i \in Buffered(r) : chan[r][i] # wtask[q]
BufferedOnce ==
    \A q, r \in Task : \A i \in Buffered(q), j \in Buffered(r) :
        chan[q][i] = chan[r][j] => q = r /\ i = j
SenderAlone ==
    sender # Idle =>
        \A q \in Task : /\ Has(q) => wtask[q] # sender.task
                        /\ \A i \in Buffered(q) : chan[q][i] # sender.task
Known ==
    /\ sender # Idle => sender.task <= seq
    /\ \A q \in Task : Has(q) => wtask[q] <= seq
    /\ \A q \in Task : \A i \in Buffered(q) : chan[q][i] <= seq

Single == SingleHeld /\ HeldNotBuffered /\ BufferedOnce /\ SenderAlone /\ Known

Somewhere ==
    ~stopped =>
        \A t \in Task : status[t] = "pending" =>
            \/ WithSender(t)
            \/ \E q \in Task : WithWorker(t, q) \/ InChannel(t, q)

Left == ~stopped => \A q \in Task : wpc[q] = "exit" => q \in closed

PlaceInv == IndInv /\ Single /\ Somewhere /\ Left

--------------------------------------------------------------------------------
LEMMA PlaceInit == Init => PlaceInv
<1> SUFFICES ASSUME Init PROVE PlaceInv
    OBVIOUS
<1>1. \A q \in Task : ~Has(q) /\ Buffered(q) = {}
    BY DEF Init, Has, HoldsTask, Buffered
<1>2. Single
    BY <1>1 DEF Init, Single, SingleHeld, HeldNotBuffered, BufferedOnce, SenderAlone, Known
<1>3. Somewhere /\ Left
    BY DEF Init, Somewhere, Left
<1> QED
    BY <1>2, <1>3, IndInvInit DEF PlaceInv

\* A new task is known to nobody but the sender.
LEMMA PlaceSubmit ==
    ASSUME PlaceInv, NEW c \in Chats, Submit(c)
    PROVE  Single' /\ Somewhere' /\ Left'
<1> DEFINE t == seq + 1
<1>1. /\ t \in Task /\ seq \in Nat /\ wpc[t] = "none"
      /\ chan' = chan /\ wtask' = wtask /\ closed' = closed /\ stopped' = stopped
      /\ sender = Idle /\ seq' = t /\ sender'.task = t /\ sender' # Idle
      /\ status' = [status EXCEPT ![t] = "pending"]
    BY ConstantsAssumption DEF PlaceInv, IndInv, TypeOK, FutureWorkers, Submit, Task, Idle, NoTask
<1>2. \A q \in Task : wpc'[q] = wpc[q] \/ (q = t /\ wpc'[q] = "recv")
    BY <1>1 DEF Submit, PlaceInv, IndInv, TypeOK
<1> HIDE DEF t
<1>3. \A q \in Task : (Has(q)' => Has(q)) /\ Buffered(q)' = Buffered(q)
    BY <1>1, <1>2 DEF Has, HoldsTask, Buffered
<1>4. t > seq /\ t >= seq
    BY <1>1 DEF t
<1>5. Single'
    <2>1. SingleHeld' /\ HeldNotBuffered' /\ BufferedOnce'
        BY <1>1, <1>3 DEF PlaceInv, Single, SingleHeld, HeldNotBuffered, BufferedOnce
    <2>2. \A q \in Task : /\ Has(q)' => wtask[q] <= seq /\ wtask[q] \in Int
                          /\ \A i \in Buffered(q) : chan[q][i] <= seq /\ chan[q][i] \in Int
        <3> SUFFICES ASSUME NEW q \in Task
                     PROVE  /\ Has(q)' => wtask[q] <= seq /\ wtask[q] \in Int
                            /\ \A i \in Buffered(q) : chan[q][i] <= seq /\ chan[q][i] \in Int
            OBVIOUS
        <3>1. wtask[q] \in Int /\ \A i \in Buffered(q) : chan[q][i] \in Int
            <4>1. wtask[q] \in Task \cup {NoTask} /\ chan[q] \in Seq(Task)
                BY DEF PlaceInv, IndInv, TypeOK
            <4>2. Task \subseteq Int /\ NoTask \in Int
                BY DEF Task, NoTask
            <4>3. \A i \in Buffered(q) : chan[q][i] \in Task
                BY <4>1 DEF Buffered
            <4> QED
                BY <4>1, <4>2, <4>3
        <3>2. (Has(q) => wtask[q] <= seq) /\ \A i \in Buffered(q) : chan[q][i] <= seq
            BY DEF PlaceInv, Single, Known
        <3> QED
            BY <1>3, <3>1, <3>2
    <2>3. SenderAlone'
        BY <1>1, <1>3, <1>4, <2>2 DEF SenderAlone
    <2>4. Known'
        BY <1>1, <1>3, <1>4, <2>2 DEF Known, Task
    <2> QED
        BY <2>1, <2>3, <2>4 DEF Single
<1>6. Somewhere'
    <2> SUFFICES ASSUME ~stopped, NEW u \in Task, status'[u] = "pending"
                 PROVE  WithSender(u)' \/ \E q \in Task : WithWorker(u, q)' \/ InChannel(u, q)'
        BY <1>1 DEF Somewhere
    <2>1. CASE u = t
        BY <2>1, <1>1 DEF WithSender
    <2>2. CASE u # t
        <3>1. status[u] = "pending"
            BY <2>2, <1>1 DEF PlaceInv, IndInv, TypeOK
        <3>2. PICK q \in Task : WithWorker(u, q) \/ InChannel(u, q)
            BY <3>1, <1>1 DEF PlaceInv, Somewhere, WithSender
        <3> QED
            BY <3>2, <1>1, <1>2 DEF WithWorker, InChannel
    <2> QED
        BY <2>1, <2>2
<1>7. Left'
    BY <1>1, <1>2 DEF PlaceInv, Left
<1> QED
    BY <1>5, <1>6, <1>7

\* The sender's task enters a channel whose worker has not left.
LEMMA PlaceSend ==
    ASSUME PlaceInv, Send
    PROVE  Single' /\ Somewhere' /\ Left'
<1> DEFINE t == sender.task
           s == sender.queue
           n == Len(chan[s])
<1>1. /\ t \in Task /\ s \in Task /\ n \in Nat /\ sender # Idle /\ sender' = Idle /\ s \notin closed
      /\ chan' = [chan EXCEPT ![s] = Append(chan[s], t)]
      /\ wpc' = wpc /\ wtask' = wtask /\ closed' = closed /\ stopped' = stopped /\ status' = status /\ seq' = seq
    BY DEF PlaceInv, IndInv, TypeOK, Send
<1>2. /\ \A q \in Task : q # s => chan'[q] = chan[q]
      /\ Len(chan'[s]) = n + 1 /\ chan'[s][n + 1] = t
      /\ \A i \in 1 .. n : chan'[s][i] = chan[s][i]
    BY <1>1 DEF PlaceInv, IndInv, TypeOK
<1> HIDE DEF t, s, n
<1>3. \A q \in Task, i \in Nat : i \in Buffered(q)' =>
          \/ i \in Buffered(q) /\ chan'[q][i] = chan[q][i]
          \/ q = s /\ i = n + 1 /\ chan'[q][i] = t
    <2> SUFFICES ASSUME NEW q \in Task, NEW i \in Nat, i \in Buffered(q)'
                 PROVE  \/ i \in Buffered(q) /\ chan'[q][i] = chan[q][i]
                        \/ q = s /\ i = n + 1 /\ chan'[q][i] = t
        OBVIOUS
    <2>1. CASE q = s
        BY <2>1, <1>1, <1>2 DEF Buffered, n
    <2>2. CASE q # s
        BY <2>2, <1>2 DEF Buffered
    <2> QED
        BY <2>1, <2>2
<1>4. \A q \in Task : /\ Has(q) => wtask[q] # t
                      /\ \A i \in Buffered(q) : chan[q][i] # t
    BY <1>1 DEF PlaceInv, Single, SenderAlone, t
<1>5. \A q \in Task : (Has(q)' <=> Has(q)) /\ Buffered(q)' \subseteq Nat
    BY <1>1 DEF Has, Buffered
<1>6. Single'
    <2>1. SingleHeld'
        BY <1>1, <1>5 DEF PlaceInv, Single, SingleHeld
    <2>2. HeldNotBuffered'
        BY <1>1, <1>3, <1>4, <1>5 DEF PlaceInv, Single, HeldNotBuffered
    <2>3. BufferedOnce'
        BY <1>3, <1>4, <1>5 DEF PlaceInv, Single, BufferedOnce
    <2>4. SenderAlone'
        BY <1>1 DEF SenderAlone
    <2>5. Known'
        BY <1>1, <1>3, <1>5 DEF PlaceInv, Single, Known, t
    <2> QED
        BY <2>1, <2>2, <2>3, <2>4, <2>5 DEF Single
<1>7. Somewhere'
    <2> SUFFICES ASSUME ~stopped, NEW u \in Task, status[u] = "pending"
                 PROVE  \E q \in Task : WithWorker(u, q)' \/ InChannel(u, q)'
        BY <1>1 DEF Somewhere
    <2>1. CASE u = t
        <3>1. wpc'[s] # "exit"
            BY <1>1 DEF PlaceInv, Left
        <3>2. n + 1 \in 1 .. Len(chan'[s])
            BY <1>1, <1>2
        <3> QED
            BY <2>1, <3>1, <3>2, <1>1, <1>2 DEF InChannel
    <2>2. CASE u # t
        <3>1. PICK q \in Task : WithWorker(u, q) \/ InChannel(u, q)
            BY <2>2, <1>1 DEF PlaceInv, Somewhere, WithSender, t
        <3>2. CASE WithWorker(u, q)
            BY <3>2, <1>1 DEF WithWorker
        <3>3. CASE InChannel(u, q)
            <4>1. PICK i \in 1 .. Len(chan[q]) : chan[q][i] = u
                BY <3>3 DEF InChannel
            <4>2. i \in 1 .. Len(chan'[q]) /\ chan'[q][i] = u
                <5>1. CASE q = s
                    BY <5>1, <4>1, <1>1, <1>2 DEF n
                <5>2. CASE q # s
                    BY <5>2, <4>1, <1>2
                <5> QED
                    BY <5>1, <5>2
            <4> QED
                BY <3>3, <4>2, <1>1 DEF InChannel
        <3> QED
            BY <3>1, <3>2, <3>3
    <2> QED
        BY <2>1, <2>2
<1>8. Left'
    BY <1>1 DEF PlaceInv, Left
<1> QED
    BY <1>6, <1>7, <1>8

--------------------------------------------------------------------------------
(***************************************************************************)
(* The workers.                                                            *)
(***************************************************************************)

\* A step in which workers take nothing from a channel and no task from another.
LEMMA SingleKept ==
    ASSUME Single, UNCHANGED <<chan, sender, seq>>,
           \A q \in Task : Has(q)' => Has(q) /\ wtask'[q] = wtask[q]
    PROVE  Single'
<1>1. \A q \in Task : Buffered(q)' = Buffered(q)
    BY DEF Buffered
<1>2. SingleHeld' /\ HeldNotBuffered' /\ BufferedOnce'
    BY <1>1 DEF Single, SingleHeld, HeldNotBuffered, BufferedOnce
<1>3. SenderAlone' /\ Known'
    BY <1>1 DEF Single, SenderAlone, Known
<1> QED
    BY <1>2, <1>3 DEF Single

\* A step that makes no task pending and takes a pending one from no place.
LEMMA SomewhereKept ==
    ASSUME Somewhere, sender' = sender, ~stopped' => ~stopped,
           \A t \in Task : status'[t] = "pending" => status[t] = "pending",
           ~stopped' => \A t, q \in Task :
               status'[t] = "pending" /\ (WithWorker(t, q) \/ InChannel(t, q))
                   => WithWorker(t, q)' \/ InChannel(t, q)'
    PROVE  Somewhere'
<1> SUFFICES ASSUME ~stopped', NEW t \in Task, status'[t] = "pending"
             PROVE  \/ WithSender(t)'
                    \/ \E q \in Task : WithWorker(t, q)' \/ InChannel(t, q)'
    BY DEF Somewhere
<1>1. CASE WithSender(t)
    BY <1>1 DEF WithSender
<1>2. CASE \E q \in Task : WithWorker(t, q) \/ InChannel(t, q)
    BY <1>2
<1> QED
    BY <1>1, <1>2 DEF Somewhere

\* The head of a channel moves to the worker, which held nothing.
LEMMA PlaceReceive ==
    ASSUME PlaceInv, NEW q \in Task, Receive(q)
    PROVE  Single' /\ Somewhere' /\ Left'
<1> DEFINE h == chan[q][1]
           n == Len(chan[q])
<1>1. /\ n \in Nat /\ n >= 1
      /\ Len(chan'[q]) = n - 1
      /\ \A i \in 1 .. n - 1 : chan'[q][i] = chan[q][i + 1]
      /\ \A r \in Task : r # q => chan'[r] = chan[r]
    BY DEF PlaceInv, IndInv, TypeOK, Receive
<1>2. /\ wpc[q] = "recv" /\ wpc'[q] = "acquire" /\ wtask'[q] = h
      /\ \A r \in Task : r # q => wpc'[r] = wpc[r] /\ wtask'[r] = wtask[r]
      /\ UNCHANGED <<seq, status, closed, sender, stopped>>
    BY DEF PlaceInv, IndInv, TypeOK, Receive
<1>3. 1 \in Buffered(q)
    BY <1>1 DEF Buffered
<1> HIDE DEF h
<1>4. \A r \in Task : Has(r)' => \/ r # q /\ Has(r) /\ wtask'[r] = wtask[r]
                                 \/ r = q /\ wtask'[r] = h
    BY <1>2 DEF Has
<1> DEFINE Old(r, i) == IF r = q THEN i + 1 ELSE i
<1>5. \A r \in Task : \A i \in Buffered(r)' :
          /\ i \in Nat /\ Old(r, i) \in Buffered(r)
          /\ chan'[r][i] = chan[r][Old(r, i)]
          /\ r = q => Old(r, i) # 1
    <2> SUFFICES ASSUME NEW r \in Task, NEW i \in Buffered(r)'
                 PROVE  /\ i \in Nat /\ Old(r, i) \in Buffered(r)
                        /\ chan'[r][i] = chan[r][Old(r, i)]
                        /\ r = q => Old(r, i) # 1
        OBVIOUS
    <2>1. CASE r = q
        BY <2>1, <1>1 DEF Buffered
    <2>2. CASE r # q
        BY <2>2, <1>1 DEF Buffered
    <2> QED
        BY <2>1, <2>2
<1>6. \A r \in Task : \A i \in Buffered(r) : chan[r][i] = h => r = q /\ i = 1
    BY <1>3 DEF PlaceInv, Single, BufferedOnce, h
<1>7. \A r \in Task : Has(r) => wtask[r] # h
    BY <1>3 DEF PlaceInv, Single, HeldNotBuffered, h
<1>8. Single'
    <2>1. SingleHeld'
        BY <1>4, <1>7 DEF PlaceInv, Single, SingleHeld
    <2>2. HeldNotBuffered'
        <3> SUFFICES ASSUME NEW a \in Task, NEW r \in Task, Has(a)', NEW i \in Buffered(r)'
                     PROVE  chan'[r][i] # wtask'[a]
            BY DEF HeldNotBuffered
        <3>1. CASE a = q
            BY <3>1, <1>2, <1>5, <1>6
        <3>2. CASE a # q
            BY <3>2, <1>4, <1>5 DEF PlaceInv, Single, HeldNotBuffered
        <3> QED
            BY <3>1, <3>2
    <2>3. BufferedOnce'
        <3> SUFFICES ASSUME NEW a \in Task, NEW r \in Task,
                            NEW i \in Buffered(a)', NEW j \in Buffered(r)',
                            chan'[a][i] = chan'[r][j]
                     PROVE  a = r /\ i = j
            BY DEF BufferedOnce
        <3>1. a = r /\ Old(a, i) = Old(r, j)
            BY <1>5 DEF PlaceInv, Single, BufferedOnce
        <3> QED
            BY <3>1, <1>5
    <2>4. SenderAlone'
        <3> SUFFICES ASSUME sender # Idle, NEW r \in Task
                     PROVE  /\ Has(r)' => wtask'[r] # sender.task
                            /\ \A i \in Buffered(r)' : chan'[r][i] # sender.task
            BY <1>2 DEF SenderAlone
        <3>1. h # sender.task
            BY <1>3 DEF PlaceInv, Single, SenderAlone, h
        <3>2. Has(r)' => wtask'[r] # sender.task
            BY <3>1, <1>4 DEF PlaceInv, Single, SenderAlone
        <3>3. \A i \in Buffered(r)' : chan'[r][i] # sender.task
            BY <1>5 DEF PlaceInv, Single, SenderAlone
        <3> QED
            BY <3>2, <3>3
    <2>5. Known'
        <3>1. h <= seq
            BY <1>3 DEF PlaceInv, Single, Known, h
        <3>2. \A r \in Task : Has(r)' => wtask'[r] <= seq
            BY <3>1, <1>4 DEF PlaceInv, Single, Known
        <3>3. \A r \in Task : \A i \in Buffered(r)' : chan'[r][i] <= seq
            BY <1>5 DEF PlaceInv, Single, Known
        <3> QED
            BY <3>2, <3>3, <1>2 DEF PlaceInv, Single, Known
    <2> QED
        BY <2>1, <2>2, <2>3, <2>4, <2>5 DEF Single
<1>9. Somewhere'
    <2>1. ASSUME NEW t \in Task, NEW r \in Task, WithWorker(t, r) \/ InChannel(t, r)
          PROVE  WithWorker(t, r)' \/ InChannel(t, r)'
        <3>1. CASE r # q
            BY <3>1, <2>1, <1>1, <1>2 DEF WithWorker, InChannel
        <3>2. CASE r = q
            <4>1. PICK i \in 1 .. n : chan[q][i] = t
                BY <2>1, <3>2, <1>2 DEF WithWorker, InChannel
            <4>2. CASE i = 1
                BY <4>1, <4>2, <3>2, <1>2 DEF WithWorker, h
            <4>3. CASE i # 1
                <5>1. i - 1 \in 1 .. Len(chan'[q]) /\ chan'[q][i - 1] = t
                    BY <4>1, <4>3, <1>1
                <5> QED
                    BY <5>1, <3>2, <1>2 DEF InChannel
            <4> QED
                BY <4>2, <4>3
        <3> QED
            BY <3>1, <3>2
    <2> QED
        BY <2>1, <1>2, SomewhereKept DEF PlaceInv
<1>10. Left'
    <2>1. \A r \in Task : wpc'[r] = "exit" => wpc[r] = "exit"
        BY <1>2
    <2> QED
        BY <2>1, <1>2 DEF PlaceInv, Left
<1> QED
    BY <1>8, <1>9, <1>10

\* A worker leaves only when stopped, or when its channel is closed and empty.
LEMMA PlaceExit ==
    ASSUME PlaceInv, NEW q \in Task, Exit(q)
    PROVE  Single' /\ Somewhere' /\ Left'
<1>1. /\ wpc[q] = "recv" /\ wpc'[q] = "exit"
      /\ \A r \in Task : r # q => wpc'[r] = wpc[r]
      /\ UNCHANGED <<seq, chan, wtask, status, closed, sender, stopped>>
      /\ ~stopped => q \in closed /\ Len(chan[q]) = 0
    BY DEF PlaceInv, IndInv, TypeOK, Exit
<1>2. \A r \in Task : Has(r)' => Has(r) /\ wtask'[r] = wtask[r]
    BY <1>1 DEF Has, HoldsTask
<1>3. Single'
    BY <1>1, <1>2, SingleKept DEF PlaceInv
<1>4. Somewhere'
    <2>1. ~stopped => \A t, r \in Task :
              WithWorker(t, r) \/ InChannel(t, r) => WithWorker(t, r)' \/ InChannel(t, r)'
        BY <1>1 DEF WithWorker, InChannel
    <2> QED
        BY <1>1, <2>1, SomewhereKept DEF PlaceInv
<1>5. Left'
    BY <1>1 DEF PlaceInv, Left
<1> QED
    BY <1>3, <1>4, <1>5

\* The other steps of a worker move no pending task, unless the queue is stopped.
LEMMA PlaceWorker ==
    ASSUME PlaceInv, NEW q \in Task, WorkerStep(q)
    PROVE  Single' /\ Somewhere' /\ Left'
<1>1. CASE Receive(q)
    BY <1>1, PlaceReceive
<1>2. CASE Exit(q)
    BY <1>2, PlaceExit
<1>3. CASE \/ AcquireSlot(q) \/ AbandonTask(q) \/ MarkRunning(q)
           \/ HandlerReturns(q) \/ ReleaseSlot(q) \/ Touch(q)
    <2>1. /\ UNCHANGED <<seq, chan, closed, sender, stopped>>
          /\ wpc[q] # "exit" /\ wpc'[q] # "exit"
          /\ \A r \in Task : r # q => wpc'[r] = wpc[r] /\ wtask'[r] = wtask[r]
        BY <1>3 DEF PlaceInv, IndInv, TypeOK, AcquireSlot, AbandonTask,
                    MarkRunning, HandlerReturns, ReleaseSlot, Touch
    <2>2. Has(q)' => Has(q) /\ wtask'[q] = wtask[q]
        BY <1>3 DEF PlaceInv, IndInv, TypeOK, AcquireSlot, AbandonTask,
                    MarkRunning, HandlerReturns, ReleaseSlot, Touch, Has, HoldsTask
    <2>3. \A r \in Task : Has(r)' => Has(r) /\ wtask'[r] = wtask[r]
        BY <2>1, <2>2 DEF Has
    <2>4. Single'
        BY <2>1, <2>3, SingleKept DEF PlaceInv
    <2>5. \A t \in Task : status'[t] = "pending" => status[t] = "pending"
        BY <1>3 DEF PlaceInv, IndInv, TypeOK, AcquireSlot, AbandonTask,
                    MarkRunning, HandlerReturns, ReleaseSlot, Touch, Terminal
    <2>6. ASSUME ~stopped, NEW t \in Task, status'[t] = "pending", WithWorker(t, q)
          PROVE  WithWorker(t, q)'
        BY <1>3, <2>6 DEF PlaceInv, IndInv, TypeOK, AcquireSlot, AbandonTask,
                          MarkRunning, HandlerReturns, ReleaseSlot, Touch, WithWorker
    <2>7. \A t, r \in Task : r # q /\ WithWorker(t, r) => WithWorker(t, r)'
        BY <2>1 DEF WithWorker
    <2>8. \A t, r \in Task : InChannel(t, r) => InChannel(t, r)'
        BY <2>1 DEF InChannel
    <2>9. Somewhere'
        BY <2>1, <2>5, <2>6, <2>7, <2>8, SomewhereKept DEF PlaceInv
    <2>10. Left'
        BY <2>1 DEF PlaceInv, Left
    <2> QED
        BY <2>4, <2>9, <2>10
<1> QED
    BY <1>1, <1>2, <1>3 DEF WorkerStep

--------------------------------------------------------------------------------
(***************************************************************************)
(* The theorem.                                                            *)
(***************************************************************************)

\* The sweeper, the pruner, the clock and the shutdown move no task.
LEMMA PlaceOthers ==
    ASSUME PlaceInv, Cleanup \/ Prune \/ Stop \/ Tick \/ SendPanics \/ UNCHANGED vars
    PROVE  Single' /\ Somewhere' /\ Left'
<1>1. /\ UNCHANGED <<seq, chan, wpc, wtask, status, sender>>
      /\ closed \subseteq closed' /\ (~stopped' => ~stopped)
    BY DEF Cleanup, Prune, Stop, Tick, SendPanics, vars
<1>2. Single'
    BY <1>1, SingleKept DEF PlaceInv, Has
<1>3. Somewhere'
    BY <1>1, SomewhereKept DEF PlaceInv, WithWorker, InChannel
<1>4. Left'
    BY <1>1 DEF PlaceInv, Left
<1> QED
    BY <1>2, <1>3, <1>4

LEMMA PlaceStep == PlaceInv /\ [Next]_vars => PlaceInv'
<1> SUFFICES ASSUME PlaceInv, [Next]_vars PROVE PlaceInv'
    OBVIOUS
<1>1. IndInv'
    BY IndInvStep DEF PlaceInv
<1>2. Single' /\ Somewhere' /\ Left'
    BY PlaceSubmit, PlaceSend, PlaceWorker, PlaceOthers DEF Next
<1> QED
    BY <1>1, <1>2 DEF PlaceInv

LEMMA PlacedFromInv == PlaceInv => PendingTaskPlaced
<1> SUFFICES ASSUME PlaceInv, ~stopped, NEW t \in Task, status[t] = "pending"
             PROVE  \/ /\ WithSender(t)
                       /\ \A q \in Task : ~WithWorker(t, q) /\ ~InChannel(t, q)
                    \/ /\ ~WithSender(t)
                       /\ \E q \in Task :
                            /\ WithWorker(t, q) # InChannel(t, q)
                            /\ \A r \in Task \ {q} : ~WithWorker(t, r) /\ ~InChannel(t, r)
    BY DEF PendingTaskPlaced
<1>1. \A q \in Task : /\ WithWorker(t, q) => Has(q) /\ wtask[q] = t
                      /\ InChannel(t, q) => \E i \in Buffered(q) : chan[q][i] = t
    BY DEF WithWorker, InChannel, Has, HoldsTask, Buffered
<1>2. CASE WithSender(t)
    BY <1>1, <1>2 DEF PlaceInv, Single, SenderAlone, WithSender
<1>3. CASE ~WithSender(t)
    <2>1. PICK q \in Task : WithWorker(t, q) \/ InChannel(t, q)
        BY <1>3 DEF PlaceInv, Somewhere
    <2>2. \A r \in Task : ~(WithWorker(t, q) /\ InChannel(t, r)) /\ ~(InChannel(t, q) /\ WithWorker(t, r))
        BY <1>1 DEF PlaceInv, Single, HeldNotBuffered
    <2>3. \A r \in Task : WithWorker(t, q) /\ WithWorker(t, r) => r = q
        BY <1>1 DEF PlaceInv, Single, SingleHeld
    <2>4. \A r \in Task : InChannel(t, q) /\ InChannel(t, r) => r = q
        BY <1>1 DEF PlaceInv, Single, BufferedOnce
    <2>5. WithWorker(t, q) # InChannel(t, q)
        BY <2>1, <2>2 DEF WithWorker, InChannel
    <2>6. \A r \in Task \ {q} : ~WithWorker(t, r) /\ ~InChannel(t, r)
        BY <2>1, <2>2, <2>3, <2>4
    <2> QED
        BY <1>3, <2>5, <2>6
<1> QED
    BY <1>2, <1>3

\* Until the queue is stopped, a task that Submit accepted is with exactly one
\* of the sender, a channel whose worker is alive, and a worker: the sweeper
\* neither loses nor doubles it, even when it closes the queue of a waiting worker.
THEOREM NoTaskLost == Spec => []PendingTaskPlaced
<1>1. Spec => []PlaceInv
    BY PlaceInit, PlaceStep, PTL DEF Spec
<1> QED
    BY <1>1, PlacedFromInv, PTL

--------------------------------------------------------------------------------
(***************************************************************************)
(* Order.                                                                  *)
(***************************************************************************)
\* A slot for every chat, prompt goroutines, and handlers that return before a queue looks idle.
Roomy ==
    /\ Prompt
    /\ RunBound <= IdleTimeout
    /\ IsFiniteSet(Chats) /\ Cardinality(Chats) <= MaxConcurrent

\* A chatQueue that somebody works on or sends to.
InUse(q) == wpc[q] \in Busy \/ chan[q] # <<>> \/ sender.queue = q

\* A queue in the map is open, has a worker, and is named by a task of its chat.
MapSound ==
    \A c \in Chats : queueOf[c] # NoQueue =>
        /\ queueOf[c] \notin closed /\ wpc[queueOf[c]] # "none"
        /\ chatOf[queueOf[c]] = c
        /\ wpc[queueOf[c]] = "exit" => stopped
ClosedBegan == \A q \in closed : wpc[q] # "none"

\* A queue in use is in the map: the sweeper has not taken it.
UsedIsMapped ==
    \A q \in Task : InUse(q) => chatOf[q] \in Chats /\ queueOf[chatOf[q]] = q

\* What is in a queue is of its chat.
OneChat ==
    \A q \in Task :
        /\ Has(q) => chatOf[wtask[q]] = chatOf[q]
        /\ \A i \in Buffered(q) : chatOf[chan[q][i]] = chatOf[q]
        /\ sender.queue = q => chatOf[sender.task] = chatOf[q]

\* Channels hold tasks in the order of submission, after the one the worker has.
Ordered ==
    /\ sender # Idle => sender.task = seq
    /\ \A q \in Task :
        /\ \A i, j \in Buffered(q) : i < j => chan[q][i] < chan[q][j]
        /\ Has(q) => \A i \in Buffered(q) : wtask[q] < chan[q][i]

\* The status of a task says where it is.
StatusFits ==
    /\ \A t \in Task : status[t] = "none" <=> t > seq
    /\ sender # Idle => status[sender.task] = "pending" /\ ~stopped
    /\ \A q \in Task :
        /\ Has(q) => wtask[q] \in Task
        /\ wpc[q] \in {"acquire", "start"} => status[wtask[q]] = "pending"
        /\ wpc[q] = "run" => status[wtask[q]] = "running"
        /\ \A i \in Buffered(q) : status[chan[q][i]] = "pending"

\* How long ago a queue that is in use was touched.
Ages ==
    \A q \in Task :
        /\ wpc[q] \in {"acquire", "start"} => age[q] = 0
        /\ wpc[q] = "recv" /\ (chan[q] # <<>> \/ sender.queue = q) => age[q] = 0
        /\ wpc[q] = "run" => age[q] <= runAge[q]
        /\ wpc[q] \in {"release", "touch"} => age[q] <= RunBound

Serial ==
    /\ MapSound /\ ClosedBegan /\ UsedIsMapped /\ OneChat /\ Ordered /\ StatusFits /\ Ages
    /\ ~panicked

SerialInv == PlaceInv /\ Serial

--------------------------------------------------------------------------------
LEMMA SerialInit == Init => SerialInv
<1> SUFFICES ASSUME Init PROVE SerialInv
    OBVIOUS
<1>1. \A q \in Task : ~Has(q) /\ Buffered(q) = {} /\ ~InUse(q)
    BY DEF Init, Has, HoldsTask, HoldsSlot, Busy, Buffered, InUse, Idle, NoQueue, Task
<1>2. MapSound /\ ClosedBegan /\ UsedIsMapped /\ OneChat
    BY <1>1 DEF Init, MapSound, ClosedBegan, UsedIsMapped, OneChat, InUse
<1>3. Ordered /\ StatusFits /\ Ages
    BY <1>1 DEF Init, Ordered, StatusFits, Ages, Task, InUse
<1> QED
    BY <1>2, <1>3, PlaceInit DEF SerialInv, Serial, Init

\* Queues in use of one chat are one queue.
LEMMA OneQueue ==
    ASSUME SerialInv, NEW q \in Task, NEW r \in Task, InUse(q), InUse(r), chatOf[q] = chatOf[r]
    PROVE  q = r
BY DEF SerialInv, Serial, UsedIsMapped

\* A queue in use was touched recently.
LEMMA UsedIsYoung ==
    ASSUME Roomy, SerialInv, NEW q \in Task, InUse(q), chan[q] = <<>>
    PROVE  age[q] <= IdleTimeout
<1>1. /\ age[q] \in 0 .. IdleTimeout + 1 /\ runAge[q] \in 0 .. RunBound /\ wpc[q] \in WorkerLoc
      /\ IdleTimeout \in Nat /\ RunBound \in Nat
    BY ConstantsAssumption DEF SerialInv, PlaceInv, IndInv, TypeOK
<1>2. CASE wpc[q] \in Busy
    BY <1>1, <1>2 DEF Busy, HoldsTask, HoldsSlot, SerialInv, Serial, Ages, Roomy
<1>3. CASE wpc[q] \notin Busy /\ sender.queue = q
    <2>1. wpc[q] # "none" /\ wpc[q] # "exit"
        <3>1. queueOf[chatOf[q]] = q /\ chatOf[q] \in Chats /\ q # NoQueue
            BY DEF SerialInv, Serial, UsedIsMapped, Task, NoQueue
        <3>2. ~stopped
            BY <1>3 DEF SerialInv, Serial, StatusFits, Idle, Task, NoQueue
        <3> QED
            BY <3>1, <3>2 DEF SerialInv, Serial, MapSound
    <2>2. wpc[q] = "recv"
        BY <1>1, <1>3, <2>1 DEF WorkerLoc, Busy, HoldsTask, HoldsSlot
    <2> QED
        BY <1>1, <1>3, <2>2 DEF SerialInv, Serial, Ages
<1> QED
    BY <1>2, <1>3 DEF InUse

--------------------------------------------------------------------------------
LEMMA SerialSubmit ==
    ASSUME Roomy, SerialInv, NEW c \in Chats, Submit(c)
    PROVE  Serial'
<1> DEFINE t == seq + 1
           q == QueueFor(c, t)
<1>1. /\ t \in Task /\ seq \in Nat /\ wpc[t] = "none" /\ sender = Idle /\ ~stopped /\ Task \subseteq Nat
      /\ UNCHANGED <<chan, closed, wtask, runAge, sem, stopped, panicked>>
      /\ seq' = t /\ sender' = [task |-> t, queue |-> q]
    BY ConstantsAssumption DEF SerialInv, PlaceInv, IndInv, TypeOK, FutureWorkers, Submit, Task
<1>2. \/ q = t /\ queueOf[c] = NoQueue
      \/ q = queueOf[c] /\ q # NoQueue /\ q # t /\ wpc[q] # "none" /\ wpc[q] # "exit" /\ q \notin closed
         /\ chatOf[q] = c
    BY <1>1 DEF QueueFor, SerialInv, Serial, MapSound
<1>3. q \in Task
    BY <1>1, <1>2 DEF SerialInv, PlaceInv, IndInv, TypeOK
<1>4. /\ chatOf'[t] = c /\ status'[t] = "pending"
      /\ \A u \in Task : u # t => chatOf'[u] = chatOf[u] /\ status'[u] = status[u]
      /\ \A d \in Chats : queueOf'[d] = IF d = c THEN q ELSE queueOf[d]
      /\ age'[q] = 0 /\ \A r \in Task : r # q => age'[r] = age[r]
      /\ wpc' = IF q = t THEN [wpc EXCEPT ![t] = "recv"] ELSE wpc
    BY <1>1, <1>3 DEF Submit, SerialInv, PlaceInv, IndInv, TypeOK
<1>5. /\ \A r \in Task : r # q => wpc'[r] = wpc[r]
      /\ wpc'[q] \notin {"none", "exit"}
      /\ wpc'[q] = IF q = t THEN "recv" ELSE wpc[q]
    BY <1>1, <1>2, <1>3, <1>4 DEF SerialInv, PlaceInv, IndInv, TypeOK
<1>6. chatOf'[q] = c
    BY <1>2, <1>3, <1>4
<1> HIDE DEF q
<1>7. \A r \in Task : InUse(r) => r # t
    BY <1>1 DEF SerialInv, Serial, MapSound, UsedIsMapped, NoQueue, Task
<1>8. \A r \in Task : /\ Has(r) => wtask[r] \in Task /\ wtask[r] # t
                      /\ \A i \in Buffered(r) : chan[r][i] \in Task /\ chan[r][i] # t
                                                /\ chan[r][i] < t
    <2> SUFFICES ASSUME NEW r \in Task
                 PROVE  /\ Has(r) => wtask[r] \in Task /\ wtask[r] # t
                        /\ \A i \in Buffered(r) : chan[r][i] \in Task /\ chan[r][i] # t
                                                  /\ chan[r][i] < t
        OBVIOUS
    <2>1. chan[r] \in Seq(Task)
        BY DEF SerialInv, PlaceInv, IndInv, TypeOK
    <2>2. \A i \in Buffered(r) : chan[r][i] \in Task /\ chan[r][i] <= seq
        BY <2>1 DEF SerialInv, PlaceInv, Single, Known, Buffered
    <2>3. Has(r) => wtask[r] \in Task /\ wtask[r] <= seq
        BY DEF SerialInv, PlaceInv, Serial, StatusFits, Single, Known
    <2> QED
        BY <1>1, <2>2, <2>3
<1> HIDE DEF t
<1>9. \A r \in Task : (Has(r)' <=> Has(r)) /\ Buffered(r)' = Buffered(r)
    <2>1. wpc'[q] = wpc[q] \/ (wpc'[q] = "recv" /\ wpc[q] = "none")
        BY <1>1, <1>5
    <2> QED
        BY <1>1, <1>5, <2>1 DEF Has, HoldsTask, Buffered
<1>10. MapSound'
    <2> SUFFICES ASSUME NEW d \in Chats, queueOf'[d] # NoQueue
                 PROVE  /\ queueOf'[d] \notin closed' /\ wpc'[queueOf'[d]] # "none"
                        /\ chatOf'[queueOf'[d]] = d
                        /\ wpc'[queueOf'[d]] = "exit" => stopped'
        BY DEF MapSound
    <2>1. CASE d = c
        <3>1. q \notin closed
            BY <1>1, <1>2, <1>3 DEF SerialInv, Serial, ClosedBegan
        <3> QED
            BY <2>1, <3>1, <1>1, <1>4, <1>5, <1>6
    <2>2. CASE d # c
        <3> DEFINE r == queueOf[d]
        <3>1. /\ queueOf'[d] = r /\ r # NoQueue /\ r \in Task /\ r \notin closed
              /\ wpc[r] # "none" /\ chatOf[r] = d
              /\ wpc[r] = "exit" => stopped
            BY <2>2, <1>4 DEF SerialInv, Serial, MapSound, PlaceInv, IndInv, TypeOK
        <3>2. r # t /\ r # q
            BY <2>2, <3>1, <1>1, <1>2
        <3> HIDE DEF r
        <3> QED
            BY <3>1, <3>2, <1>1, <1>4, <1>5
    <2> QED
        BY <2>1, <2>2
<1>11. ClosedBegan'
    BY <1>1, <1>4, <1>5 DEF SerialInv, Serial, ClosedBegan, PlaceInv, IndInv, TypeOK
<1>12. UsedIsMapped'
    <2> SUFFICES ASSUME NEW r \in Task, InUse(r)'
                 PROVE  chatOf'[r] \in Chats /\ queueOf'[chatOf'[r]] = r
        BY DEF UsedIsMapped
    <2>1. CASE r = q
        BY <2>1, <1>4, <1>6
    <2>2. CASE r # q
        <3>1. InUse(r)
            BY <2>2, <1>1, <1>5 DEF InUse
        <3>2. r # t /\ chatOf[r] \in Chats /\ queueOf[chatOf[r]] = r /\ r # NoQueue
            BY <3>1, <1>7 DEF SerialInv, Serial, UsedIsMapped, Task, NoQueue
        <3> QED
            BY <2>2, <3>2, <1>2, <1>4
    <2> QED
        BY <2>1, <2>2
<1>13. OneChat'
    <2> SUFFICES ASSUME NEW r \in Task
                 PROVE  /\ Has(r)' => chatOf'[wtask'[r]] = chatOf'[r]
                        /\ \A i \in Buffered(r)' : chatOf'[chan'[r][i]] = chatOf'[r]
                        /\ sender'.queue = r => chatOf'[sender'.task] = chatOf'[r]
        BY DEF OneChat
    <2>1. Has(r) \/ Buffered(r) # {} => r # t
        BY <1>7 DEF InUse, Busy, Has, Buffered
    <2>2. Has(r)' => chatOf'[wtask'[r]] = chatOf'[r]
        <3> SUFFICES ASSUME Has(r) PROVE chatOf'[wtask'[r]] = chatOf'[r]
            BY <1>9
        <3>1. wtask'[r] = wtask[r] /\ wtask[r] \in Task /\ wtask[r] # t
            BY <1>1, <1>8
        <3>2. chatOf[wtask[r]] = chatOf[r]
            BY DEF SerialInv, Serial, OneChat
        <3> QED
            BY <1>4, <2>1, <3>1, <3>2
    <2>3. \A i \in Buffered(r)' : chatOf'[chan'[r][i]] = chatOf'[r]
        <3> SUFFICES ASSUME NEW i \in Buffered(r) PROVE chatOf'[chan'[r][i]] = chatOf'[r]
            BY <1>9
        <3>1. chan'[r][i] = chan[r][i] /\ chan[r][i] \in Task /\ chan[r][i] # t
            BY <1>1, <1>8
        <3>2. chatOf[chan[r][i]] = chatOf[r]
            BY DEF SerialInv, Serial, OneChat
        <3> QED
            BY <1>4, <2>1, <3>1, <3>2
    <2>4. sender'.queue = r => chatOf'[sender'.task] = chatOf'[r]
        BY <1>1, <1>4, <1>6
    <2> QED
        BY <2>2, <2>3, <2>4
<1>14. Ordered'
    BY <1>1, <1>9 DEF SerialInv, Serial, Ordered
<1>15. StatusFits'
    <2>1. \A u \in Task : status'[u] = "none" <=> u > seq'
        <3>1. \A u \in Task : status[u] = "none" <=> u > seq
            BY DEF SerialInv, Serial, StatusFits
        <3>2. seq' = t /\ t = seq + 1 /\ seq \in Nat /\ Task \subseteq Nat
            BY <1>1 DEF t
        <3> QED
            BY <3>1, <3>2, <1>4
    <2>2. sender' # Idle => status'[sender'.task] = "pending" /\ ~stopped'
        BY <1>1, <1>4
    <2> SUFFICES ASSUME NEW r \in Task
                 PROVE  /\ Has(r)' => wtask'[r] \in Task
                        /\ wpc'[r] \in {"acquire", "start"} => status'[wtask'[r]] = "pending"
                        /\ wpc'[r] = "run" => status'[wtask'[r]] = "running"
                        /\ \A i \in Buffered(r)' : status'[chan'[r][i]] = "pending"
        BY <2>1, <2>2 DEF StatusFits
    <2>3. wpc'[r] \in {"acquire", "start", "run"} => wpc'[r] = wpc[r] /\ Has(r)
        BY <1>1, <1>5 DEF Has, HoldsTask
    <2> QED
        <3>1. Has(r)' => wtask'[r] \in Task
            BY <1>1, <1>8, <1>9
        <3>2. wpc'[r] \in {"acquire", "start"} => status'[wtask'[r]] = "pending"
            <4> SUFFICES ASSUME wpc'[r] \in {"acquire", "start"} PROVE status'[wtask'[r]] = "pending"
                OBVIOUS
            <4>1. wtask'[r] = wtask[r] /\ wtask[r] \in Task /\ wtask[r] # t
                BY <1>1, <1>8, <2>3
            <4>2. status[wtask[r]] = "pending"
                BY <2>3 DEF SerialInv, Serial, StatusFits
            <4> QED
                BY <1>4, <4>1, <4>2
        <3>3. wpc'[r] = "run" => status'[wtask'[r]] = "running"
            <4> SUFFICES ASSUME wpc'[r] = "run" PROVE status'[wtask'[r]] = "running"
                OBVIOUS
            <4>1. wtask'[r] = wtask[r] /\ wtask[r] \in Task /\ wtask[r] # t
                BY <1>1, <1>8, <2>3
            <4>2. status[wtask[r]] = "running"
                BY <2>3 DEF SerialInv, Serial, StatusFits
            <4> QED
                BY <1>4, <4>1, <4>2
        <3>4. \A i \in Buffered(r)' : status'[chan'[r][i]] = "pending"
            <4> SUFFICES ASSUME NEW i \in Buffered(r) PROVE status'[chan'[r][i]] = "pending"
                BY <1>9
            <4>1. chan'[r][i] = chan[r][i] /\ chan[r][i] \in Task /\ chan[r][i] # t
                BY <1>1, <1>8
            <4>2. status[chan[r][i]] = "pending"
                BY DEF SerialInv, Serial, StatusFits
            <4> QED
                BY <1>4, <4>1, <4>2
        <3> QED
            BY <3>1, <3>2, <3>3, <3>4
<1>16. Ages'
    <2> SUFFICES ASSUME NEW r \in Task
                 PROVE  /\ wpc'[r] \in {"acquire", "start"} => age'[r] = 0
                        /\ wpc'[r] = "recv" /\ (chan'[r] # <<>> \/ sender'.queue = r) => age'[r] = 0
                        /\ wpc'[r] = "run" => age'[r] <= runAge'[r]
                        /\ wpc'[r] \in {"release", "touch"} => age'[r] <= RunBound
        BY DEF Ages
    <2>1. CASE r = q
        <3>1. runAge[r] >= 0 /\ RunBound >= 0
            BY ConstantsAssumption DEF SerialInv, PlaceInv, IndInv, TypeOK
        <3> QED
            BY <3>1, <2>1, <1>1, <1>4
    <2>2. CASE r # q
        BY <2>2, <1>1, <1>4, <1>5 DEF SerialInv, Serial, Ages
    <2> QED
        BY <2>1, <2>2
<1> QED
    BY <1>1, <1>10, <1>11, <1>12, <1>13, <1>14, <1>15, <1>16 DEF SerialInv, Serial

--------------------------------------------------------------------------------
LEMMA SerialSend ==
    ASSUME SerialInv, Send
    PROVE  Serial'
<1> DEFINE t == sender.task
           s == sender.queue
           n == Len(chan[s])
<1>1. /\ t \in Task /\ s \in Task /\ n \in Nat /\ sender # Idle /\ sender' = Idle /\ Idle.queue \notin Task
      /\ UNCHANGED <<seq, chatOf, status, queueOf, closed, age, wpc, wtask, runAge, stopped, panicked>>
    BY DEF SerialInv, PlaceInv, IndInv, TypeOK, Send, Idle, Task, NoQueue
<1>2. /\ \A q \in Task : q # s => chan'[q] = chan[q]
      /\ Len(chan'[s]) = n + 1 /\ chan'[s][n + 1] = t
      /\ \A i \in 1 .. n : chan'[s][i] = chan[s][i]
    BY <1>1 DEF SerialInv, PlaceInv, IndInv, TypeOK, Send
<1>3. /\ t = seq /\ seq \in Nat /\ Task \subseteq Nat
      /\ status[t] = "pending" /\ chatOf[t] = chatOf[s]
      /\ \A q \in Task : /\ Has(q) => wtask[q] # t
                         /\ \A i \in Buffered(q) : chan[q][i] # t
    BY <1>1 DEF SerialInv, Serial, Ordered, StatusFits, OneChat, PlaceInv, Single, SenderAlone,
                IndInv, TypeOK, Task
<1>4. InUse(s)
    BY DEF InUse
<1> HIDE DEF t, s, n
<1>5. \A q \in Task : \A i \in Buffered(q)' :
          \/ i \in Buffered(q) /\ chan'[q][i] = chan[q][i]
          \/ q = s /\ i = n + 1 /\ chan'[q][i] = t
    <2> SUFFICES ASSUME NEW q \in Task, NEW i \in Buffered(q)'
                 PROVE  \/ i \in Buffered(q) /\ chan'[q][i] = chan[q][i]
                        \/ q = s /\ i = n + 1 /\ chan'[q][i] = t
        OBVIOUS
    <2>1. CASE q = s
        BY <2>1, <1>1, <1>2 DEF Buffered, n
    <2>2. CASE q # s
        BY <2>2, <1>2 DEF Buffered
    <2> QED
        BY <2>1, <2>2
<1>6. \A q \in Task : Buffered(q) \subseteq Nat /\ \A i \in Buffered(q) : chan[q][i] \in Task /\ chan[q][i] < t
    <2> SUFFICES ASSUME NEW q \in Task, NEW i \in Buffered(q)
                 PROVE  i \in Nat /\ chan[q][i] \in Task /\ chan[q][i] < t
        OBVIOUS
    <2>1. chan[q] \in Seq(Task) /\ i \in Nat
        BY DEF SerialInv, PlaceInv, IndInv, TypeOK, Buffered
    <2>2. chan[q][i] \in Task
        BY <2>1 DEF Buffered
    <2>3. chan[q][i] <= seq
        BY DEF SerialInv, PlaceInv, Single, Known
    <2>4. chan[q][i] # t /\ chan[q][i] \in Nat /\ t = seq /\ seq \in Nat
        BY <2>2, <1>3
    <2> QED
        BY <2>1, <2>2, <2>3, <2>4
<1>7. \A q \in Task : (Has(q)' <=> Has(q)) /\ wtask'[q] = wtask[q]
    BY <1>1 DEF Has
<1>8. MapSound' /\ ClosedBegan'
    BY <1>1 DEF SerialInv, Serial, MapSound, ClosedBegan
<1>9. \A q \in Task : InUse(q)' => InUse(q)
    BY <1>1, <1>2, <1>4 DEF InUse
<1>10. UsedIsMapped'
    BY <1>1, <1>9 DEF SerialInv, Serial, UsedIsMapped
<1>11. OneChat'
    <2>1. \A q \in Task : \A i \in Buffered(q)' : chatOf[chan'[q][i]] = chatOf[q]
        BY <1>3, <1>5 DEF SerialInv, Serial, OneChat
    <2> QED
        BY <1>1, <1>7, <2>1 DEF SerialInv, Serial, OneChat
<1>12. Ordered'
    <2>1. ASSUME NEW q \in Task, NEW i \in Buffered(q)', NEW j \in Buffered(q)', i < j
          PROVE  chan'[q][i] < chan'[q][j]
        <3>1. CASE j \in Buffered(q) /\ chan'[q][j] = chan[q][j]
            <4>1. i \in Buffered(q) /\ chan'[q][i] = chan[q][i]
                BY <2>1, <3>1, <1>1, <1>5 DEF Buffered, n
            <4> QED
                BY <2>1, <3>1, <4>1 DEF SerialInv, Serial, Ordered
        <3>2. CASE q = s /\ j = n + 1 /\ chan'[q][j] = t
            <4>1. i \in Buffered(q) /\ chan'[q][i] = chan[q][i]
                BY <2>1, <3>2, <1>5
            <4> QED
                BY <3>2, <4>1, <1>6
        <3> QED
            BY <2>1, <3>1, <3>2, <1>5
    <2>2. ASSUME NEW q \in Task, Has(q), NEW i \in Buffered(q)'
          PROVE  wtask[q] < chan'[q][i]
        <3>1. CASE i \in Buffered(q) /\ chan'[q][i] = chan[q][i]
            BY <2>2, <3>1 DEF SerialInv, Serial, Ordered
        <3>2. CASE chan'[q][i] = t
            <4>1. wtask[q] <= seq /\ wtask[q] # t /\ wtask[q] \in Nat
                BY <2>2, <1>3 DEF SerialInv, Serial, StatusFits, PlaceInv, Single, Known
            <4> QED
                BY <3>2, <4>1, <1>3
        <3> QED
            BY <2>2, <3>1, <3>2, <1>5
    <2> QED
        BY <1>1, <1>7, <2>1, <2>2 DEF Ordered
<1>13. StatusFits'
    <2>1. \A q \in Task : \A i \in Buffered(q)' : status[chan'[q][i]] = "pending"
        BY <1>3, <1>5 DEF SerialInv, Serial, StatusFits
    <2> QED
        BY <1>1, <1>7, <2>1 DEF SerialInv, Serial, StatusFits
<1>14. Ages'
    <2>1. \A q \in Task : chan'[q] # <<>> => chan[q] # <<>> \/ q = s
        BY <1>2
    <2>2. \A q \in Task : sender'.queue # q
        BY <1>1
    <2> QED
        BY <1>1, <2>1, <2>2 DEF SerialInv, Serial, Ages, s
<1> QED
    BY <1>1, <1>8, <1>10, <1>11, <1>12, <1>13, <1>14 DEF SerialInv, Serial

LEMMA SerialReceive ==
    ASSUME SerialInv, NEW q \in Task, Receive(q)
    PROVE  Serial'
<1> DEFINE h == chan[q][1]
           n == Len(chan[q])
<1>1. /\ n \in Nat /\ n >= 1
      /\ Len(chan'[q]) = n - 1
      /\ \A i \in 1 .. n - 1 : chan'[q][i] = chan[q][i + 1]
      /\ \A r \in Task : r # q => chan'[r] = chan[r]
    BY DEF SerialInv, PlaceInv, IndInv, TypeOK, Receive
<1>2. /\ wpc[q] = "recv" /\ wpc'[q] = "acquire" /\ wtask'[q] = h
      /\ \A r \in Task : r # q => wpc'[r] = wpc[r] /\ wtask'[r] = wtask[r]
      /\ UNCHANGED <<seq, chatOf, status, queueOf, closed, age, runAge, sender, stopped, panicked>>
      /\ chan[q] # <<>>
    BY DEF SerialInv, PlaceInv, IndInv, TypeOK, Receive
<1>3. 1 \in Buffered(q)
    BY <1>1 DEF Buffered
<1>4. h \in Task /\ chatOf[h] = chatOf[q] /\ status[h] = "pending" /\ age[q] = 0
    <2>1. chan[q] \in Seq(Task)
        BY DEF SerialInv, PlaceInv, IndInv, TypeOK
    <2> QED
        BY <2>1, <1>2, <1>3 DEF SerialInv, Serial, OneChat, StatusFits, Ages, Buffered
<1> HIDE DEF h
<1> DEFINE Old(r, i) == IF r = q THEN i + 1 ELSE i
<1>5. \A r \in Task : \A i \in Buffered(r)' :
          /\ i \in Nat /\ Old(r, i) \in Buffered(r)
          /\ chan'[r][i] = chan[r][Old(r, i)]
    <2> SUFFICES ASSUME NEW r \in Task, NEW i \in Buffered(r)'
                 PROVE  /\ i \in Nat /\ Old(r, i) \in Buffered(r)
                        /\ chan'[r][i] = chan[r][Old(r, i)]
        OBVIOUS
    <2>1. CASE r = q
        BY <2>1, <1>1 DEF Buffered
    <2>2. CASE r # q
        BY <2>2, <1>1 DEF Buffered
    <2> QED
        BY <2>1, <2>2
<1>6. \A r \in Task : Has(r)' => \/ r # q /\ Has(r) /\ wtask'[r] = wtask[r]
                                 \/ r = q /\ wtask'[r] = h
    BY <1>2 DEF Has
<1>7. MapSound' /\ ClosedBegan'
    BY <1>2 DEF SerialInv, Serial, MapSound, ClosedBegan, PlaceInv, IndInv, TypeOK
<1>8. UsedIsMapped'
    <2>1. \A r \in Task : InUse(r)' => InUse(r)
        BY <1>1, <1>2 DEF InUse
    <2> QED
        BY <1>2, <2>1 DEF SerialInv, Serial, UsedIsMapped
<1>9. OneChat'
    <2>1. \A r \in Task : \A i \in Buffered(r)' : chatOf[chan'[r][i]] = chatOf[r]
        BY <1>5 DEF SerialInv, Serial, OneChat
    <2>2. \A r \in Task : Has(r)' => chatOf[wtask'[r]] = chatOf[r]
        BY <1>4, <1>6 DEF SerialInv, Serial, OneChat
    <2> QED
        BY <1>2, <2>1, <2>2 DEF SerialInv, Serial, OneChat
<1>10. Ordered'
    <2>1. ASSUME NEW r \in Task, NEW i \in Buffered(r)', NEW j \in Buffered(r)', i < j
          PROVE  chan'[r][i] < chan'[r][j]
        <3>1. Old(r, i) < Old(r, j)
            BY <2>1, <1>5
        <3> HIDE DEF Old
        <3> QED
            BY <2>1, <3>1, <1>5 DEF SerialInv, Serial, Ordered
    <2>2. ASSUME NEW r \in Task, Has(r)', NEW i \in Buffered(r)'
          PROVE  wtask'[r] < chan'[r][i]
        <3>1. CASE r # q
            <4>1. Has(r) /\ wtask'[r] = wtask[r] /\ i \in Buffered(r) /\ chan'[r][i] = chan[r][i]
                BY <2>2, <3>1, <1>5, <1>6
            <4> QED
                BY <4>1 DEF SerialInv, Serial, Ordered
        <3>2. CASE r = q
            <4>1. /\ wtask'[q] = h /\ i + 1 \in Buffered(q) /\ chan'[q][i] = chan[q][i + 1] /\ 1 < i + 1
                BY <2>2, <3>2, <1>2, <1>5 DEF Buffered
            <4> QED
                BY <3>2, <4>1, <1>3 DEF SerialInv, Serial, Ordered, h
        <3> QED
            BY <3>1, <3>2
    <2> QED
        BY <1>2, <2>1, <2>2 DEF SerialInv, Serial, Ordered
<1>11. StatusFits'
    <2>1. \A r \in Task : \A i \in Buffered(r)' : status[chan'[r][i]] = "pending"
        BY <1>5 DEF SerialInv, Serial, StatusFits
    <2>2. \A r \in Task : Has(r)' => wtask'[r] \in Task
        BY <1>4, <1>6 DEF SerialInv, Serial, StatusFits
    <2>3. \A r \in Task : /\ wpc'[r] \in {"acquire", "start"} => status[wtask'[r]] = "pending"
                          /\ wpc'[r] = "run" => status[wtask'[r]] = "running"
        BY <1>2, <1>4 DEF SerialInv, Serial, StatusFits
    <2> QED
        BY <1>2, <2>1, <2>2, <2>3 DEF SerialInv, Serial, StatusFits
<1>12. Ages'
    <2>1. \A r \in Task : chan'[r] # <<>> => chan[r] # <<>>
        BY <1>1, <1>2
    <2> QED
        BY <1>2, <1>4, <2>1 DEF SerialInv, Serial, Ages
<1> QED
    BY <1>2, <1>7, <1>8, <1>9, <1>10, <1>11, <1>12 DEF SerialInv, Serial

--------------------------------------------------------------------------------
(***************************************************************************)
(* The other steps of a worker leave the queues, the channels and the      *)
(* sender alone.                                                           *)
(***************************************************************************)
LEMMA WorkerFrame ==
    ASSUME SerialInv, NEW q \in Task,
           \/ Exit(q) \/ AcquireSlot(q) \/ AbandonTask(q) \/ MarkRunning(q)
           \/ HandlerReturns(q) \/ ReleaseSlot(q) \/ Touch(q)
    PROVE  /\ UNCHANGED <<seq, chatOf, queueOf, chan, closed, sender, stopped, panicked>>
           /\ wpc[q] \notin {"none", "exit"} /\ wpc'[q] # "none"
           /\ wpc'[q] = "exit" => stopped \/ q \in closed
           /\ wpc'[q] \in Busy => wpc[q] \in Busy
           /\ Has(q)' => Has(q) /\ wtask'[q] = wtask[q]
           /\ \A r \in Task : r # q => wpc'[r] = wpc[r] /\ wtask'[r] = wtask[r]
                                       /\ age'[r] = age[r] /\ runAge'[r] = runAge[r]
           /\ \/ status' = status
              \/ wpc[q] \in {"start", "run"} /\ \A u \in Task : u # wtask[q] => status'[u] = status[u]
<1>1. TypeOK
    BY DEF SerialInv, PlaceInv, IndInv
<1>2. CASE Exit(q)
    BY <1>1, <1>2 DEF TypeOK, Exit, Has, HoldsTask, Busy, HoldsSlot
<1>3. CASE AcquireSlot(q) \/ AbandonTask(q)
    BY <1>1, <1>3 DEF TypeOK, AcquireSlot, AbandonTask, Has, HoldsTask, Busy, HoldsSlot
<1>4. CASE MarkRunning(q)
    BY <1>1, <1>4 DEF TypeOK, MarkRunning, Has, HoldsTask, Busy, HoldsSlot
<1>5. CASE HandlerReturns(q)
    BY <1>1, <1>5 DEF TypeOK, HandlerReturns, Has, HoldsTask, Busy, HoldsSlot
<1>6. CASE ReleaseSlot(q) \/ Touch(q)
    BY <1>1, <1>6 DEF TypeOK, ReleaseSlot, Touch, Has, HoldsTask, Busy, HoldsSlot
<1> QED
    BY <1>2, <1>3, <1>4, <1>5, <1>6

\* Nobody else knows the task a worker has.
LEMMA HeldAlone ==
    ASSUME SerialInv, NEW q \in Task, Has(q)
    PROVE  /\ wtask[q] \in Task /\ wtask[q] <= seq /\ status[wtask[q]] # "none"
           /\ \A r \in Task : /\ Has(r) /\ r # q => wtask[r] # wtask[q]
                              /\ \A i \in Buffered(r) : chan[r][i] # wtask[q]
           /\ sender # Idle => sender.task # wtask[q]
<1>1. wtask[q] \in Task
    BY DEF SerialInv, Serial, StatusFits
<1>2. wtask[q] <= seq /\ ~(wtask[q] > seq)
    BY <1>1, ConstantsAssumption DEF SerialInv, PlaceInv, Single, Known, IndInv, TypeOK, Task
<1>3. status[wtask[q]] # "none"
    BY <1>1, <1>2 DEF SerialInv, Serial, StatusFits
<1>4. \A r \in Task : Has(r) /\ r # q => wtask[r] # wtask[q]
    BY DEF SerialInv, PlaceInv, Single, SingleHeld
<1>5. \A r \in Task : \A i \in Buffered(r) : chan[r][i] # wtask[q]
    BY DEF SerialInv, PlaceInv, Single, HeldNotBuffered
<1>6. sender # Idle => sender.task # wtask[q]
    BY DEF SerialInv, PlaceInv, Single, SenderAlone
<1> QED
    BY <1>1, <1>2, <1>3, <1>4, <1>5, <1>6

LEMMA StatusWorker ==
    ASSUME SerialInv, NEW q \in Task,
           \/ Exit(q) \/ AcquireSlot(q) \/ AbandonTask(q) \/ MarkRunning(q)
           \/ HandlerReturns(q) \/ ReleaseSlot(q) \/ Touch(q)
    PROVE  StatusFits'
<1>1. /\ UNCHANGED <<seq, chan, sender, stopped>>
      /\ Has(q)' => Has(q) /\ wtask'[q] = wtask[q]
      /\ \A r \in Task : r # q => wpc'[r] = wpc[r] /\ wtask'[r] = wtask[r]
      /\ \/ status' = status
         \/ wpc[q] \in {"start", "run"} /\ \A u \in Task : u # wtask[q] => status'[u] = status[u]
    BY WorkerFrame
<1>2. TypeOK
    BY DEF SerialInv, PlaceInv, IndInv
<1>3. \A u \in Task : u # wtask[q] \/ ~Has(q) => status'[u] = status[u]
    BY <1>1 DEF Has, HoldsTask
<1>4. /\ wpc'[q] \in {"acquire", "start"} => status'[wtask'[q]] = "pending"
      /\ wpc'[q] = "run" => status'[wtask'[q]] = "running"
    <2>1. CASE Exit(q) \/ AbandonTask(q) \/ HandlerReturns(q) \/ ReleaseSlot(q) \/ Touch(q)
        <3>1. wpc'[q] \notin {"acquire", "start", "run"}
            BY <2>1, <1>2 DEF TypeOK, Exit, AbandonTask, HandlerReturns, ReleaseSlot, Touch
        <3> QED
            BY <3>1
    <2>2. CASE AcquireSlot(q)
        BY <2>2, <1>2 DEF TypeOK, AcquireSlot, SerialInv, Serial, StatusFits
    <2>3. CASE MarkRunning(q)
        <3>1. wtask[q] \in Task
            BY <2>3 DEF MarkRunning, SerialInv, Serial, StatusFits, Has, HoldsTask
        <3> QED
            BY <2>3, <3>1, <1>2 DEF TypeOK, MarkRunning
    <2> QED
        BY <2>1, <2>2, <2>3
<1>5. \A u \in Task : status'[u] = "none" <=> u > seq
    <2> SUFFICES ASSUME NEW u \in Task PROVE status'[u] = "none" <=> u > seq
        OBVIOUS
    <2>1. CASE u # wtask[q] \/ ~Has(q)
        BY <2>1, <1>3 DEF SerialInv, Serial, StatusFits
    <2>2. CASE u = wtask[q] /\ Has(q)
        <3>1. ~(u > seq) /\ status[u] # "none"
            BY <2>2, HeldAlone DEF SerialInv, Serial, StatusFits
        <3>2. status'[u] # "none"
            BY <3>1, <1>2 DEF TypeOK, Exit, AcquireSlot, AbandonTask, MarkRunning, HandlerReturns,
                              ReleaseSlot, Touch, Terminal
        <3> QED
            BY <3>1, <3>2
    <2> QED
        BY <2>1, <2>2
<1>6. sender # Idle => status'[sender.task] = "pending" /\ ~stopped
    <2>1. sender # Idle => sender.task \in Task
        BY <1>2 DEF TypeOK
    <2> QED
        BY <2>1, <1>3, HeldAlone DEF SerialInv, Serial, StatusFits
<1>7. ASSUME NEW r \in Task
      PROVE  /\ Has(r)' => wtask'[r] \in Task
             /\ wpc'[r] \in {"acquire", "start"} => status'[wtask'[r]] = "pending"
             /\ wpc'[r] = "run" => status'[wtask'[r]] = "running"
             /\ \A i \in Buffered(r) : status'[chan[r][i]] = "pending"
    <2>1. Has(r)' => Has(r) /\ wtask'[r] = wtask[r] /\ wtask[r] \in Task
        BY <1>1 DEF SerialInv, Serial, StatusFits, Has
    <2>2. \A i \in Buffered(r) : status'[chan[r][i]] = "pending"
        <3> SUFFICES ASSUME NEW i \in Buffered(r) PROVE status'[chan[r][i]] = "pending"
            OBVIOUS
        <3>1. chan[r][i] \in Task /\ status[chan[r][i]] = "pending"
            BY <1>2 DEF TypeOK, Buffered, SerialInv, Serial, StatusFits
        <3>2. chan[r][i] # wtask[q] \/ ~Has(q)
            BY HeldAlone
        <3> QED
            BY <3>1, <3>2, <1>3
    <2>3. CASE r = q
        BY <2>1, <2>2, <2>3, <1>4
    <2>4. CASE r # q
        <3>1. wpc'[r] \in {"acquire", "start", "run"} =>
                  /\ wpc'[r] = wpc[r] /\ wtask'[r] = wtask[r] /\ wtask[r] \in Task
                  /\ status'[wtask[r]] = status[wtask[r]]
            <4>1. wpc'[r] \in {"acquire", "start", "run"} => Has(r) /\ wpc'[r] = wpc[r]
                BY <2>4, <1>1 DEF Has, HoldsTask
            <4>2. Has(r) => wtask[r] # wtask[q] \/ ~Has(q)
                BY <2>4, HeldAlone
            <4> QED
                BY <2>4, <4>1, <4>2, <1>1, <1>3 DEF SerialInv, Serial, StatusFits
        <3> QED
            BY <2>1, <2>2, <3>1 DEF SerialInv, Serial, StatusFits
    <2> QED
        BY <2>3, <2>4
<1> QED
    BY <1>1, <1>5, <1>6, <1>7 DEF StatusFits, Buffered

LEMMA AgesWorker ==
    ASSUME SerialInv, NEW q \in Task,
           \/ Exit(q) \/ AcquireSlot(q) \/ AbandonTask(q) \/ MarkRunning(q)
           \/ HandlerReturns(q) \/ ReleaseSlot(q) \/ Touch(q)
    PROVE  Ages'
<1> SUFFICES ASSUME NEW r \in Task
             PROVE  /\ wpc'[r] \in {"acquire", "start"} => age'[r] = 0
                    /\ wpc'[r] = "recv" /\ (chan'[r] # <<>> \/ sender'.queue = r) => age'[r] = 0
                    /\ wpc'[r] = "run" => age'[r] <= runAge'[r]
                    /\ wpc'[r] \in {"release", "touch"} => age'[r] <= RunBound
    BY DEF Ages
<1>1. /\ TypeOK /\ RunBound \in Nat
      /\ age[q] \in 0 .. IdleTimeout + 1 /\ runAge[q] \in 0 .. RunBound /\ IdleTimeout \in Nat
    BY ConstantsAssumption DEF SerialInv, PlaceInv, IndInv, TypeOK
<1>2. CASE r # q
    BY <1>2, WorkerFrame DEF SerialInv, Serial, Ages
<1>3. CASE r = q
    <2>1. /\ wpc[q] \in {"acquire", "start"} => age[q] = 0
          /\ wpc[q] = "run" => age[q] <= runAge[q]
          /\ wpc[q] \in {"release", "touch"} => age[q] <= RunBound
        BY DEF SerialInv, Serial, Ages
    <2>2. CASE Exit(q)
        BY <1>1, <1>3, <2>2 DEF TypeOK, Exit
    <2>3. CASE AcquireSlot(q)
        BY <1>1, <1>3, <2>1, <2>3 DEF TypeOK, AcquireSlot
    <2>4. CASE AbandonTask(q)
        BY <1>1, <1>3, <2>1, <2>4 DEF TypeOK, AbandonTask
    <2>5. CASE MarkRunning(q)
        BY <1>1, <1>3, <2>1, <2>5 DEF TypeOK, MarkRunning
    <2>6. CASE HandlerReturns(q)
        BY <1>1, <1>3, <2>1, <2>6 DEF TypeOK, HandlerReturns
    <2>7. CASE ReleaseSlot(q)
        BY <1>1, <1>3, <2>1, <2>7 DEF TypeOK, ReleaseSlot
    <2>8. CASE Touch(q)
        BY <1>1, <1>3, <2>8 DEF TypeOK, Touch
    <2> QED
        BY <2>2, <2>3, <2>4, <2>5, <2>6, <2>7, <2>8
<1> QED
    BY <1>2, <1>3

LEMMA SerialWorker ==
    ASSUME SerialInv, NEW q \in Task, WorkerStep(q)
    PROVE  Serial'
<1>1. CASE Receive(q)
    BY <1>1, SerialReceive
<1>2. CASE \/ Exit(q) \/ AcquireSlot(q) \/ AbandonTask(q) \/ MarkRunning(q)
           \/ HandlerReturns(q) \/ ReleaseSlot(q) \/ Touch(q)
    <2>1. /\ UNCHANGED <<seq, chatOf, queueOf, chan, closed, sender, stopped, panicked>>
          /\ wpc[q] \notin {"none", "exit"} /\ wpc'[q] # "none"
          /\ wpc'[q] = "exit" => stopped \/ q \in closed
          /\ wpc'[q] \in Busy => wpc[q] \in Busy
          /\ Has(q)' => Has(q) /\ wtask'[q] = wtask[q]
          /\ \A r \in Task : r # q => wpc'[r] = wpc[r] /\ wtask'[r] = wtask[r]
        BY <1>2, WorkerFrame
    <2>2. \A r \in Task : /\ Has(r)' => Has(r) /\ wtask'[r] = wtask[r]
                          /\ Buffered(r)' = Buffered(r)
        BY <2>1 DEF Has, Buffered
    <2>3. MapSound'
        <3> SUFFICES ASSUME NEW d \in Chats, queueOf[d] # NoQueue
                     PROVE  /\ queueOf[d] \notin closed /\ wpc'[queueOf[d]] # "none"
                            /\ chatOf[queueOf[d]] = d
                            /\ wpc'[queueOf[d]] = "exit" => stopped
            BY <2>1 DEF MapSound
        <3>1. /\ queueOf[d] \in Task
              /\ queueOf[d] \notin closed /\ wpc[queueOf[d]] # "none"
              /\ chatOf[queueOf[d]] = d
              /\ wpc[queueOf[d]] = "exit" => stopped
            BY DEF SerialInv, Serial, MapSound, PlaceInv, IndInv, TypeOK
        <3> QED
            BY <3>1, <2>1
    <2>4. ClosedBegan'
        BY <2>1 DEF SerialInv, Serial, ClosedBegan, PlaceInv, IndInv, TypeOK
    <2>5. UsedIsMapped'
        <3>1. \A r \in Task : InUse(r)' => InUse(r)
            BY <2>1 DEF InUse
        <3> QED
            BY <2>1, <3>1 DEF SerialInv, Serial, UsedIsMapped
    <2>6. OneChat' /\ Ordered'
        BY <2>1, <2>2 DEF SerialInv, Serial, OneChat, Ordered
    <2>7. StatusFits' /\ Ages'
        BY <1>2, StatusWorker, AgesWorker
    <2> QED
        BY <2>1, <2>3, <2>4, <2>5, <2>6, <2>7 DEF SerialInv, Serial
<1> QED
    BY <1>1, <1>2 DEF WorkerStep

--------------------------------------------------------------------------------
(***************************************************************************)
(* The sweeper and the clock.                                              *)
(***************************************************************************)

\* The sweeper takes no queue that is in use.
LEMMA SerialCleanup ==
    ASSUME Roomy, SerialInv, Cleanup
    PROVE  Serial'
<1> DEFINE expired == {c \in Chats : LooksIdle(c)}
<1>1. /\ closed' = closed \cup {queueOf[c] : c \in expired}
      /\ queueOf' = [c \in Chats |-> IF c \in expired THEN NoQueue ELSE queueOf[c]]
      /\ UNCHANGED <<seq, chatOf, status, chan, age, wpc, wtask, runAge, sender, stopped, panicked>>
    BY DEF Cleanup
<1>2. \A c \in expired : queueOf[c] \in Task /\ queueOf[c] # NoQueue
                         /\ chan[queueOf[c]] = <<>> /\ age[queueOf[c]] > IdleTimeout
    BY DEF LooksIdle, SerialInv, PlaceInv, IndInv, TypeOK
<1> HIDE DEF expired
<1>3. MapSound'
    <2> SUFFICES ASSUME NEW c \in Chats, queueOf'[c] # NoQueue
                 PROVE  /\ queueOf'[c] \notin closed' /\ wpc[queueOf'[c]] # "none"
                        /\ chatOf[queueOf'[c]] = c
                        /\ wpc[queueOf'[c]] = "exit" => stopped
        BY <1>1 DEF MapSound
    <2>1. c \notin expired /\ queueOf'[c] = queueOf[c] /\ queueOf[c] # NoQueue
        BY <1>1
    <2>2. queueOf[c] \notin {queueOf[d] : d \in expired}
        <3> SUFFICES ASSUME NEW d \in expired, queueOf[d] = queueOf[c] PROVE FALSE
            OBVIOUS
        <3>1. d \in Chats /\ chatOf[queueOf[d]] = d /\ chatOf[queueOf[c]] = c
            BY <1>2, <2>1 DEF SerialInv, Serial, MapSound, expired
        <3> QED
            BY <2>1, <3>1
    <2> QED
        BY <1>1, <2>1, <2>2 DEF SerialInv, Serial, MapSound
<1>4. ClosedBegan'
    <2>1. \A c \in expired : wpc[queueOf[c]] # "none"
        BY <1>2 DEF SerialInv, Serial, MapSound, expired
    <2> QED
        BY <1>1, <2>1 DEF SerialInv, Serial, ClosedBegan
<1>5. UsedIsMapped'
    <2> SUFFICES ASSUME NEW q \in Task, InUse(q)
                 PROVE  chatOf[q] \in Chats /\ queueOf'[chatOf[q]] = q
        BY <1>1 DEF UsedIsMapped, InUse
    <2>1. chatOf[q] \in Chats /\ queueOf[chatOf[q]] = q
        BY DEF SerialInv, Serial, UsedIsMapped
    <2>2. chatOf[q] \notin expired
        <3> SUFFICES ASSUME chatOf[q] \in expired PROVE FALSE
            OBVIOUS
        <3>1. chan[q] = <<>> /\ age[q] > IdleTimeout
            BY <1>2, <2>1
        <3>2. age[q] <= IdleTimeout
            BY <3>1, UsedIsYoung
        <3>3. age[q] \in Int /\ IdleTimeout \in Int
            BY ConstantsAssumption DEF SerialInv, PlaceInv, IndInv, TypeOK
        <3> QED
            BY <3>1, <3>2, <3>3
    <2> QED
        BY <1>1, <2>1, <2>2
<1>6. OneChat' /\ Ordered' /\ StatusFits' /\ Ages'
    BY <1>1 DEF SerialInv, Serial, OneChat, Ordered, StatusFits, Ages, Has, Buffered
<1> QED
    BY <1>1, <1>3, <1>4, <1>5, <1>6 DEF SerialInv, Serial

\* Queues in use belong to different chats: while one waits, a slot is free.
LEMMA SlotForAll ==
    ASSUME Roomy, SerialInv, NEW q \in Task, wpc[q] = "acquire"
    PROVE  SlotFree
<1> DEFINE Workers == Holders \cup {q}
           chat == [r \in Workers |-> chatOf[r]]
<1>1. q \notin Holders /\ \A r \in Workers : r \in Task /\ InUse(r)
    BY DEF Holders, HoldsSlot, HoldsTask, Busy, InUse
<1>2. IsFiniteSet(Workers) /\ Cardinality(Workers) = Cardinality(Holders) + 1
    BY <1>1, HoldersFinite, FS_AddElement
<1>3. chat \in Injection(Workers, Chats)
    <2>1. \A r \in Workers : chatOf[r] \in Chats
        BY <1>1 DEF SerialInv, Serial, UsedIsMapped
    <2>2. \A r, s \in Workers : chatOf[r] = chatOf[s] => r = s
        BY <1>1, OneQueue
    <2> QED
        BY <2>1, <2>2 DEF Injection, IsInjective
<1>4. Cardinality(Workers) <= Cardinality(Chats)
    BY <1>2, <1>3, FS_Injection DEF Roomy
<1>5. sem = Cardinality(Holders)
    BY DEF SerialInv, PlaceInv, IndInv, SlotAccounting, Holders
<1>6. Cardinality(Chats) \in Nat /\ Cardinality(Holders) \in Nat /\ MaxConcurrent \in Nat
    BY HoldersFinite, FS_CardinalityType, ConstantsAssumption DEF Roomy
<1> QED
    BY <1>2, <1>4, <1>5, <1>6 DEF SlotFree, Roomy

\* The clock ticks when nobody can run: then every queue in use has a handler running.
LEMMA AgesTick ==
    ASSUME Roomy, SerialInv, Tick
    PROVE  Ages'
<1> SUFFICES ASSUME NEW q \in Task
             PROVE  /\ wpc'[q] \in {"acquire", "start"} => age'[q] = 0
                    /\ wpc'[q] = "recv" /\ (chan'[q] # <<>> \/ sender'.queue = q) => age'[q] = 0
                    /\ wpc'[q] = "run" => age'[q] <= runAge'[q]
                    /\ wpc'[q] \in {"release", "touch"} => age'[q] <= RunBound
    BY DEF Ages
<1>1. ~SenderCanRun /\ ~WorkerCanRun(q)
    BY DEF Tick, Roomy
<1>2. UNCHANGED <<wpc, chan, sender>>
    BY DEF Tick
<1>3. wpc[q] \notin {"acquire", "start", "release", "touch"}
    BY <1>1, SlotForAll DEF WorkerCanRun
<1>4. ~(wpc[q] = "recv" /\ (chan[q] # <<>> \/ sender.queue = q))
    <2>1. wpc[q] = "recv" => chan[q] = <<>>
        BY <1>1 DEF WorkerCanRun
    <2>2. chan[q] = <<>> => sender.queue # q
        <3> SUFFICES ASSUME chan[q] = <<>>, sender.queue = q PROVE FALSE
            OBVIOUS
        <3>1. sender # Idle
            BY DEF Idle, NoQueue, Task
        <3>2. Len(chan[sender.queue]) < ChanCap
            BY ConstantsAssumption
        <3> QED
            BY <3>1, <3>2, <1>1 DEF SenderCanRun
    <2> QED
        BY <2>1, <2>2
<1>5. wpc[q] = "run" => age'[q] <= runAge'[q]
    <2> SUFFICES ASSUME wpc[q] = "run" PROVE age'[q] <= runAge'[q]
        OBVIOUS
    <2>1. /\ age[q] <= runAge[q] /\ age[q] \in Nat /\ runAge[q] \in Nat /\ RunBound \in Nat
        BY ConstantsAssumption DEF SerialInv, Serial, Ages, PlaceInv, IndInv, TypeOK
    <2>2. runAge[q] < RunBound
        BY <1>1, <2>1 DEF WorkerCanRun
    <2>3. runAge'[q] = runAge[q] + 1
        BY <2>2 DEF Tick, Older
    <2>4. age'[q] = age[q] \/ age'[q] = age[q] + 1
        BY DEF Tick, Older
    <2> QED
        BY <2>1, <2>3, <2>4
<1> QED
    BY <1>2, <1>3, <1>4, <1>5

LEMMA SerialOthers ==
    ASSUME Roomy, SerialInv, Prune \/ Stop \/ Tick \/ SendPanics \/ UNCHANGED vars
    PROVE  Serial'
<1>1. ~SendPanics
    <2> SUFFICES ASSUME SendPanics PROVE FALSE
        OBVIOUS
    <2>1. sender.queue \in Task /\ sender.queue \in closed
        BY DEF SendPanics, SerialInv, PlaceInv, IndInv, TypeOK
    <2>2. chatOf[sender.queue] \in Chats /\ queueOf[chatOf[sender.queue]] = sender.queue
        BY <2>1 DEF SerialInv, Serial, UsedIsMapped, InUse
    <2> QED
        BY <2>1, <2>2 DEF SerialInv, Serial, MapSound, Task, NoQueue
<1>2. /\ UNCHANGED <<seq, chatOf, status, queueOf, chan, closed, wpc, wtask, sender, panicked>>
      /\ stopped => stopped'
      /\ sender # Idle => stopped' = stopped
    BY <1>1 DEF Prune, Stop, Tick, vars
<1>3. MapSound' /\ ClosedBegan' /\ UsedIsMapped'
    BY <1>2 DEF SerialInv, Serial, MapSound, ClosedBegan, UsedIsMapped, InUse
<1>4. OneChat' /\ Ordered'
    BY <1>2 DEF SerialInv, Serial, OneChat, Ordered, Has, Buffered
<1>5. StatusFits'
    BY <1>2 DEF SerialInv, Serial, StatusFits, Has, Buffered
<1>6. Ages'
    <2>1. CASE Tick
        BY <2>1, AgesTick
    <2>2. CASE UNCHANGED <<wpc, chan, sender, age, runAge>>
        BY <2>2 DEF SerialInv, Serial, Ages
    <2> QED
        BY <1>1, <2>1, <2>2 DEF Prune, Stop, vars
<1> QED
    BY <1>2, <1>3, <1>4, <1>5, <1>6 DEF SerialInv, Serial

LEMMA SerialStep ==
    ASSUME Roomy, SerialInv, [Next]_vars
    PROVE  SerialInv'
<1>1. PlaceInv'
    BY PlaceStep DEF SerialInv
<1>2. Serial'
    BY SerialSubmit, SerialSend, SerialWorker, SerialCleanup, SerialOthers DEF Next
<1> QED
    BY <1>1, <1>2 DEF SerialInv

LEMMA SerialHolds ==
    ASSUME Roomy
    PROVE  Spec => []SerialInv
BY SerialInit, SerialStep, PTL DEF Spec

--------------------------------------------------------------------------------
(***************************************************************************)
(* The theorems.                                                           *)
(***************************************************************************)

LEMMA SerialFromInv == SerialInv => SerialPerChat
<1> SUFFICES ASSUME SerialInv, NEW t \in Task, NEW u \in Task,
                    status[t] = "running", status[u] = "running", chatOf[t] = chatOf[u]
             PROVE  t = u
    BY DEF SerialPerChat
<1>1. PICK q \in Task : wpc[q] = "run" /\ wtask[q] = t
    BY DEF SerialInv, PlaceInv, IndInv, RunningHeld, Running, Runners
<1>2. PICK r \in Task : wpc[r] = "run" /\ wtask[r] = u
    BY DEF SerialInv, PlaceInv, IndInv, RunningHeld, Running, Runners
<1>3. InUse(q) /\ InUse(r) /\ Has(q) /\ Has(r)
    BY <1>1, <1>2 DEF InUse, Busy, Has, HoldsTask
<1>4. chatOf[q] = chatOf[r]
    BY <1>1, <1>2, <1>3 DEF SerialInv, Serial, OneChat
<1> QED
    BY <1>1, <1>2, <1>3, <1>4, OneQueue

\* With a slot for every chat, prompt goroutines and handlers that return before
\* the idle timeout, two turns of one chat never run at the same time.
THEOREM ChatsAreSerial ==
    ASSUME Roomy
    PROVE  Spec => []SerialPerChat
BY SerialHolds, SerialFromInv, PTL

\* Under the same conditions the sweeper never closes a channel that Submit is
\* about to send on, so the process is not killed by a panic.
THEOREM NoPanic ==
    ASSUME Roomy
    PROVE  Spec => []NoSendOnClosed
<1>1. SerialInv => NoSendOnClosed
    BY DEF SerialInv, Serial, NoSendOnClosed
<1> QED
    BY <1>1, SerialHolds, PTL

--------------------------------------------------------------------------------
(***************************************************************************)
(* The refinement.  What the callers see of a task's status is status,     *)
(* except that a pending task nobody will ever look at counts as dropped.  *)
(***************************************************************************)
\* A task that a goroutine will look at: with the sender, a worker or a channel.
LEMMA Remembered ==
    ASSUME NEW t \in Task, status[t] = "pending"
    PROVE  Forgotten(t) <=> ~(WithSender(t) \/ \E q \in Task : WithWorker(t, q) \/ InChannel(t, q))
BY DEF Forgotten

\* While the queue runs nothing is forgotten.
NoneForgotten == \A t \in Task : ~Forgotten(t)

LEMMA NothingForgotten == SerialInv /\ ~stopped => NoneForgotten
BY Remembered DEF NoneForgotten, Forgotten, SerialInv, PlaceInv, Somewhere

LEMMA ShownInit ==
    ASSUME Init
    PROVE  Promise!Init
<1>1. \A t \in Task : ~Forgotten(t)
    BY DEF Init, Forgotten
<1> QED
    BY <1>1 DEF Init, Promise!Init, Task, Promise!Task

\* Steps that leave every status alone lose tasks only after the shutdown.
LEMMA ForgottenGrows ==
    ASSUME SerialInv, stopped, [Next]_vars, status' = status, NEW t \in Task, Forgotten(t)
    PROVE  Forgotten(t)'
<1>1. sender = Idle
    BY DEF SerialInv, Serial, StatusFits
<1>2. sender' = Idle
    BY <1>1 DEF Next, vars, Submit, Send, SendPanics, WorkerStep, Receive, Exit, AcquireSlot,
                AbandonTask, MarkRunning, HandlerReturns, ReleaseSlot, Touch, Cleanup, Prune, Stop, Tick
<1>3. status'[t] = "pending"
    BY DEF Forgotten
<1>4. ASSUME NEW q \in Task, WithWorker(t, q)' \/ InChannel(t, q)'
      PROVE  WithWorker(t, q) \/ InChannel(t, q)
    <2>1. CASE UNCHANGED <<wpc, wtask, chan>>
        BY <1>4, <2>1 DEF WithWorker, InChannel
    <2>2. ASSUME NEW r \in Task, WorkerStep(r)
          PROVE  WithWorker(t, q) \/ InChannel(t, q)
        <3>1. CASE r # q
            <4>1. wpc'[q] = wpc[q] /\ wtask'[q] = wtask[q] /\ chan'[q] = chan[q]
                BY <2>2, <3>1 DEF SerialInv, PlaceInv, IndInv, TypeOK, WorkerStep, Receive, Exit, AcquireSlot,
                   AbandonTask, MarkRunning, HandlerReturns, ReleaseSlot, Touch
            <4> QED
                BY <1>4, <4>1 DEF WithWorker, InChannel
        <3>2. CASE r = q /\ Receive(r)
            <4>1. /\ wpc[q] = "recv" /\ chan[q] # <<>> /\ chan[q] \in Seq(Task)
                  /\ wtask'[q] = Head(chan[q]) /\ chan'[q] = Tail(chan[q])
                BY <3>2 DEF SerialInv, PlaceInv, IndInv, TypeOK, Receive
            <4>2. \E i \in 1 .. Len(chan[q]) : chan[q][i] = t
                <5>1. CASE WithWorker(t, q)'
                    <6>1. 1 \in 1 .. Len(chan[q]) /\ chan[q][1] = t
                        BY <4>1, <5>1 DEF WithWorker
                    <6> QED
                        BY <6>1
                <5>2. CASE InChannel(t, q)'
                    <6>1. PICK i \in 1 .. Len(Tail(chan[q])) : Tail(chan[q])[i] = t
                        BY <4>1, <5>2 DEF InChannel
                    <6>2. i + 1 \in 1 .. Len(chan[q]) /\ chan[q][i + 1] = t
                        BY <4>1, <6>1
                    <6> QED
                        BY <6>2
                <5> QED
                    BY <1>4, <5>1, <5>2
            <4> QED
                BY <4>1, <4>2 DEF InChannel
        <3>3. CASE r = q /\ ~Receive(r)
            <4>1. \/ Exit(q) \/ AcquireSlot(q) \/ AbandonTask(q) \/ MarkRunning(q)
                  \/ HandlerReturns(q) \/ ReleaseSlot(q) \/ Touch(q)
                BY <2>2, <3>3 DEF WorkerStep
            <4>2. chan' = chan /\ wpc[q] # "exit"
                BY <4>1, WorkerFrame
            <4>3. wpc'[q] \in {"acquire", "start"} =>
                      wpc[q] \in {"acquire", "start"} /\ wtask'[q] = wtask[q]
                BY <4>1 DEF SerialInv, PlaceInv, IndInv, TypeOK, Exit, AcquireSlot,
                   AbandonTask, MarkRunning, HandlerReturns, ReleaseSlot, Touch
            <4> QED
                BY <1>4, <4>2, <4>3 DEF WithWorker, InChannel
        <3> QED
            BY <2>2, <3>1, <3>2, <3>3
    <2>3. ~Send /\ \A c \in Chats : ~Submit(c)
        BY <1>1 DEF Send, Submit
    <2> QED
        BY <2>1, <2>2, <2>3 DEF Next, vars, SendPanics, Cleanup, Prune, Stop, Tick
<1>5. ~WithSender(t)'
    BY <1>2 DEF WithSender
<1> QED
    BY <1>3, <1>4, <1>5 DEF Forgotten

LEMMA QuietStep ==
    ASSUME SerialInv, SerialInv', [Next]_vars, status' = status, chatOf' = chatOf
    PROVE  [Promise!Next]_(Promise!vars)
<1>1. CASE ~stopped /\ ~stopped'
    <2>1. NoneForgotten /\ NoneForgotten'
        BY <1>1, NothingForgotten, PTL
    <2>2. [t \in Task |-> IF Forgotten(t) THEN "dropped" ELSE status[t]]'
            = [t \in Task |-> IF Forgotten(t) THEN "dropped" ELSE status[t]]
        BY <2>1 DEF NoneForgotten
    <2> QED
        BY <1>1, <2>2 DEF Promise!vars, SerialInv, PlaceInv, IndInv, TypeOK
<1>2. CASE ~stopped /\ stopped'
    <2>1. UNCHANGED <<sender, wpc, wtask, chan>> /\ stopped' = TRUE
        BY <1>2 DEF Next, vars, Submit, Send, SendPanics, WorkerStep, Receive, Exit, AcquireSlot,
                AbandonTask, MarkRunning, HandlerReturns, ReleaseSlot, Touch, Cleanup, Prune, Stop, Tick
    <2>2. \A t \in Task : Forgotten(t)' <=> Forgotten(t)
        BY <2>1 DEF Forgotten, WithSender, WithWorker, InChannel
    <2> QED
        BY <2>1, <2>2 DEF Promise!Next, Promise!Stop
<1>3. CASE stopped
    <2>1. PICK lost \in SUBSET Task : \A t \in Task : t \in lost <=> Forgotten(t)' /\ ~Forgotten(t)
        <3>1. {t \in Task : Forgotten(t)' /\ ~Forgotten(t)} \in SUBSET Task
            OBVIOUS
        <3> QED
            BY <3>1
    <2>2. \A t \in Task : Forgotten(t) => Forgotten(t)'
        BY <1>3, ForgottenGrows
    <2>3. stopped' = stopped
        BY <1>3 DEF Next, vars, Submit, Send, SendPanics, WorkerStep, Receive, Exit, AcquireSlot,
                AbandonTask, MarkRunning, HandlerReturns, ReleaseSlot, Touch, Cleanup, Prune, Stop, Tick
    <2>4. \A t \in lost : status[t] = "pending" /\ ~Forgotten(t)
        BY <2>1 DEF Forgotten
    <2>5. \A t \in Task : Forgotten(t)' <=> t \in lost \/ Forgotten(t)
        BY <2>1, <2>2
    <2>6. lost \in SUBSET Promise!Task
        BY <2>1 DEF Task, Promise!Task
    <2>7. Promise!Drop(lost)
        BY <1>3, <2>3, <2>4, <2>5, <2>6 DEF Promise!Drop, Promise!Task, Task
    <2> QED
        BY <2>6, <2>7 DEF Promise!Next
<1> QED
    BY <1>1, <1>2, <1>3

\* The statuses of the other tasks, and what is known of them, do not change.
LEMMA OthersKept ==
    ASSUME SerialInv, SerialInv', NEW q \in Task, MarkRunning(q) \/ HandlerReturns(q),
           NEW t \in Task, t = wtask[q]
    PROVE  /\ ~Forgotten(t) /\ ~Forgotten(t)'
           /\ \A u \in Task : u # t => status'[u] = status[u] /\ (Forgotten(u)' <=> Forgotten(u))
<1>1. /\ UNCHANGED <<sender, chan>>
      /\ \A r \in Task : r # q => wpc'[r] = wpc[r] /\ wtask'[r] = wtask[r]
      /\ wpc[q] \in {"start", "run"} /\ wpc'[q] \in {"run", "release"}
      /\ \A u \in Task : u # t => status'[u] = status[u]
    BY DEF SerialInv, PlaceInv, IndInv, TypeOK, MarkRunning, HandlerReturns
<1>2. ~Forgotten(t)
    BY <1>1 DEF Forgotten, WithWorker, SerialInv, Serial, StatusFits
<1>3. status'[t] # "pending"
    BY DEF SerialInv, PlaceInv, IndInv, TypeOK, MarkRunning, HandlerReturns, Terminal
<1>4. ASSUME NEW u \in Task, u # t
      PROVE  Forgotten(u)' <=> Forgotten(u)
    <2>1. WithSender(u)' <=> WithSender(u)
        BY <1>1 DEF WithSender
    <2>2. \A r \in Task : (WithWorker(u, r)' <=> WithWorker(u, r)) /\ (InChannel(u, r)' <=> InChannel(u, r))
        BY <1>1, <1>4 DEF WithWorker, InChannel
    <2> QED
        BY <1>1, <1>4, <2>1, <2>2 DEF Forgotten
<1> QED
    BY <1>1, <1>2, <1>3, <1>4 DEF Forgotten

\* Another task of a chat whose worker is about to start one waits behind it.
LEMMA StartsOldest ==
    ASSUME SerialInv, NEW q \in Task, wpc[q] = "start", NEW u \in Task, chatOf[u] = chatOf[wtask[q]]
    PROVE  /\ status[u] # "running"
           /\ u < wtask[q] /\ status[u] = "pending" => Forgotten(u)
<1>1. Has(q) /\ InUse(q) /\ chatOf[wtask[q]] = chatOf[q] /\ wtask[q] \in Task
      /\ wtask[q] <= seq /\ seq \in Nat /\ Task \subseteq Nat
    BY HeldAlone DEF Has, HoldsTask, InUse, Busy, SerialInv, Serial, OneChat, PlaceInv, IndInv, TypeOK, Task
<1>2. status[u] # "running"
    <2> SUFFICES ASSUME status[u] = "running" PROVE FALSE
        OBVIOUS
    <2>1. PICK r \in Task : wpc[r] = "run" /\ wtask[r] = u
        BY DEF SerialInv, PlaceInv, IndInv, RunningHeld, Running, Runners
    <2>2. Has(r) /\ InUse(r) /\ chatOf[r] = chatOf[u]
        BY <2>1 DEF Has, HoldsTask, InUse, Busy, SerialInv, Serial, OneChat
    <2>3. r = q
        BY <1>1, <2>2, OneQueue
    <2> QED
        BY <2>1, <2>3
<1>3. ASSUME u < wtask[q], status[u] = "pending", ~Forgotten(u)
      PROVE  FALSE
    <2>1. CASE WithSender(u)
        BY <1>1, <1>3, <2>1 DEF WithSender, SerialInv, Serial, Ordered
    <2>2. ASSUME NEW r \in Task, WithWorker(u, r) PROVE FALSE
        <3>1. Has(r) /\ InUse(r) /\ chatOf[r] = chatOf[u] /\ wtask[r] = u
            BY <2>2 DEF WithWorker, Has, HoldsTask, InUse, Busy, SerialInv, Serial, OneChat
        <3>2. r = q
            BY <1>1, <3>1, OneQueue
        <3> QED
            BY <1>1, <1>3, <3>1, <3>2
    <2>3. ASSUME NEW r \in Task, InChannel(u, r) PROVE FALSE
        <3>1. PICK i \in Buffered(r) : chan[r][i] = u
            BY <2>3 DEF InChannel, Buffered
        <3>2. InUse(r) /\ chatOf[r] = chatOf[u]
            BY <3>1 DEF InUse, Buffered, SerialInv, Serial, OneChat
        <3>3. r = q
            BY <1>1, <3>2, OneQueue
        <3>4. wtask[q] < u
            BY <1>1, <3>1, <3>3 DEF SerialInv, Serial, Ordered
        <3>5. u \in Nat /\ wtask[q] \in Nat
            BY <1>1
        <3> QED
            BY <1>3, <3>4, <3>5
    <2> QED
        BY <1>3, <2>1, <2>2, <2>3, Remembered
<1> QED
    BY <1>2, <1>3

LEMMA ShownSubmit ==
    ASSUME SerialInv, SerialInv', NEW c \in Chats, Submit(c)
    PROVE  Promise!Next
<1> DEFINE t == seq + 1
<1>1. t \in Task /\ seq \in Nat /\ Task \subseteq Nat /\ status \in [Task -> TaskStatus]
    <2>1. seq \in 0 .. MaxTasks /\ seq < MaxTasks /\ MaxTasks \in Nat /\ status \in [Task -> TaskStatus]
        BY ConstantsAssumption DEF SerialInv, PlaceInv, IndInv, TypeOK, Submit
    <2> QED
        BY <2>1 DEF Task
<1>2. /\ ~stopped /\ ~stopped' /\ stopped' = stopped
      /\ chatOf' = [chatOf EXCEPT ![t] = c]
      /\ status' = [status EXCEPT ![t] = "pending"]
    BY DEF Submit
<1>3. NoneForgotten /\ NoneForgotten'
    BY <1>2, NothingForgotten, PTL
<1>4. \A u \in Task : status[u] = "none" <=> u > seq
    BY DEF SerialInv, Serial, StatusFits
<1>5. status[t] = "none" /\ \A u \in Task : u < t => status[u] # "none"
    BY <1>1, <1>4
<1>6. PICK new \in Task : new = t
    BY <1>1
<1>7. Promise!Submit(new, c)
    BY <1>1, <1>2, <1>3, <1>5, <1>6 DEF Promise!Submit, Promise!Task, Task, NoneForgotten
<1>8. new \in Promise!Task
    BY <1>6 DEF Task, Promise!Task
<1> QED
    BY <1>7, <1>8 DEF Promise!Next

\* The instance counts as this module does.
LEMMA SameCount == \A S : Promise!Cardinality(S) = Cardinality(S)
BY DEF Promise!Cardinality, Cardinality

LEMMA ShownStart ==
    ASSUME SerialInv, SerialInv', NEW q \in Task, MarkRunning(q)
    PROVE  Promise!Next
<1>1. PICK t \in Task : t = wtask[q]
    BY HeldAlone DEF MarkRunning, HandlerReturns, Has, HoldsTask
<1>2. /\ ~Forgotten(t) /\ ~Forgotten(t)'
      /\ \A u \in Task : u # t => status'[u] = status[u] /\ (Forgotten(u)' <=> Forgotten(u))
    BY <1>1, OthersKept
<1>3. /\ wpc[q] = "start" /\ status[t] = "pending" /\ status' = [status EXCEPT ![t] = "running"]
      /\ UNCHANGED <<chatOf, stopped>> /\ status \in [Task -> TaskStatus]
    BY <1>1 DEF MarkRunning, SerialInv, Serial, StatusFits, PlaceInv, IndInv, TypeOK
<1>4. \A u \in Task : chatOf[u] = chatOf[t] =>
          status[u] # "running" /\ (u < t /\ status[u] = "pending" => Forgotten(u))
    BY <1>1, <1>3, StartsOldest
<1>5. Promise!Running = Running
    BY DEF Promise!Running, Promise!Task, Running, Task, Forgotten
<1>6. Cardinality(Running) < MaxConcurrent
    <2>1. Running' = Running \cup {t} /\ t \notin Running
        BY <1>3 DEF Running
    <2>2. IsFiniteSet(Running)
        <3>1. Running \in SUBSET Task
            BY DEF Running
        <3> QED
            BY <3>1, TaskFinite, FS_Subset
    <2>3. Cardinality(Running') = Cardinality(Running) + 1 /\ Cardinality(Running) \in Nat
        BY <2>1, <2>2, FS_AddElement, FS_CardinalityType
    <2>4. ConcurrencyBound'
        <3>1. IndInv'
            BY DEF SerialInv, PlaceInv
        <3> QED
            BY <3>1, ConcurrencyFromInv, PTL
    <2>5. Cardinality(Running') <= MaxConcurrent
        BY <2>4 DEF ConcurrencyBound, Running
    <2> QED
        BY <2>3, <2>5, ConstantsAssumption
<1>7. Promise!Start(t)
    <2>1. \A u \in Promise!Task :
              u < t /\ chatOf[u] = chatOf[t] =>
                  [x \in Task |-> IF Forgotten(x) THEN "dropped" ELSE status[x]][u] # "pending"
        BY <1>4 DEF Task, Promise!Task
    <2>2. \A u \in Running : chatOf[u] # chatOf[t]
        BY <1>4 DEF Running
    <2>3. [x \in Task |-> IF Forgotten(x) THEN "dropped" ELSE status[x]]'
             = [[x \in Task |-> IF Forgotten(x) THEN "dropped" ELSE status[x]] EXCEPT ![t] = "running"]
        BY <1>2, <1>3
    <2>4. [x \in Task |-> IF Forgotten(x) THEN "dropped" ELSE status[x]][t] = "pending"
        BY <1>2, <1>3
    <2>5. (\A u \in Promise!Running : chatOf[u] # chatOf[t]) /\ Promise!Cardinality(Promise!Running) < MaxConcurrent
        BY <1>5, <1>6, <2>2, SameCount
    <2>6. UNCHANGED <<chatOf, stopped>>
        BY <1>3
    <2> QED
        BY <2>1, <2>3, <2>4, <2>5, <2>6 DEF Promise!Start
<1>8. t \in Promise!Task
    BY DEF Task, Promise!Task
<1> QED
    BY <1>7, <1>8 DEF Promise!Next

LEMMA ShownFinish ==
    ASSUME SerialInv, SerialInv', NEW q \in Task, HandlerReturns(q)
    PROVE  Promise!Next
<1>1. PICK t \in Task : t = wtask[q]
    BY HeldAlone DEF MarkRunning, HandlerReturns, Has, HoldsTask
<1>2. /\ ~Forgotten(t) /\ ~Forgotten(t)'
      /\ \A u \in Task : u # t => status'[u] = status[u] /\ (Forgotten(u)' <=> Forgotten(u))
    BY <1>1, OthersKept
<1>3. PICK result \in Terminal : status' = [status EXCEPT ![t] = result]
    BY <1>1 DEF HandlerReturns
<1>4. /\ status[t] = "running" /\ UNCHANGED <<chatOf, stopped>> /\ status \in [Task -> TaskStatus]
    BY <1>1 DEF HandlerReturns, SerialInv, Serial, StatusFits, PlaceInv, IndInv, TypeOK
<1>5. [x \in Task |-> IF Forgotten(x) THEN "dropped" ELSE status[x]]'
         = [[x \in Task |-> IF Forgotten(x) THEN "dropped" ELSE status[x]] EXCEPT ![t] = result]
    BY <1>2, <1>3, <1>4
<1>6. Promise!Finish(t)
    BY <1>2, <1>3, <1>4, <1>5 DEF Promise!Finish, Terminal
<1>7. t \in Promise!Task
    BY DEF Task, Promise!Task
<1> QED
    BY <1>6, <1>7 DEF Promise!Next

LEMMA ShownStep ==
    ASSUME SerialInv, SerialInv', [Next]_vars
    PROVE  [Promise!Next]_(Promise!vars)
<1>1. ASSUME NEW c \in Chats, Submit(c) PROVE Promise!Next
    BY <1>1, ShownSubmit
<1>2. ASSUME NEW q \in Task, MarkRunning(q) \/ HandlerReturns(q) PROVE Promise!Next
    BY <1>2, ShownStart, ShownFinish
<1>3. CASE status' = status /\ chatOf' = chatOf
    BY <1>3, QuietStep
<1>4. \/ \E c \in Chats : Submit(c)
      \/ \E q \in Task : MarkRunning(q) \/ HandlerReturns(q)
      \/ status' = status /\ chatOf' = chatOf
    BY DEF Next, vars, Send, SendPanics, WorkerStep, Receive, Exit, AcquireSlot,
           AbandonTask, ReleaseSlot, Touch, Cleanup, Prune, Stop, Tick
<1> QED
    BY <1>1, <1>2, <1>3, <1>4

\* The queue keeps the promise of ChatSerial: turns of a chat run one at a time
\* and in the order they were submitted, no more than MaxConcurrent of all
\* chats run at once, and only a shutdown drops one.
THEOREM PromiseKept ==
    ASSUME Roomy
    PROVE  Spec => ServesChatsSerially
<1>1. SerialInv /\ SerialInv' /\ [Next]_vars => [Promise!Next]_(Promise!vars)
    BY ShownStep
<1>2. Init => Promise!Init
    BY ShownInit
<1> QED
    BY <1>1, <1>2, SerialHolds, PTL DEF Spec, Promise!Spec, ServesChatsSerially

================================================================================
