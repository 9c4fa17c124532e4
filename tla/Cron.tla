----------------------------------- MODULE Cron -----------------------------------
(***************************************************************************)
(* Scheduled jobs: the poller of internal/cron/scheduler.go, the cron_jobs *)
(* statements of internal/store/database.go, the adapter between them and  *)
(* the tools that create and delete jobs.                                  *)
(*                                                                         *)
(* Every process polls the table once a minute, and once when it starts.   *)
(* A poll reads the due jobs, then takes them one by one: lock the row,    *)
(* put the message on Inbound, which may block, release the row with the   *)
(* next run a minute from the poll's time.  Time is in minutes.  The job   *)
(* list in memory (UpdateJobs) is not used by the gateway.                 *)
(***************************************************************************)
EXTENDS Integers, Sequences, FiniteSets

CONSTANTS
    Pods,           (* processes on one database                             *)
    Jobs,
    LockTTL,        (* minutes after which a lock counts as abandoned, 5     *)
    MaxTime         (* bound on time                                         *)

VARIABLES
    clock,
    jobs,           (* cron_jobs: job -> next_run and locked_at, or no row   *)
    poller,         (* pod -> pc, time of the poll, jobs to do, current job  *)
    messages,       (* history variable: <<job, time of the poll>> per message *)
    doubted         (* history variable: jobs taken after their lock had run *)
                    (* out, or after they had run since the list was read    *)

vars == <<clock, jobs, poller, messages, doubted>>

Never   == -1
NoRow   == [next |-> Never, locked |-> Never]
NoJob   == "none"
Resting == [pc |-> "rest", now |-> Never, due |-> {}, job |-> NoJob]

Deleted == [next |-> Never, locked |-> 0]

Exists(j) == jobs[j] \notin {NoRow, Deleted}

Init ==
    /\ clock = 0
    /\ jobs = [j \in Jobs |-> NoRow]
    /\ poller = [p \in Pods |-> Resting]
    /\ messages = <<>> /\ doubted = {}

----------------------------------------------------------------------------------

\* The agent's create_cron_job: due at once, whatever its schedule says.
SaveCronJob(j) ==
    /\ jobs[j] = NoRow
    /\ jobs' = [jobs EXCEPT ![j] = [next |-> clock, locked |-> Never]]
    /\ UNCHANGED <<clock, poller, messages, doubted>>

DeleteCronJob(j) ==
    /\ Exists(j)
    /\ jobs' = [jobs EXCEPT ![j] = Deleted]
    /\ UNCHANGED <<clock, poller, messages, doubted>>

\* GetDueCronJobs with the owners of the agents.
Poll(p) ==
    LET due == {j \in Jobs : Exists(j) /\ jobs[j].next <= clock}
    IN  /\ poller[p].pc = "rest" /\ poller[p].now < clock
        /\ poller' = [poller EXCEPT ![p] = [pc |-> "next", now |-> clock, due |-> due, job |-> NoJob]]
        /\ UNCHANGED <<clock, jobs, messages, doubted>>

RanOut(j) == jobs[j].locked # Never /\ jobs[j].locked < clock - LockTTL

\* Faulty variant: the row is taken whoever has it.
TakeAnyway(j) == Exists(j)

\* The row can be taken; whether the job is still due is not looked at.
CanLock(j) == Exists(j) /\ (jobs[j].locked = Never \/ RanOut(j))

LockCronJob(p) ==
    /\ poller[p].pc = "next"
    /\ \E j \in poller[p].due :
        /\ IF CanLock(j)
           THEN /\ jobs' = [jobs EXCEPT ![j].locked = clock]
                /\ poller' = [poller EXCEPT ![p].pc = "send", ![p].job = j, ![p].due = @ \ {j}]
                /\ doubted' = IF RanOut(j) \/ jobs[j].next > poller[p].now
                              THEN doubted \cup {j} ELSE doubted
           ELSE /\ poller' = [poller EXCEPT ![p].due = @ \ {j}]
                /\ UNCHANGED <<jobs, doubted>>
    /\ UNCHANGED <<clock, messages>>

\* bus.Inbound has room.
Send(p) ==
    /\ poller[p].pc = "send"
    /\ messages' = Append(messages, <<poller[p].job, poller[p].now>>)
    /\ poller' = [poller EXCEPT ![p].pc = "update"]
    /\ UNCHANGED <<clock, jobs, doubted>>

\* The row is released whoever holds it now; a deleted row stays deleted.
UpdateCronJobRun(p) ==
    LET j == poller[p].job
    IN  /\ poller[p].pc = "update"
        /\ jobs' = IF Exists(j) THEN [jobs EXCEPT ![j] = [next |-> poller[p].now + 1, locked |-> Never]] ELSE jobs
        /\ poller' = [poller EXCEPT ![p].pc = "next", ![p].job = NoJob]
        /\ UNCHANGED <<clock, messages, doubted>>

\* The update fails: the row stays locked until the lock has run out.
UpdateFails(p) ==
    /\ poller[p].pc = "update"
    /\ poller' = [poller EXCEPT ![p].pc = "next", ![p].job = NoJob]
    /\ UNCHANGED <<clock, jobs, messages, doubted>>

PollDone(p) ==
    /\ poller[p].pc = "next" /\ poller[p].due = {}
    /\ poller' = [poller EXCEPT ![p].pc = "rest"]
    /\ UNCHANGED <<clock, jobs, messages, doubted>>

\* The process dies; the next one polls when it starts.
Crash(p) ==
    /\ poller[p].pc \in {"send", "update"}
    /\ poller' = [poller EXCEPT ![p] = Resting]
    /\ UNCHANGED <<clock, jobs, messages, doubted>>

Tick ==
    /\ clock < MaxTime
    /\ clock' = clock + 1
    /\ UNCHANGED <<jobs, poller, messages, doubted>>

Next ==
    \/ \E j \in Jobs : SaveCronJob(j) \/ DeleteCronJob(j)
    \/ \E p \in Pods :
        \/ Poll(p) \/ LockCronJob(p) \/ Send(p) \/ UpdateCronJobRun(p)
        \/ UpdateFails(p) \/ PollDone(p) \/ Crash(p)
    \/ Tick

Spec == Init /\ [][Next]_vars

----------------------------------------------------------------------------------

TypeOK ==
    /\ clock \in 0 .. MaxTime
    /\ \A j \in Jobs : jobs[j].next <= clock + 1 /\ jobs[j].locked <= clock
    /\ \A p \in Pods : poller[p].pc \in {"rest", "next", "send", "update"} /\ poller[p].due \subseteq Jobs
    /\ doubted \subseteq Jobs

Firing(p, j) == poller[p].pc \in {"send", "update"} /\ poller[p].job = j

\* Two processes do not fire a job at once, and a job does not fire twice for one
\* minute, unless a lock ran out under a slow or dead process or a process took a
\* row that another one had released since its list was read.
FiredOnce ==
    \A j \in Jobs \ doubted :
        /\ \A p, q \in Pods : p # q => ~(Firing(p, j) /\ Firing(q, j))
        /\ Cardinality({i \in 1 .. Len(messages) : messages[i] = <<j, clock>>}) <= 1

==================================================================================
