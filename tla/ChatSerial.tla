------------------------------- MODULE ChatSerial -------------------------------
(***************************************************************************)
(* What the task queue promises its callers, with no channel, goroutine or *)
(* clock in sight: the turns of one chat run one at a time and in the      *)
(* order they were submitted, and no more than MaxConcurrent turns run at  *)
(* once over all chats, until it is stopped; after that turns may be       *)
(* dropped ("per-chat serialization, and global concurrency", queue.go:48; *)
(* "drains tasks for a single chat, running them serially", queue.go:142). *)
(* TaskQueue is the detailed specification.                                *)
(***************************************************************************)
EXTENDS Integers, FiniteSets

CONSTANTS
    Chats,          (* the chat keys, "channel:chatID"                       *)
    MaxTasks,       (* bound on the number of submissions                    *)
    MaxConcurrent,  (* turns that may run at once over all chats             *)
    NoChat          (* the chat of a task that does not exist yet            *)

VARIABLES
    chatOf,         (* chat of each task, NoChat before it is submitted      *)
    status,         (* "none", then the TaskStatus; "dropped" at shutdown    *)
    stopped         (* no turn is owed to anyone any more                    *)

vars == <<chatOf, status, stopped>>

Task == 1 .. MaxTasks

Running == {t \in Task : status[t] = "running"}

Init ==
    /\ chatOf = [t \in Task |-> NoChat]
    /\ status = [t \in Task |-> "none"]
    /\ stopped = FALSE

Submit(t, c) ==
    /\ ~stopped
    /\ status[t] = "none"
    /\ \A u \in Task : u < t => status[u] # "none"
    /\ chatOf' = [chatOf EXCEPT ![t] = c]
    /\ status' = [status EXCEPT ![t] = "pending"]
    /\ UNCHANGED stopped

\* A turn starts when it is the oldest pending one of its chat, no turn of
\* the chat is running, and a slot is free.
Start(t) ==
    /\ status[t] = "pending"
    /\ \A u \in Task : u < t /\ chatOf[u] = chatOf[t] => status[u] # "pending"
    /\ \A u \in Running : chatOf[u] # chatOf[t]
    /\ Cardinality(Running) < MaxConcurrent
    /\ status' = [status EXCEPT ![t] = "running"]
    /\ UNCHANGED <<chatOf, stopped>>

Finish(t) ==
    /\ status[t] = "running"
    /\ \E result \in {"done", "failed"} : status' = [status EXCEPT ![t] = result]
    /\ UNCHANGED <<chatOf, stopped>>

Stop ==
    /\ stopped' = TRUE
    /\ UNCHANGED <<chatOf, status>>

Drop(lost) ==
    /\ stopped
    /\ \A t \in lost : status[t] = "pending"
    /\ status' = [t \in Task |-> IF t \in lost THEN "dropped" ELSE status[t]]
    /\ UNCHANGED <<chatOf, stopped>>

Next ==
    \/ \E t \in Task :
        \/ \E c \in Chats : Submit(t, c)
        \/ Start(t)
        \/ Finish(t)
    \/ Stop
    \/ \E lost \in SUBSET Task : Drop(lost)

Spec == Init /\ [][Next]_vars

=================================================================================
