----------------------------------- MODULE E2B -----------------------------------
(***************************************************************************)
(* internal/sandbox/e2b_executor.go: the remote sandboxes of one agent and *)
(* session.  A pool keeps the executor; the executor keeps the id of its   *)
(* cloud sandbox and replaces it when a request to it comes back with 502  *)
(* or 404, which the code takes for "expired" (a read of a file that does  *)
(* not exist comes back with 404 as well).  Tool calls run concurrently on *)
(* one executor, whose fields no lock protects.  SandboxLifecycle models   *)
(* who asks for the executor, releases it and takes the snapshots.         *)
(*                                                                         *)
(* A command or a write is an effect, named by its call, on the sandbox    *)
(* that serves it; what a hydration or a snapshot copies, tar, base64 and  *)
(* the Connect frames are left out.                                        *)
(***************************************************************************)
EXTENDS Integers, FiniteSets

CONSTANTS
    Calls,          (* tool calls                                            *)
    MaxSandboxes,   (* bound on the sandboxes that get created               *)
    MaxExecutors    (* bound on the executors the pool makes                 *)

VARIABLES
    cloud,          (* sandbox -> whether it is up, and what ran in it       *)
    executor,       (* executor -> the sandbox it points to                  *)
    pool,           (* the executor registered for the key                   *)
    remote,         (* call -> its executor and how far it is                *)
    closing,        (* executors taken out whose Close is under way          *)
    leaked          (* history variable: sandboxes the code let go of        *)

vars == <<cloud, executor, pool, remote, closing, leaked>>

None == 0
Sandboxes == 1 .. MaxSandboxes
Executors == 1 .. MaxExecutors

Unused == [up |-> FALSE, used |-> FALSE, ran |-> [c \in Calls |-> 0]]
Fresh  == [Unused EXCEPT !.up = TRUE, !.used = TRUE]

Init ==
    /\ cloud = [s \in Sandboxes |-> Unused]
    /\ executor = [e \in Executors |-> None]
    /\ pool = None
    /\ remote = [c \in Calls |-> [at |-> "idle", on |-> None]]
    /\ closing = {}
    /\ leaked = {}

Up(s) == s \in Sandboxes /\ cloud[s].up
Pointed(c) == executor[remote[c].on]          \* what e.envdURL() says now

----------------------------------------------------------------------------------

\* newE2BExecutor: a sandbox with nothing in it.
Creates(s) == s \in Sandboxes /\ ~cloud[s].used /\ \A t \in 1 .. s - 1 : cloud[t].used

\* Get makes the executor, its sandbox and its content with the pool's mutex held; a
\* hydration that fails is only logged.
Get ==
    /\ pool = None
    /\ \E e \in Executors, s \in Sandboxes :
        /\ executor[e] = None /\ (\A f \in 1 .. e - 1 : executor[f] # None)
        /\ Creates(s)
        /\ cloud' = [cloud EXCEPT ![s] = Fresh]
        /\ executor' = [executor EXCEPT ![e] = s]
        /\ pool' = e
    /\ UNCHANGED <<remote, closing, leaked>>

\* Release takes the executor out and closes its sandbox outside the mutex.
ReleaseForgets ==
    /\ pool # None
    /\ pool' = None
    /\ UNCHANGED <<cloud, executor, remote, closing, leaked>>

Release ==
    /\ pool # None
    /\ pool' = None
    /\ closing' = closing \cup {pool}
    /\ UNCHANGED <<cloud, executor, remote, leaked>>

\* DELETE of the sandbox the executor points to by then; when the request fails nobody tries again.
Close ==
    /\ \E e \in closing :
        /\ closing' = closing \ {e}
        /\ \/ /\ cloud' = [cloud EXCEPT ![executor[e]].up = FALSE]
              /\ leaked' = leaked
           \/ /\ cloud' = cloud
              /\ leaked' = leaked \cup {executor[e]}
    /\ UNCHANGED <<executor, pool, remote>>

\* CloseAll does both for each executor, with the mutex held.
CloseAll ==
    /\ pool # None
    /\ pool' = None
    /\ cloud' = [cloud EXCEPT ![executor[pool]].up = FALSE]
    /\ UNCHANGED <<executor, remote, closing, leaked>>

\* A sandbox lives for its fixed timeout, used or not (external).
Expire ==
    /\ \E s \in Sandboxes : Up(s) /\ cloud' = [cloud EXCEPT ![s].up = FALSE]
    /\ UNCHANGED <<executor, pool, remote, closing, leaked>>

----------------------------------------------------------------------------------

Goes(c, where) == remote' = [remote EXCEPT ![c].at = where]
Ran(s, c)      == cloud' = [cloud EXCEPT ![s].ran[c] = @ + 1]

\* A tool call holds the executor it got from the pool.
Begin(c) ==
    /\ remote[c].at = "idle" /\ pool # None
    /\ remote' = [remote EXCEPT ![c] = [at |-> "first", on |-> pool]]
    /\ UNCHANGED <<cloud, executor, pool, closing, leaked>>

\* execOnce, readFileOnce, writeFileOnce: the request reaches the sandbox or does not;
\* the answer is a result, an error that is final, or 502/404.  A proxy's 502 can come
\* after the command ran, and a 404 from a sandbox that is up.
Attempt(c, further) ==
    LET s == Pointed(c)
    IN  \/ Up(s) /\ Ran(s, c) /\ Goes(c, "done")
        \/ Up(s) /\ Ran(s, c) /\ Goes(c, further)
        \/ cloud' = cloud /\ (Goes(c, further) \/ Goes(c, "done"))

\* Trying again without replacing the sandbox.
TryOnceAgain(c) ==
    /\ remote[c].at = "first"
    /\ Attempt(c, "again")
    /\ UNCHANGED <<executor, pool, closing, leaked>>

\* Exec, ReadFile, WriteFile: on 502/404 recreate, then one more attempt.
TryOnce(c) ==
    /\ remote[c].at = "first"
    /\ Attempt(c, "recreate")
    /\ UNCHANGED <<executor, pool, closing, leaked>>

\* recreate: a new sandbox under the same executor; the old one is not closed.
Recreate(c) ==
    /\ remote[c].at = "recreate"
    /\ \/ /\ \E s \in Sandboxes :
                /\ Creates(s)
                /\ cloud' = [cloud EXCEPT ![s] = Fresh]
                /\ executor' = [executor EXCEPT ![remote[c].on] = s]
                /\ leaked' = leaked \cup {Pointed(c)}
                                    \cup (IF remote[c].on \in {pool} \cup closing THEN {} ELSE {s})
          /\ Goes(c, "hydrate")
       \/ /\ Goes(c, "done")
          /\ UNCHANGED <<cloud, executor, leaked>>
    /\ UNCHANGED <<pool, closing>>

\* Hydrate unpacks skills and workspace in the sandbox the executor points to by then,
\* or fails, which is only logged; other calls run meanwhile.
Hydrate(c) ==
    /\ remote[c].at = "hydrate"
    /\ Goes(c, "again")
    /\ UNCHANGED <<cloud, executor, pool, closing, leaked>>

Retry(c) ==
    /\ remote[c].at = "again"
    /\ Attempt(c, "done")
    /\ UNCHANGED <<executor, pool, closing, leaked>>

Next ==
    \/ Get \/ Release \/ Close \/ CloseAll \/ Expire
    \/ \E c \in Calls : Begin(c) \/ TryOnce(c) \/ Recreate(c) \/ Hydrate(c) \/ Retry(c)

----------------------------------------------------------------------------------

TypeOK ==
    /\ cloud \in [Sandboxes -> [up : BOOLEAN, used : BOOLEAN, ran : [Calls -> 0 .. 2]]]
    /\ executor \in [Executors -> {None} \cup Sandboxes]
    /\ pool \in {None} \cup Executors
    /\ remote \in [Calls -> [at : {"idle", "first", "recreate", "hydrate", "again", "done"},
                             on : {None} \cup Executors]]
    /\ closing \subseteq Executors /\ leaked \subseteq Sandboxes

\* The retry of a command that did run (its answer was lost) finds another sandbox, also
\* when two calls replace it at the same time: nothing is done twice in one workspace.
OncePerSandbox == \A s \in Sandboxes, c \in Calls : cloud[s].ran[c] <= 1

\* A sandbox that is up (and is paid for) is the one of the pool's executor, or is being
\* closed, or was let go by a replacement, a call on a released executor, or a Close
\* that failed.
EverySandboxAccounted ==
    \A s \in Sandboxes :
        Up(s) => \/ \E e \in closing \cup ({pool} \ {None}) : executor[e] = s
                 \/ s \in leaked

RemoteCallsSound == OncePerSandbox /\ EverySandboxAccounted
=============================================================================
