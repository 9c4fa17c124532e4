---------------------------- MODULE SandboxLifecycle ----------------------------
(***************************************************************************)
(* internal/sandbox/lifecycle.go over the docker backend                   *)
(* (docker_executor.go, docker.go).  Tool calls reach the sandbox of their *)
(* scope, an (agentID, sessionID) pair, through lazyExecutor and           *)
(* LifecyclePool.getInner; a sweeper releases the sandboxes of scopes that *)
(* were not used for idleTTL; CloseAll tears everything down at shutdown.  *)
(*                                                                         *)
(* Two locks matter: LifecyclePool.mu guards lastUsed, hydrated and        *)
(* scopes, DockerExecutorPool.mu guards the executors map and is held      *)
(* while a container is created or removed.  Each action is what one       *)
(* goroutine does under one lock, or one docker command.                   *)
(*                                                                         *)
(* An executor is the DockerSandbox object, whose container comes and      *)
(* goes; a removed object keeps working for whoever still holds a pointer  *)
(* to it, and its next command creates a container again.  Executors       *)
(* bounds how many objects are referred to at once; a name nobody refers   *)
(* to is reused.                                                           *)
(***************************************************************************)
EXTENDS Integers, FiniteSets

CONSTANTS
    Scopes,             (* (agentID, sessionID) pairs                        *)
    Callers,            (* goroutines that run tool calls                    *)
    Executors,          (* names for DockerSandbox objects                   *)
    NoScope,
    NoExecutor,
    CallsDuringEviction,(* a call may start while its scope is evicted       *)
    LongCalls,          (* a call may last longer than idleTTL, so that its  *)
                        (* scope looks idle                                  *)
    CallsAtShutdown     (* calls may be running, or start, once CloseAll is  *)
                        (* called                                            *)

ASSUME SandboxAssumption ==
    /\ NoScope \notin Scopes
    /\ NoExecutor \notin Executors
    /\ CallsDuringEviction \in BOOLEAN
    /\ LongCalls \in BOOLEAN
    /\ CallsAtShutdown \in BOOLEAN

VARIABLES
    tracked,    (* keys of lastUsed (and of scopes)                          *)
    stale,      (* tracked scopes whose lastUsed is before the cutoff        *)
    hydrated,   (* scopes with hydrated[k] = true                            *)
    slot,       (* DockerExecutorPool.executors: scope -> executor           *)
    running,    (* executors whose container runs                            *)
    populated,  (* scopes whose workspace holds the store's files            *)
    pc,         (* where each caller is                                      *)
    scope,      (* the scope of each caller's call                           *)
    needs,      (* callers with needsHydrate                                 *)
    held,       (* the executor each caller got from the pool                *)
    doomed,     (* executors an ended call's watcher is about to Close       *)
    sweeper,    (* "wait" | "evict" | "done"                                 *)
    evicting,   (* toEvict, the scopes the sweeper still has to release      *)
    flushed,    (* the one of them it has flushed and releases next          *)
    closing     (* "no" | "wait" | "clear" | "closed": how far CloseAll is   *)

vars == <<tracked, stale, hydrated, slot, running, populated, pc, scope,
          needs, held, doomed, sweeper, evicting, flushed, closing>>

maps  == <<tracked, stale, hydrated>>
calls == <<pc, scope, needs, held>>
sweep == <<sweeper, evicting, flushed>>

CallerLoc  == {"idle", "get", "hydrate", "use", "exec"}
SweeperLoc == {"wait", "evict", "done"}

Init ==
    /\ tracked = {}
    /\ stale = {}
    /\ hydrated = {}
    /\ slot = [s \in Scopes |-> NoExecutor]
    /\ running = {}
    /\ populated = {}
    /\ pc = [c \in Callers |-> "idle"]
    /\ scope = [c \in Callers |-> NoScope]
    /\ needs = {}
    /\ held = [c \in Callers |-> NoExecutor]
    /\ doomed = {}
    /\ sweeper = "wait"
    /\ evicting = {}
    /\ flushed = NoScope
    /\ closing = "no"

CallsOn(s) == {c \in Callers : pc[c] # "idle" /\ scope[c] = s}

\* Names free for a new object: in no map, held by nobody, without a container.
Unused ==
    Executors \ (running \cup doomed \cup {slot[s] : s \in Scopes}
                         \cup {held[c] : c \in Callers})

Fresh == CHOOSE e \in Unused : TRUE

\* What c's call leaves behind when it returns.
Quit(c) ==
    /\ pc' = [pc EXCEPT ![c] = "idle"]
    /\ scope' = [scope EXCEPT ![c] = NoScope]
    /\ held' = [held EXCEPT ![c] = NoExecutor]
    /\ needs' = needs \ {c}

---------------------------------------------------------------------------------
(***************************************************************************)
(* lazyExecutor.Exec, ReadFile, WriteFile, ListDir through getInner.       *)
(***************************************************************************)

\* getInner's first section under p.mu: refresh lastUsed, claim the hydration.
Call(c, s) ==
    /\ pc[c] = "idle"
    /\ CallsDuringEviction \/ s \notin evicting
    /\ CallsAtShutdown \/ closing = "no"
    /\ tracked' = tracked \cup {s}
    /\ stale' = stale \ {s}
    /\ hydrated' = hydrated \cup {s}
    /\ needs' = IF s \in hydrated THEN needs ELSE needs \cup {c}
    /\ pc' = [pc EXCEPT ![c] = "get"]
    /\ scope' = [scope EXCEPT ![c] = s]
    /\ UNCHANGED <<slot, running, populated, held, doomed, sweep, closing>>

\* DockerExecutorPool.Get: the executor in the map, or a new one whose
\* container is started.
Sandbox(s) == IF slot[s] = NoExecutor THEN Fresh ELSE slot[s]

InnerGet(s) ==
    /\ slot[s] = NoExecutor => Unused # {}
    /\ slot' = [slot EXCEPT ![s] = Sandbox(s)]
    /\ running' = IF slot[s] = NoExecutor THEN running \cup {Sandbox(s)} ELSE running

Obtain(c) ==
    /\ pc[c] = "get"
    /\ InnerGet(scope[c])
    /\ held' = [held EXCEPT ![c] = Sandbox(scope[c])]
    /\ pc' = [pc EXCEPT ![c] = IF c \in needs THEN "hydrate" ELSE "use"]
    /\ UNCHANGED <<maps, populated, scope, needs, doomed, sweep, closing>>

\* Faulty variant: the hydration claim survives a failed creation.
ObtainFailsKeepingClaim(c) ==
    /\ pc[c] = "get"
    /\ slot[scope[c]] = NoExecutor
    /\ Quit(c)
    /\ UNCHANGED <<maps, slot, running, populated, doomed, sweep, closing>>

\* Faulty variant: a failed creation also forgets that the scope was used.
ObtainFailsForgetting(c) ==
    /\ pc[c] = "get"
    /\ slot[scope[c]] = NoExecutor
    /\ hydrated' = hydrated \ {scope[c]}
    /\ tracked' = tracked \ {scope[c]}
    /\ stale' = stale \ {scope[c]}
    /\ Quit(c)
    /\ UNCHANGED <<slot, running, populated, doomed, sweep, closing>>

\* Creating the container fails: the claim is rolled back, lastUsed stays.
ObtainFails(c) ==
    /\ pc[c] = "get"
    /\ slot[scope[c]] = NoExecutor
    /\ hydrated' = hydrated \ {scope[c]}
    /\ Quit(c)
    /\ UNCHANGED <<tracked, stale, slot, running, populated, doomed, sweep, closing>>

\* hydrateWorkspace writes the store's files, if it has any, through the sandbox,
\* whose container is created again if it is gone; errors are only logged.  The
\* workspace is a host directory and outlives the container.
Hydrate(c) ==
    /\ pc[c] = "hydrate"
    /\ populated' = populated \cup {scope[c]}
    /\ running' \in {running, running \cup {held[c]}}
    /\ pc' = [pc EXCEPT ![c] = "use"]
    /\ UNCHANGED <<maps, slot, scope, needs, held, doomed, sweep, closing>>

\* DockerSandbox.Exec up to the docker exec command: creates the container
\* again if it is gone.
BeginExec(c) ==
    /\ pc[c] = "use"
    /\ running' = running \cup {held[c]}
    /\ pc' = [pc EXCEPT ![c] = "exec"]
    /\ UNCHANGED <<maps, slot, populated, scope, needs, held, doomed, sweep, closing>>

\* The call returns, also when creating the container again failed.
EndExec(c) ==
    /\ pc[c] = "exec" \/ (pc[c] = "use" /\ held[c] \notin running)
    /\ Quit(c)
    /\ UNCHANGED <<maps, slot, running, populated, doomed, sweep, closing>>

\* The call's context ends: docker exec returns at once, and the watcher
\* goroutine will force-remove the container.
CancelExec(c) ==
    /\ pc[c] = "exec"
    /\ doomed' = doomed \cup {held[c]}
    /\ Quit(c)
    /\ UNCHANGED <<maps, slot, running, populated, sweep, closing>>

\* The watcher's Close, under whatever else runs in the container by then.
WatcherCloses(e) ==
    /\ e \in doomed
    /\ doomed' = doomed \ {e}
    /\ running' = running \ {e}
    /\ UNCHANGED <<maps, slot, populated, calls, sweep, closing>>

---------------------------------------------------------------------------------
(***************************************************************************)
(* The sweeper: loop and evictIdle.                                        *)
(***************************************************************************)

\* lastUsed falls behind the cutoff.
GoStale(s) ==
    /\ s \in tracked \ stale
    /\ LongCalls \/ CallsOn(s) = {}
    /\ stale' = stale \cup {s}
    /\ UNCHANGED <<tracked, hydrated, slot, running, populated, calls, doomed,
                   sweep, closing>>

\* Faulty variant: the comparison with the cutoff is lost.
AllTracked == tracked

Expired == stale

\* A tick: with p.mu held, forget every expired scope.
EvictScan ==
    /\ sweeper = "wait"
    /\ Expired # {}
    /\ evicting' = Expired
    /\ tracked' = tracked \ Expired
    /\ hydrated' = hydrated \ Expired
    /\ stale' = stale \ Expired
    /\ sweeper' = "evict"
    /\ UNCHANGED <<slot, running, populated, calls, doomed, flushed, closing>>

\* flushIfSupported asks the inner pool for the executor, which creates one
\* if there is none; a failure to do so is ignored.
EvictFlush(s) ==
    /\ sweeper = "evict"
    /\ flushed = NoScope
    /\ s \in evicting
    /\ \/ InnerGet(s)
       \/ slot[s] = NoExecutor /\ UNCHANGED <<slot, running>>
    /\ flushed' = s
    /\ UNCHANGED <<maps, populated, calls, doomed, sweeper, evicting, closing>>

\* Faulty variant: the executor leaves the map but keeps its container.
ReleaseWithoutClose(s) ==
    /\ slot' = [slot EXCEPT ![s] = NoExecutor]
    /\ UNCHANGED running

\* DockerExecutorPool.Release: out of the map, container removed.
Release(s) ==
    /\ slot' = [slot EXCEPT ![s] = NoExecutor]
    /\ running' = running \ {slot[s]}

\* Faulty variant: the loop returns where it should continue.
EvictReleaseReturns ==
    /\ flushed # NoScope
    /\ Release(flushed)
    /\ evicting' = {}
    /\ sweeper' = "wait"
    /\ flushed' = NoScope
    /\ UNCHANGED <<maps, populated, calls, doomed, closing>>

\* Faulty variant: the position in the list is not advanced.
EvictReleaseNoAdvance ==
    /\ flushed # NoScope
    /\ Release(flushed)
    /\ evicting' = evicting \ {flushed}
    /\ sweeper' = IF evicting = {flushed} THEN "wait" ELSE "evict"
    /\ UNCHANGED <<maps, populated, calls, doomed, flushed, closing>>

EvictRelease ==
    /\ flushed # NoScope
    /\ Release(flushed)
    /\ evicting' = evicting \ {flushed}
    /\ sweeper' = IF evicting = {flushed} THEN "wait" ELSE "evict"
    /\ flushed' = NoScope
    /\ UNCHANGED <<maps, populated, calls, doomed, closing>>

\* stopCh is closed: the loop returns once it is back at its select.
SweeperStops ==
    /\ sweeper = "wait"
    /\ closing # "no"
    /\ sweeper' = "done"
    /\ UNCHANGED <<maps, slot, running, populated, calls, doomed, evicting,
                   flushed, closing>>

---------------------------------------------------------------------------------
(***************************************************************************)
(* CloseAll: stop the sweeper, wait for it, empty the inner pool, then     *)
(* clear the maps.                                                         *)
(***************************************************************************)
CloseAllBegins ==
    /\ closing = "no"
    /\ CallsAtShutdown \/ \A c \in Callers : pc[c] = "idle"
    /\ closing' = "wait"
    /\ UNCHANGED <<maps, slot, running, populated, calls, doomed, sweep>>

\* DockerExecutorPool.CloseAll
CloseEveryExecutor ==
    /\ running' = running \ {slot[s] : s \in Scopes}
    /\ slot' = [s \in Scopes |-> NoExecutor]

\* Faulty variant: CloseAll does not wait for the sweeper.
CloseInnerAtOnce ==
    /\ closing = "wait"
    /\ CloseEveryExecutor
    /\ closing' = "clear"
    /\ UNCHANGED <<maps, populated, calls, doomed, sweep>>

CloseInner ==
    /\ closing = "wait"
    /\ sweeper = "done"
    /\ CloseEveryExecutor
    /\ closing' = "clear"
    /\ UNCHANGED <<maps, populated, calls, doomed, sweep>>

ClearMaps ==
    /\ closing = "clear"
    /\ tracked' = {}
    /\ stale' = {}
    /\ hydrated' = {}
    /\ closing' = "closed"
    /\ UNCHANGED <<slot, running, populated, calls, doomed, sweep>>

---------------------------------------------------------------------------------
CallStep(c) ==
    \/ Obtain(c)
    \/ ObtainFails(c)
    \/ Hydrate(c)
    \/ BeginExec(c)
    \/ EndExec(c)
    \/ CancelExec(c)

SweepStep ==
    \/ EvictScan
    \/ \E s \in Scopes : EvictFlush(s)
    \/ EvictRelease
    \/ SweeperStops

CloseStep ==
    \/ CloseInner
    \/ ClearMaps

Next ==
    \/ \E c \in Callers : CallStep(c) \/ \E s \in Scopes : Call(c, s)
    \/ \E e \in Executors : WatcherCloses(e)
    \/ \E s \in Scopes : GoStale(s)
    \/ SweepStep
    \/ CloseAllBegins
    \/ CloseStep

Spec == Init /\ [][Next]_vars

\* Calls end (they carry deadlines), time passes, the sweeper's ticker ticks,
\* and CloseAll, once called, runs on.  Nobody owes a call or a shutdown.
Fairness ==
    /\ \A c \in Callers : WF_vars(CallStep(c))
    /\ \A s \in Scopes : WF_vars(GoStale(s))
    /\ WF_vars(SweepStep)
    /\ WF_vars(CloseStep)

FairSpec == Spec /\ Fairness

---------------------------------------------------------------------------------
(***************************************************************************)
(* Properties.                                                             *)
(***************************************************************************)

\* Types, and the bookkeeping between the sweeper's own variables.
TypeOK ==
    /\ tracked \in SUBSET Scopes
    /\ stale \in SUBSET tracked
    /\ hydrated \in SUBSET Scopes
    /\ slot \in [Scopes -> Executors \cup {NoExecutor}]
    /\ running \in SUBSET Executors
    /\ populated \in SUBSET Scopes
    /\ pc \in [Callers -> CallerLoc]
    /\ scope \in [Callers -> Scopes \cup {NoScope}]
    /\ needs \in SUBSET Callers
    /\ held \in [Callers -> Executors \cup {NoExecutor}]
    /\ doomed \in SUBSET Executors
    /\ sweeper \in SweeperLoc
    /\ evicting \in SUBSET Scopes
    /\ flushed \in evicting \cup {NoScope}
    /\ closing \in {"no", "wait", "clear", "closed"}

\* A container runs only for an executor some scope owns, so that eviction or
\* CloseAll will find it: no container outlives the map that knows it.
NoOrphanSandbox == running \subseteq {slot[s] : s \in Scopes}

\* A scope that owns an executor is known to the sweeper (lastUsed) or is just
\* being evicted, until CloseAll empties the pool: idle eviction misses nothing.
EverySandboxTracked ==
    \A s \in Scopes : slot[s] # NoExecutor => s \in tracked \cup evicting

\* A call works in the sandbox its scope owns, never in one the sweeper has
\* taken away ("Remove from maps under lock so a racing Get doesn't mistake an
\* evicted sandbox for a live one", lifecycle.go:145).
CallsHoldLiveSandbox ==
    \A c \in Callers : pc[c] \in {"hydrate", "use", "exec"} => slot[scope[c]] = held[c]

\* The hydrated flag never hides work nobody does: the workspace was populated
\* or a call that claimed the hydration is on its way to do it.
HydrationClaimed ==
    \A s \in hydrated : s \in populated \/ \E c \in needs : scope[c] = s

\* When CloseAll has returned nothing runs and no executor is left in the pool,
\* whatever the sweeper was doing when it was called.
ShutdownComplete ==
    closing = "closed" => running = {} /\ \A s \in Scopes : slot[s] = NoExecutor

\* A scope that is no longer called gives its sandbox back.
IdleReleased ==
    \A s \in Scopes : <>[](CallsOn(s) = {}) => <>[](slot[s] = NoExecutor)

=================================================================================
