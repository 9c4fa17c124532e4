----------------------------- MODULE SandboxProofs -----------------------------
(***************************************************************************)
(* The safety properties of SandboxLifecycle for every set of scopes,      *)
(* callers and executors.  Types and the hydration claim hold whatever the *)
(* calls do.  The others are about calls that are shorter than the idle    *)
(* TTL and meet neither an eviction nor the shutdown (Calm); TLC refutes   *)
(* them for calls that do.                                                 *)
(***************************************************************************)
EXTENDS SandboxLifecycle, TLAPS

Calm == ~CallsDuringEviction /\ ~LongCalls /\ ~CallsAtShutdown

Working == {"hydrate", "use", "exec"}

\* What a call under way has, and what the one that claimed the hydration has done.
CallInv ==
    /\ \A c \in Callers : pc[c] # "idle" => scope[c] \in Scopes
    /\ \A c \in Callers : pc[c] \in Working => held[c] \in Executors
    /\ \A c \in needs : /\ pc[c] # "idle"
                        /\ pc[c] \in {"use", "exec"} => scope[c] \in populated

\* Scopes are only being evicted while the sweeper is at it.
SweeperInv == sweeper # "evict" => evicting = {} /\ flushed = NoScope

BaseInv == TypeOK /\ CallInv /\ SweeperInv /\ HydrationClaimed

\* A scope under way is recently used and not being evicted, and nobody calls at shutdown.
UnderWay ==
    \A c \in Callers : pc[c] # "idle" =>
        scope[c] \in tracked \ stale /\ scope[c] \notin evicting /\ closing = "no"

\* What CloseAll removed nobody creates again.
Emptied ==
    closing \in {"clear", "closed"} =>
        sweeper = "done" /\ running = {} /\ \A s \in Scopes : slot[s] = NoExecutor

CalmInv == UnderWay /\ Emptied /\ NoOrphanSandbox /\ EverySandboxTracked /\ CallsHoldLiveSandbox

--------------------------------------------------------------------------------
LEMMA FreshUnused == Unused # {} => Fresh \in Unused
BY DEF Fresh

\* What the inner pool's Get makes of the map of executors.
LEMMA InnerGetKeeps ==
    ASSUME TypeOK, NEW s \in Scopes, InnerGet(s)
    PROVE  /\ slot' \in [Scopes -> Executors \cup {NoExecutor}] /\ running' \in SUBSET Executors
           /\ slot'[s] = Sandbox(s) /\ slot'[s] \in Executors
           /\ \A t \in Scopes : slot[t] # NoExecutor \/ t # s => slot'[t] = slot[t]
           /\ running' \subseteq running \cup {slot'[s]}
<1>1. Sandbox(s) \in Executors
  BY FreshUnused DEF InnerGet, Sandbox, TypeOK, Unused
<1> QED
  BY <1>1 DEF InnerGet, Sandbox, TypeOK

LEMMA InitBase == Init => BaseInv
BY SandboxAssumption DEF Init, BaseInv, TypeOK, CallInv, SweeperInv, HydrationClaimed, Working, CallerLoc, SweeperLoc

\* One step per action of a call.
LEMMA CallBase ==
    ASSUME BaseInv, NEW c \in Callers, NEW s \in Scopes, Call(c, s)
    PROVE  BaseInv'
<1> USE DEF BaseInv, CallerLoc, SweeperLoc, maps, calls, sweep
<1>1. TypeOK'
  BY DEF Call, TypeOK
<1>2. CallInv'
  BY DEF Call, TypeOK, CallInv, Working
<1>3. SweeperInv'
  BY DEF Call, SweeperInv
<1>4. HydrationClaimed'
  <2>1. \A d \in needs : d # c
    BY DEF Call, CallInv
  <2> QED
    BY <2>1 DEF Call, TypeOK, HydrationClaimed
<1> QED
  BY <1>1, <1>2, <1>3, <1>4

LEMMA ObtainBase ==
    ASSUME BaseInv, NEW c \in Callers, Obtain(c)
    PROVE  BaseInv'
<1> USE DEF BaseInv, CallerLoc, SweeperLoc, maps, calls, sweep
<1>1. scope[c] \in Scopes
  BY DEF Obtain, CallInv
<1>2. /\ slot' \in [Scopes -> Executors \cup {NoExecutor}] /\ running' \in SUBSET Executors
      /\ Sandbox(scope[c]) \in Executors
  BY <1>1, InnerGetKeeps DEF Obtain
<1>3. TypeOK'
  BY <1>2 DEF Obtain, TypeOK
<1>4. CallInv'
  BY <1>2 DEF Obtain, TypeOK, CallInv, Working
<1>5. SweeperInv' /\ HydrationClaimed'
  BY DEF Obtain, SweeperInv, HydrationClaimed
<1> QED
  BY <1>3, <1>4, <1>5

LEMMA ObtainFailsBase ==
    ASSUME BaseInv, NEW c \in Callers, ObtainFails(c)
    PROVE  BaseInv'
<1> USE DEF BaseInv, CallerLoc, SweeperLoc, maps, calls, sweep, Quit
<1>1. TypeOK'
  BY DEF ObtainFails, TypeOK
<1>2. CallInv'
  BY DEF ObtainFails, TypeOK, CallInv, Working
<1>3. SweeperInv'
  BY DEF ObtainFails, SweeperInv
<1>4. HydrationClaimed'
  BY DEF ObtainFails, TypeOK, HydrationClaimed
<1> QED
  BY <1>1, <1>2, <1>3, <1>4

LEMMA HydrateBase ==
    ASSUME BaseInv, NEW c \in Callers, Hydrate(c)
    PROVE  BaseInv'
<1> USE DEF BaseInv, CallerLoc, SweeperLoc, maps, calls, sweep
<1>1. TypeOK'
  BY DEF Hydrate, TypeOK, CallInv, Working
<1>2. CallInv'
  BY DEF Hydrate, TypeOK, CallInv, Working
<1>3. SweeperInv' /\ HydrationClaimed'
  BY DEF Hydrate, SweeperInv, HydrationClaimed
<1> QED
  BY <1>1, <1>2, <1>3

LEMMA BeginExecBase ==
    ASSUME BaseInv, NEW c \in Callers, BeginExec(c)
    PROVE  BaseInv'
<1> USE DEF BaseInv, CallerLoc, SweeperLoc, maps, calls, sweep
<1>1. TypeOK'
  BY DEF BeginExec, TypeOK, CallInv, Working
<1>2. CallInv'
  BY DEF BeginExec, TypeOK, CallInv, Working
<1>3. SweeperInv' /\ HydrationClaimed'
  BY DEF BeginExec, SweeperInv, HydrationClaimed
<1> QED
  BY <1>1, <1>2, <1>3

\* However the call ends, the hydration it claimed is done.
LEMMA EndExecBase ==
    ASSUME BaseInv, NEW c \in Callers, EndExec(c) \/ CancelExec(c)
    PROVE  BaseInv'
<1> USE DEF BaseInv, CallerLoc, SweeperLoc, maps, calls, sweep
<1>1. /\ pc[c] \in {"use", "exec"} /\ Quit(c) /\ doomed' \in {doomed, doomed \cup {held[c]}}
      /\ UNCHANGED <<maps, slot, running, populated, sweep, closing>>
  BY DEF EndExec, CancelExec
<1>2. held[c] \in Executors /\ (c \in needs => scope[c] \in populated)
  BY <1>1 DEF CallInv, Working
<1>3. TypeOK'
  BY <1>1, <1>2 DEF TypeOK, Quit
<1>4. CallInv'
  BY <1>1 DEF TypeOK, CallInv, Working, Quit
<1>5. SweeperInv'
  BY <1>1 DEF SweeperInv
<1>6. HydrationClaimed'
  BY <1>1, <1>2 DEF TypeOK, HydrationClaimed, Quit
<1> QED
  BY <1>3, <1>4, <1>5, <1>6

\* The steps of the sweeper, of the shutdown and of time.
LEMMA OtherBase ==
    ASSUME BaseInv,
           \/ \E e \in Executors : WatcherCloses(e)
           \/ \E s \in Scopes : GoStale(s)
           \/ SweepStep \/ CloseAllBegins \/ CloseStep \/ UNCHANGED vars
    PROVE  BaseInv'
<1> USE DEF BaseInv, CallerLoc, SweeperLoc, maps, calls, sweep
<1>1. ASSUME NEW e \in Executors, WatcherCloses(e) PROVE BaseInv'
  BY <1>1 DEF WatcherCloses, TypeOK, CallInv, SweeperInv, HydrationClaimed
<1>2. ASSUME NEW s \in Scopes, GoStale(s) PROVE BaseInv'
  BY <1>2 DEF GoStale, TypeOK, CallInv, SweeperInv, HydrationClaimed
<1>3. CASE EvictScan
  BY <1>3, SandboxAssumption DEF EvictScan, Expired, TypeOK, CallInv, SweeperInv, HydrationClaimed
<1>4. ASSUME NEW s \in Scopes, EvictFlush(s) PROVE BaseInv'
  <2>1. slot' \in [Scopes -> Executors \cup {NoExecutor}] /\ running' \in SUBSET Executors
    BY <1>4, InnerGetKeeps DEF EvictFlush, TypeOK
  <2> QED
    BY <1>4, <2>1 DEF EvictFlush, TypeOK, CallInv, SweeperInv, HydrationClaimed
<1>5. CASE EvictRelease
  <2>1. flushed \in Scopes
    BY <1>5 DEF EvictRelease, TypeOK
  <2>2. TypeOK'
    BY <1>5, <2>1 DEF EvictRelease, Release, TypeOK
  <2>3. SweeperInv'
    BY <1>5 DEF EvictRelease, SweeperInv
  <2> QED
    BY <1>5, <2>2, <2>3 DEF EvictRelease, CallInv, HydrationClaimed
<1>6. CASE SweeperStops
  BY <1>6 DEF SweeperStops, TypeOK, CallInv, SweeperInv, HydrationClaimed
<1>7. CASE CloseAllBegins
  BY <1>7 DEF CloseAllBegins, TypeOK, CallInv, SweeperInv, HydrationClaimed
<1>8. CASE CloseInner
  BY <1>8 DEF CloseInner, CloseEveryExecutor, TypeOK, CallInv, SweeperInv, HydrationClaimed
<1>9. CASE ClearMaps
  BY <1>9 DEF ClearMaps, TypeOK, CallInv, SweeperInv, HydrationClaimed
<1>10. CASE UNCHANGED vars
  BY <1>10 DEF vars, TypeOK, CallInv, SweeperInv, HydrationClaimed
<1> QED
  BY <1>1, <1>2, <1>3, <1>4, <1>5, <1>6, <1>7, <1>8, <1>9, <1>10 DEF SweepStep, CloseStep

LEMMA StepBase == BaseInv /\ [Next]_vars => BaseInv'
BY CallBase, ObtainBase, ObtainFailsBase, HydrateBase, BeginExecBase, EndExecBase, OtherBase
   DEF Next, CallStep

LEMMA BaseKept == Spec => []BaseInv
BY InitBase, StepBase, PTL DEF Spec

\* Types, and the bookkeeping between the sweeper's variables, whatever the calls do.
THEOREM SandboxTypes == Spec => []TypeOK
<1>1. BaseInv => TypeOK
  BY DEF BaseInv
<1> QED
  BY <1>1, BaseKept, PTL

\* The hydrated flag never hides work nobody does: neither a failed creation, nor an eviction
\* or a cancelled call leaves a scope marked whose files are missing (getInner, evictIdle).
THEOREM HydrationSafe == Spec => []HydrationClaimed
<1>1. BaseInv => HydrationClaimed
  BY DEF BaseInv
<1> QED
  BY <1>1, BaseKept, PTL

--------------------------------------------------------------------------------
LEMMA InitCalm == Init => CalmInv
BY DEF Init, CalmInv, UnderWay, Emptied, NoOrphanSandbox, EverySandboxTracked, CallsHoldLiveSandbox

LEMMA CallCalm ==
    ASSUME Calm, BaseInv, CalmInv, NEW c \in Callers, NEW s \in Scopes, Call(c, s)
    PROVE  CalmInv'
<1> USE DEF BaseInv, CalmInv, TypeOK, maps, calls, sweep
<1>1. UnderWay'
  BY DEF Calm, Call, UnderWay
<1>2. Emptied' /\ NoOrphanSandbox' /\ EverySandboxTracked'
  BY DEF Call, Emptied, NoOrphanSandbox, EverySandboxTracked
<1>3. CallsHoldLiveSandbox'
  BY DEF Call, CallsHoldLiveSandbox
<1> QED
  BY <1>1, <1>2, <1>3

\* The map keeps the executors others hold, and gives this call the one of its scope.
LEMMA ObtainCalm ==
    ASSUME BaseInv, CalmInv, NEW c \in Callers, Obtain(c)
    PROVE  CalmInv'
<1> USE DEF BaseInv, CalmInv, maps, calls, sweep
<1> DEFINE s == scope[c]
<1>1. s \in Scopes /\ s \in tracked \ stale /\ closing = "no" /\ InnerGet(s)
  BY DEF Obtain, CallInv, UnderWay
<1> HIDE DEF s
<1>2. /\ slot' \in [Scopes -> Executors \cup {NoExecutor}] /\ slot'[s] = Sandbox(s) /\ slot'[s] \in Executors
      /\ \A t \in Scopes : slot[t] # NoExecutor \/ t # s => slot'[t] = slot[t]
      /\ running' \subseteq running \cup {slot'[s]}
  BY <1>1, InnerGetKeeps
<1>3. /\ pc' = [pc EXCEPT ![c] = IF c \in needs THEN "hydrate" ELSE "use"]
      /\ held' = [held EXCEPT ![c] = Sandbox(s)] /\ pc[c] = "get" /\ scope[c] = s
      /\ UNCHANGED <<tracked, stale, hydrated, scope, sweeper, evicting, flushed, closing>>
  BY DEF Obtain, s
<1>4. UnderWay'
  BY <1>3 DEF UnderWay, TypeOK
<1>5. Emptied'
  BY <1>1, <1>3 DEF Emptied
<1>6. NoOrphanSandbox'
  <2> SUFFICES ASSUME NEW e \in running' PROVE \E t \in Scopes : slot'[t] = e
    BY DEF NoOrphanSandbox
  <2>1. CASE e = slot'[s]
    BY <2>1, <1>1
  <2>2. CASE e \in running
    <3>1. PICK t \in Scopes : slot[t] = e
      BY <2>2 DEF NoOrphanSandbox
    <3>2. slot[t] # NoExecutor
      BY <3>1, <2>2, SandboxAssumption DEF TypeOK
    <3> QED
      BY <3>1, <3>2, <1>2
  <2> QED
    BY <2>1, <2>2, <1>2
<1>7. EverySandboxTracked'
  BY <1>1, <1>2, <1>3 DEF EverySandboxTracked
<1>8. CallsHoldLiveSandbox'
  <2> SUFFICES ASSUME NEW d \in Callers, pc'[d] \in Working PROVE slot'[scope'[d]] = held'[d]
    BY DEF CallsHoldLiveSandbox, Working
  <2>1. CASE d = c
    BY <2>1, <1>2, <1>3 DEF TypeOK
  <2>2. CASE d # c
    <3>1. pc[d] \in Working /\ held'[d] = held[d] /\ scope'[d] = scope[d]
      BY <2>2, <1>3 DEF TypeOK
    <3>2. scope[d] \in Scopes /\ slot[scope[d]] = held[d] /\ held[d] \in Executors
      BY <3>1 DEF CallsHoldLiveSandbox, CallInv, Working
    <3> QED
      BY <3>1, <3>2, <1>2, SandboxAssumption
  <2> QED
    BY <2>1, <2>2
<1> QED
  BY <1>4, <1>5, <1>6, <1>7, <1>8

\* A call creates a container only for the executor of its scope.
LEMMA UseCalm ==
    ASSUME BaseInv, CalmInv, NEW c \in Callers, Hydrate(c) \/ BeginExec(c)
    PROVE  CalmInv'
<1> USE DEF BaseInv, CalmInv, maps, calls, sweep
<1>1. /\ pc[c] \in {"hydrate", "use"} /\ pc' \in {[pc EXCEPT ![c] = "use"], [pc EXCEPT ![c] = "exec"]}
      /\ running' \in {running, running \cup {held[c]}}
      /\ UNCHANGED <<tracked, stale, slot, scope, held, sweeper, evicting, flushed, closing>>
  BY DEF Hydrate, BeginExec
<1>2. scope[c] \in Scopes /\ slot[scope[c]] = held[c] /\ closing = "no"
  BY <1>1 DEF CallsHoldLiveSandbox, CallInv, UnderWay
<1>3. UnderWay'
  BY <1>1 DEF UnderWay, TypeOK
<1>4. Emptied' /\ NoOrphanSandbox' /\ EverySandboxTracked'
  BY <1>1, <1>2 DEF Emptied, NoOrphanSandbox, EverySandboxTracked
<1>5. CallsHoldLiveSandbox'
  BY <1>1 DEF CallsHoldLiveSandbox, TypeOK
<1> QED
  BY <1>3, <1>4, <1>5

LEMMA QuitCalm ==
    ASSUME BaseInv, CalmInv, NEW c \in Callers, ObtainFails(c) \/ EndExec(c) \/ CancelExec(c)
    PROVE  CalmInv'
<1> USE DEF BaseInv, CalmInv, maps, calls, sweep
<1>1. /\ pc' = [pc EXCEPT ![c] = "idle"] /\ scope' = [scope EXCEPT ![c] = NoScope]
      /\ held' = [held EXCEPT ![c] = NoExecutor]
      /\ UNCHANGED <<tracked, stale, slot, running, sweeper, evicting, flushed, closing>>
  BY DEF ObtainFails, EndExec, CancelExec, Quit
<1>2. UnderWay' /\ CallsHoldLiveSandbox'
  BY <1>1 DEF UnderWay, CallsHoldLiveSandbox, TypeOK
<1>3. Emptied' /\ NoOrphanSandbox' /\ EverySandboxTracked'
  BY <1>1 DEF Emptied, NoOrphanSandbox, EverySandboxTracked
<1> QED
  BY <1>2, <1>3

\* What is evicted nobody is using, and what is released goes from map and machine at once.
LEMMA SweepCalm ==
    ASSUME BaseInv, CalmInv, SweepStep
    PROVE  CalmInv'
<1> USE DEF BaseInv, CalmInv, maps, calls, sweep
<1>1. CASE EvictScan
  <2>1. UnderWay'
    BY <1>1 DEF EvictScan, Expired, UnderWay
  <2>2. EverySandboxTracked'
    BY <1>1 DEF EvictScan, Expired, EverySandboxTracked, SweeperInv
  <2> QED
    BY <1>1, <2>1, <2>2 DEF EvictScan, Emptied, NoOrphanSandbox, CallsHoldLiveSandbox
<1>2. ASSUME NEW s \in Scopes, EvictFlush(s) PROVE CalmInv'
  <2>1. /\ UNCHANGED <<tracked, stale, pc, scope, held, sweeper, evicting, closing>>
        /\ s \in evicting /\ sweeper = "evict"
    BY <1>2 DEF EvictFlush
  <2>2. CASE UNCHANGED <<slot, running>>
    BY <2>1, <2>2 DEF UnderWay, Emptied, NoOrphanSandbox, EverySandboxTracked, CallsHoldLiveSandbox
  <2>3. CASE InnerGet(s)
    <3>1. /\ slot' \in [Scopes -> Executors \cup {NoExecutor}] /\ slot'[s] \in Executors
          /\ \A t \in Scopes : slot[t] # NoExecutor \/ t # s => slot'[t] = slot[t]
          /\ running' \subseteq running \cup {slot'[s]}
      BY <2>3, InnerGetKeeps
    <3>2. UnderWay' /\ Emptied'
      BY <2>1 DEF UnderWay, Emptied
    <3>3. NoOrphanSandbox'
      BY <3>1, SandboxAssumption DEF NoOrphanSandbox, TypeOK
    <3>4. EverySandboxTracked'
      BY <2>1, <3>1 DEF EverySandboxTracked
    <3>5. CallsHoldLiveSandbox'
      BY <2>1, <3>1, SandboxAssumption DEF CallsHoldLiveSandbox, CallInv, Working
    <3> QED
      BY <3>2, <3>3, <3>4, <3>5
  <2> QED
    BY <1>2, <2>2, <2>3 DEF EvictFlush
<1>3. CASE EvictRelease
  <2>1. /\ flushed \in Scopes /\ flushed \in evicting /\ sweeper = "evict"
        /\ slot' = [slot EXCEPT ![flushed] = NoExecutor] /\ running' = running \ {slot[flushed]}
        /\ evicting' = evicting \ {flushed}
        /\ UNCHANGED <<tracked, stale, pc, scope, held, closing>>
    BY <1>3 DEF EvictRelease, Release, TypeOK, SweeperInv
  <2>2. UnderWay' /\ Emptied'
    BY <2>1 DEF UnderWay, Emptied
  <2>3. NoOrphanSandbox'
    BY <2>1 DEF NoOrphanSandbox, TypeOK
  <2>4. EverySandboxTracked'
    BY <2>1 DEF EverySandboxTracked, TypeOK
  <2>5. CallsHoldLiveSandbox'
    BY <2>1 DEF CallsHoldLiveSandbox, UnderWay, TypeOK, CallInv
  <2> QED
    BY <2>2, <2>3, <2>4, <2>5
<1>4. CASE SweeperStops
  BY <1>4 DEF SweeperStops, UnderWay, Emptied, NoOrphanSandbox, EverySandboxTracked, CallsHoldLiveSandbox
<1> QED
  BY <1>1, <1>2, <1>3, <1>4 DEF SweepStep

LEMMA OtherCalm ==
    ASSUME Calm, BaseInv, CalmInv,
           \/ \E e \in Executors : WatcherCloses(e)
           \/ \E s \in Scopes : GoStale(s)
           \/ CloseAllBegins \/ CloseStep \/ UNCHANGED vars
    PROVE  CalmInv'
<1> USE DEF BaseInv, CalmInv, maps, calls, sweep
<1>1. ASSUME NEW e \in Executors, WatcherCloses(e) PROVE CalmInv'
  BY <1>1 DEF WatcherCloses, UnderWay, Emptied, NoOrphanSandbox, EverySandboxTracked, CallsHoldLiveSandbox
<1>2. ASSUME NEW s \in Scopes, GoStale(s) PROVE CalmInv'
  <2>1. UnderWay'
    BY <1>2 DEF Calm, GoStale, CallsOn, UnderWay
  <2> QED
    BY <1>2, <2>1 DEF GoStale, Emptied, NoOrphanSandbox, EverySandboxTracked, CallsHoldLiveSandbox
<1>3. CASE CloseAllBegins
  BY <1>3 DEF Calm, CloseAllBegins, UnderWay, Emptied, NoOrphanSandbox, EverySandboxTracked, CallsHoldLiveSandbox
<1>4. CASE CloseInner
  <2>1. \A c \in Callers : pc[c] = "idle"
    BY <1>4 DEF CloseInner, UnderWay
  <2>2. running' = {} /\ \A s \in Scopes : slot'[s] = NoExecutor
    BY <1>4 DEF CloseInner, CloseEveryExecutor, NoOrphanSandbox
  <2> QED
    BY <1>4, <2>1, <2>2 DEF CloseInner, UnderWay, Emptied, NoOrphanSandbox, EverySandboxTracked, CallsHoldLiveSandbox
<1>5. CASE ClearMaps
  <2>1. \A c \in Callers : pc[c] = "idle"
    BY <1>5 DEF ClearMaps, UnderWay
  <2> QED
    BY <1>5, <2>1 DEF ClearMaps, UnderWay, Emptied, NoOrphanSandbox, EverySandboxTracked, CallsHoldLiveSandbox
<1>6. CASE UNCHANGED vars
  BY <1>6 DEF vars, UnderWay, Emptied, NoOrphanSandbox, EverySandboxTracked, CallsHoldLiveSandbox
<1> QED
  BY <1>1, <1>2, <1>3, <1>4, <1>5, <1>6 DEF CloseStep

LEMMA StepCalm == Calm /\ BaseInv /\ CalmInv /\ [Next]_vars => CalmInv'
BY CallCalm, ObtainCalm, UseCalm, QuitCalm, SweepCalm, OtherCalm DEF Next, CallStep

LEMMA CalmKept ==
    ASSUME Calm
    PROVE  Spec => []CalmInv
<1>1. BaseInv /\ CalmInv /\ [Next]_vars => CalmInv'
  BY StepCalm
<1> QED
  BY <1>1, InitCalm, BaseKept, PTL DEF Spec

\* No container outlives the map that knows it, so that eviction or CloseAll finds it.
THEOREM NoContainerLeaks ==
    ASSUME Calm
    PROVE  Spec => []NoOrphanSandbox
<1>1. CalmInv => NoOrphanSandbox
  BY DEF CalmInv
<1> QED
  BY <1>1, CalmKept, PTL

\* The sweeper knows every scope that owns a sandbox, so idle eviction misses none.
THEOREM SweeperMissesNothing ==
    ASSUME Calm
    PROVE  Spec => []EverySandboxTracked
<1>1. CalmInv => EverySandboxTracked
  BY DEF CalmInv
<1> QED
  BY <1>1, CalmKept, PTL

\* A call works in the sandbox of its scope from getInner to its end.
THEOREM CallsKeepSandbox ==
    ASSUME Calm
    PROVE  Spec => []CallsHoldLiveSandbox
<1>1. CalmInv => CallsHoldLiveSandbox
  BY DEF CalmInv
<1> QED
  BY <1>1, CalmKept, PTL

\* When CloseAll has returned nothing runs, wherever the sweeper was when it was called.
THEOREM ShutdownLeavesNothing ==
    ASSUME Calm
    PROVE  Spec => []ShutdownComplete
<1>1. CalmInv => ShutdownComplete
  BY DEF CalmInv, Emptied, ShutdownComplete
<1> QED
  BY <1>1, CalmKept, PTL

=============================================================================
