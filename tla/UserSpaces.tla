-------------------------------- MODULE UserSpaces --------------------------------
(***************************************************************************)
(* internal/gateway/userspace.go and reload.go with the handlers that use  *)
(* them: the registry of loaded user spaces.                               *)
(*                                                                         *)
(* A space is a snapshot of a user's rows, made at the first access and    *)
(* kept until a handler that wrote a row invalidates it or nobody asked    *)
(* for it in half an hour.  A write is a row written by an HTTP handler;   *)
(* it concerns one user, or all when its scope is system.  Requests and    *)
(* writers run concurrently.                                               *)
(***************************************************************************)
EXTENDS Integers, Sequences, FiniteSets

CONSTANTS
    Users,
    Requests,       (* goroutines that resolve an agent, each one once       *)
    Own,            (* user -> agents of that user                           *)
    Wanted,         (* request -> <<user, agent>>                            *)
    Admins,         (* users with the role super_admin                       *)
    Scopes,         (* write -> the set of users it concerns                 *)
    MaxBuilt        (* bound on the spaces built                             *)

\* Requests and scopes speak of known users.
ASSUME SpacesAssumption ==
    /\ \A r \in Requests : Wanted[r][1] \in Users
    /\ \A w \in DOMAIN Scopes : Scopes[w] \subseteq Users
    /\ "nobody" \notin Requests

VARIABLES
    spaces,         (* userSpaceRegistry.spaces: user -> a space or 0        *)
    unused,         (* users whose lastUsed is older than idleTTL            *)
    loader,         (* the request that holds the registry's lock, or none   *)
    built,          (* the spaces built so far: user, writes seen, agents    *)
    dropped,        (* spaces taken out by an invalidation or an eviction    *)
    req,            (* request -> where it is, what it holds                 *)
    written,        (* writes that are in the database                       *)
    reloading,      (* write -> users whose space is still to be dropped     *)
    settled         (* writes whose handler has returned                     *)

registry == <<spaces, unused, loader, built, dropped>>
writers  == <<written, reloading, settled>>
vars     == <<registry, req, writers>>

Writes  == DOMAIN Scopes
NoSpace == 0
NoOne   == "nobody"
Idle    == [pc |-> "idle", space |-> NoSpace, saw |-> {}, floor |-> {}, again |-> FALSE]
Over    == [Idle EXCEPT !.pc = "over"]

UserOf(r)  == Wanted[r][1]
AgentOf(r) == Wanted[r][2]
Concern(u, W) == {w \in W : u \in Scopes[w]}

Init ==
    /\ spaces = [u \in Users |-> NoSpace] /\ unused = {} /\ loader = NoOne
    /\ built = <<>> /\ dropped = {}
    /\ req = [r \in Requests |-> Idle]
    /\ written = {} /\ reloading = [w \in Writes |-> {}] /\ settled = {}

----------------------------------------------------------------------------------
(***************************************************************************)
(* getOrLoad.                                                              *)
(***************************************************************************)
\* A request needs the space of its user: resolveAgent, a task, a webhook.
Ask(r) ==
    /\ req[r].pc = "idle"
    /\ req' = [req EXCEPT ![r] = [Idle EXCEPT !.pc = "get", !.floor = Concern(UserOf(r), settled)]]
    /\ UNCHANGED <<registry, writers>>

\* The request has a space; the second time it only injects.
Holding(r, s) ==
    IF req[r].again THEN [req[r] EXCEPT !.pc = "inject", !.saw = {s}]
    ELSE [req[r] EXCEPT !.pc = "have", !.space = s]

\* get: the entry if there is one, and its lastUsed.
Get(r) ==
    /\ req[r].pc = "get" /\ loader = NoOne
    /\ IF spaces[UserOf(r)] # NoSpace
       THEN /\ req' = [req EXCEPT ![r] = Holding(r, spaces[UserOf(r)])]
            /\ unused' = unused \ {UserOf(r)}
       ELSE /\ req' = [req EXCEPT ![r].pc = "lock"]
            /\ UNCHANGED unused
    /\ UNCHANGED <<spaces, loader, built, dropped, writers>>

\* Faulty variant: the look before the lock is the only one.
LockOnly(r) ==
    /\ req[r].pc = "lock" /\ loader = NoOne
    /\ req' = [req EXCEPT ![r].pc = "load", ![r].saw = Concern(UserOf(r), written)]
    /\ loader' = r
    /\ UNCHANGED <<spaces, unused, built, dropped, writers>>

\* The lock, and a second look: another request may have loaded the space.
Lock(r) ==
    /\ req[r].pc = "lock" /\ loader = NoOne
    /\ IF spaces[UserOf(r)] # NoSpace
       THEN /\ req' = [req EXCEPT ![r] = Holding(r, spaces[UserOf(r)])]
            /\ unused' = unused \ {UserOf(r)}
            /\ UNCHANGED loader
       ELSE /\ req' = [req EXCEPT ![r].pc = "load", ![r].saw = Concern(UserOf(r), written)]
            /\ loader' = r
            /\ UNCHANGED unused
    /\ UNCHANGED <<spaces, built, dropped, writers>>

\* loadUserSpace has read the rows at the time of Lock or later, built the agents
\* and, with a sandbox configured, one pool for all of them.
Load(r) ==
    LET u == UserOf(r)
    IN  /\ req[r].pc = "load"
        /\ Len(built) < MaxBuilt
        /\ built' = Append(built, [user |-> u, saw |-> req[r].saw, agents |-> Own[u]])
        /\ spaces' = [spaces EXCEPT ![u] = Len(built')]
        /\ unused' = unused \ {u}
        /\ loader' = NoOne
        /\ req' = [req EXCEPT ![r] = Holding(r, Len(built'))]
        /\ UNCHANGED <<dropped, writers>>

\* A row cannot be read or does not parse; nothing is kept.
LoadFails(r) ==
    /\ req[r].pc = "load"
    /\ loader' = NoOne
    /\ req' = [req EXCEPT ![r] = Over]
    /\ UNCHANGED <<spaces, unused, built, dropped, writers>>

----------------------------------------------------------------------------------
(***************************************************************************)
(* resolveAgent and EnsureAgent.                                           *)
(***************************************************************************)
\* The agent is in the space, or cannot be; a super admin has an agent of
\* somebody else injected, into whatever space the registry gives then.
FindAgent(r) ==
    /\ req[r].pc = "have"
    /\ IF AgentOf(r) \notin built[req[r].space].agents /\ UserOf(r) \in Admins
       THEN req' = [req EXCEPT ![r].pc = "get", ![r].again = TRUE]
       ELSE req' = [req EXCEPT ![r].pc = "done"]
    /\ UNCHANGED <<registry, writers>>

\* UserSpace.EnsureAgent, under the lock of the space.
EnsureAgent(r) ==
    LET s == CHOOSE x \in req[r].saw : TRUE
    IN  /\ req[r].pc = "inject"
        /\ built' = [built EXCEPT ![s].agents = @ \cup {AgentOf(r)}]
        /\ req' = [req EXCEPT ![r].pc = "done"]
        /\ UNCHANGED <<spaces, unused, loader, dropped, writers>>

\* The agent has been deleted meanwhile.
EnsureFails(r) ==
    /\ req[r].pc = "inject"
    /\ req' = [req EXCEPT ![r] = Over]
    /\ UNCHANGED <<registry, writers>>

\* The caller is done with the space it held.
Finish(r) ==
    /\ req[r].pc = "done"
    /\ req' = [req EXCEPT ![r] = Over]
    /\ UNCHANGED <<registry, writers>>

----------------------------------------------------------------------------------
(***************************************************************************)
(* What takes spaces out of the registry.                                  *)
(***************************************************************************)
RowWritten(w) ==
    /\ w \notin written
    /\ written' = written \cup {w}
    /\ UNCHANGED <<registry, req, reloading, settled>>

\* invalidateScope: the one user, or for a system row all users that have a space
\* at this moment (userSpaceRegistry.all).
InvalidateScope(w) ==
    /\ w \in written \ settled /\ reloading[w] = {} /\ loader = NoOne
    /\ LET todo == IF Scopes[w] = Users THEN {u \in Users : spaces[u] # NoSpace} ELSE Scopes[w]
       IN  /\ reloading' = [reloading EXCEPT ![w] = todo]
           /\ settled' = IF todo = {} THEN settled \cup {w} ELSE settled
    /\ UNCHANGED <<registry, req, written>>

\* InvalidateUser: agents that run in the space go on, its pool stays open.
Invalidate(w, u) ==
    /\ u \in reloading[w] /\ loader = NoOne
    /\ spaces' = [spaces EXCEPT ![u] = NoSpace]
    /\ dropped' = dropped \cup ({spaces[u]} \ {NoSpace})
    /\ unused' = unused \ {u}
    /\ reloading' = [reloading EXCEPT ![w] = @ \ {u}]
    /\ settled' = IF reloading'[w] = {} THEN settled \cup {w} ELSE settled
    /\ UNCHANGED <<loader, built, req, written>>

GoesUnused(u) ==
    /\ spaces[u] # NoSpace /\ u \notin unused
    /\ unused' = unused \cup {u}
    /\ UNCHANGED <<spaces, loader, built, dropped, req, writers>>

\* lastUsed says when the space was last asked for, not that nobody uses it.
EvictIdle ==
    /\ unused # {} /\ loader = NoOne
    /\ spaces' = [u \in Users |-> IF u \in unused THEN NoSpace ELSE spaces[u]]
    /\ dropped' = dropped \cup {spaces[u] : u \in unused}
    /\ unused' = {}
    /\ UNCHANGED <<loader, built, req, writers>>

Next ==
    \/ \E r \in Requests :
        \/ Ask(r) \/ Get(r) \/ Lock(r) \/ Load(r) \/ LoadFails(r)
        \/ FindAgent(r) \/ EnsureAgent(r) \/ EnsureFails(r) \/ Finish(r)
    \/ \E w \in Writes : RowWritten(w) \/ InvalidateScope(w) \/ \E u \in Users : Invalidate(w, u)
    \/ \E u \in Users : GoesUnused(u)
    \/ EvictIdle

Spec == Init /\ [][Next]_vars

----------------------------------------------------------------------------------

TypeOK ==
    /\ spaces \in [Users -> 0 .. Len(built)]
    /\ unused \subseteq {u \in Users : spaces[u] # NoSpace}
    /\ loader \in Requests \cup {NoOne}
    /\ dropped \subseteq 1 .. Len(built)
    /\ \A r \in Requests : req[r].pc \in {"idle", "get", "lock", "load", "have", "inject", "done", "over"}
    /\ settled \subseteq written /\ written \subseteq Writes

\* A write's handler has returned: whoever asks for a space from now on gets one
\* that has seen it, whatever loads and invalidations were under way.
SeesSettledWrites ==
    \A r \in Requests : req[r].space # NoSpace => req[r].floor \subseteq built[req[r].space].saw

\* No space, and with it no sandbox pool, is lost because two requests loaded it
\* at once: it is registered until somebody drops it.
NoSpaceLost == \A s \in 1 .. Len(built) : s \in dropped \/ spaces[built[s].user] = s

\* A super admin's request for a foreign agent finds the agent in the space it
\* holds, unless that space was dropped before the agent was injected.
InjectedAgentFound ==
    \A r \in Requests :
        req[r].pc = "done" /\ UserOf(r) \in Admins =>
            AgentOf(r) \in built[req[r].space].agents \/ req[r].space \in dropped

SpacesKept == SeesSettledWrites /\ NoSpaceLost /\ InjectedAgentFound

==================================================================================
