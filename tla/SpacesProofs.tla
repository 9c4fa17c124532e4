------------------------------ MODULE SpacesProofs ------------------------------
(***************************************************************************)
(* User spaces and what the agents in them work with, for all values of    *)
(* the constants: the registry of spaces (UserSpaces), the files of an     *)
(* agent (AgentFiles) and its skills on replicas and in layers (Skills,    *)
(* SkillLayers).  The last theorem (TypesStayOK) is about all components   *)
(* of Services, and takes the others from CallersProofs and ServicesProofs *)
(***************************************************************************)
EXTENDS CallersProofs, ServicesProofs

--------------------------------------------------------------------------------
(***************************************************************************)
(* UserSpaces.  The registry keeps its promises (SpacesKept), for any      *)
(* number of users, requests and writes, any scopes and any interleaving.  *)
(*                                                                         *)
(* A space may lack a write that is in the database; what the registry     *)
(* owes is that such a write has not settled, and will take the space out  *)
(* before it does.  This is UpToDate, for the registered spaces and for    *)
(* the one being loaded; the others say who holds what.                    *)
(***************************************************************************)
\* The requests and scopes are about known users, and no request is the null one.
Parameters ==
    /\ NoOne \notin Requests
    /\ \A r \in Requests : UserOf(r) \in Users
    /\ \A w \in Writes : Scopes[w] \subseteq Users

Agents == (UNION {Own[u] : u \in Users}) \cup {AgentOf(r) : r \in Requests}
Space  == [user : Users, saw : SUBSET Writes, agents : SUBSET Agents]
Place  == {"idle", "get", "lock", "load", "have", "inject", "done", "over"}
Request == [pc : Place, space : Nat, saw : SUBSET (Writes \cup Nat),
            floor : SUBSET Writes, again : BOOLEAN]

Typed ==
    /\ spaces \in [Users -> Nat]
    /\ built \in Seq(Space)
    /\ req \in [Requests -> Request]
    /\ reloading \in [Writes -> SUBSET Users]
    /\ written \subseteq Writes
    /\ settled \subseteq written

\* A registered space is one that was built, for that user.
Built(s, u) == s \in 1 .. Len(built) /\ built[s].user = u
Registered  == \A u \in Users : spaces[u] # NoSpace => Built(spaces[u], u)

\* One request loads at a time, and only a user without a space.
Loading ==
    \A r \in Requests :
        req[r].pc = "load" => loader = r /\ spaces[UserOf(r)] = NoSpace

\* Only a write under way has users to invalidate.
Unbegun == \A w \in Writes : reloading[w] # {} => w \in written \ settled

\* The handler of w is still going to take out the space of u.
Owed(w, u) == w \notin settled /\ (reloading[w] = {} \/ u \in reloading[w])
UpToDate(u, saw) == \A w \in Concern(u, written) : w \in saw \/ Owed(w, u)

SpacesUpToDate ==
    \A u \in Users : spaces[u] # NoSpace => UpToDate(u, built[spaces[u]].saw)
LoadsUpToDate ==
    \A r \in Requests : req[r].pc = "load" => /\ UpToDate(UserOf(r), req[r].saw)
                                              /\ req[r].saw \subseteq Writes

\* What a request may count on is settled; the space it holds was built for its user.
Floors == \A r \in Requests : req[r].floor \subseteq Concern(UserOf(r), settled)
Holds(r) == req[r].pc \in {"have", "inject", "done"} \/ req[r].again
Held    == \A r \in Requests : Holds(r) => req[r].space # NoSpace
Carried == \A r \in Requests : req[r].space # NoSpace => Built(req[r].space, UserOf(r))

\* An agent is injected into the space the request holds, unless that was dropped.
Injecting ==
    \A r \in Requests :
        req[r].pc = "inject" =>
            \E s \in 1 .. Len(built) : /\ req[r].saw = {s}
                                       /\ s = req[r].space \/ req[r].space \in dropped

Inv ==
    /\ Typed /\ Registered /\ Loading /\ SpacesUpToDate /\ LoadsUpToDate
    /\ Unbegun /\ Floors /\ Held /\ Carried /\ Injecting
    /\ SeesSettledWrites /\ NoSpaceLost /\ InjectedAgentFound

--------------------------------------------------------------------------------
LEMMA InvInit == ASSUME Parameters PROVE Init => Inv
<1> SUFFICES ASSUME Init PROVE Inv
    OBVIOUS
<1>1. Typed
    BY DEF Init, Typed, Idle, Request, Place, NoSpace
<1>2. \A r \in Requests : req[r] = Idle
    BY DEF Init
<1>3. Registered /\ SpacesUpToDate /\ NoSpaceLost /\ Unbegun
    BY DEF Init, Registered, SpacesUpToDate, NoSpaceLost, Unbegun
<1>4. Loading /\ LoadsUpToDate /\ Held /\ Carried /\ Injecting
    BY <1>2 DEF Idle, Loading, LoadsUpToDate, Held, Holds, Carried, Injecting
<1>5. Floors /\ SeesSettledWrites /\ InjectedAgentFound
    BY <1>2 DEF Idle, Floors, SeesSettledWrites, InjectedAgentFound
<1> QED
    BY <1>1, <1>3, <1>4, <1>5 DEF Inv

(***************************************************************************)
(* Requests.                                                               *)
(***************************************************************************)

\* A request that does not load or hold anything new.
LEMMA Moves ==
    ASSUME Parameters, Inv, NEW r \in Requests,
           UNCHANGED <<spaces, built, dropped, written, reloading, settled>>,
           NEW x \in Request, req' = [req EXCEPT ![r] = x],
           loader' = loader \/ req[r].pc = "load",
           x.pc \notin {"load", "inject"},
           x.floor \subseteq Concern(UserOf(r), settled),
           \/ x.space = req[r].space /\ x.floor = req[r].floor
           \/ x.space = NoSpace,
           x.pc \in {"have", "done"} \/ x.again => x.space # NoSpace,
           x.pc = "done" /\ UserOf(r) \in Admins =>
               AgentOf(r) \in built[x.space].agents \/ x.space \in dropped
    PROVE  Inv'
<1>1. req'[r] = x /\ \A q \in Requests : q # r => req'[q] = req[q]
    BY DEF Inv, Typed
<1>2. Typed'
    BY DEF Inv, Typed
<1>3. Registered' /\ SpacesUpToDate' /\ NoSpaceLost' /\ Unbegun'
    BY DEF Inv, Registered, Built, SpacesUpToDate, UpToDate, Owed, NoSpaceLost, Unbegun
<1>4. Loading' /\ LoadsUpToDate'
    BY <1>1 DEF Inv, Loading, LoadsUpToDate, UpToDate, Owed
<1>5. Floors' /\ Held' /\ Carried' /\ Injecting'
    BY <1>1 DEF Inv, Floors, Held, Holds, Carried, Built, Injecting
<1>6. SeesSettledWrites' /\ InjectedAgentFound'
    BY <1>1 DEF Inv, SeesSettledWrites, InjectedAgentFound
<1> QED
    BY <1>2, <1>3, <1>4, <1>5, <1>6 DEF Inv

\* A request gets the registered space s of its user.
LEMMA GetsRegistered ==
    ASSUME Parameters, Inv, NEW r \in Requests, req[r].pc # "load",
           UNCHANGED <<spaces, built, dropped, loader, written, reloading, settled>>,
           spaces[UserOf(r)] # NoSpace,
           req' = [req EXCEPT ![r] = Holding(r, spaces[UserOf(r)])]
    PROVE  Inv'
<1> DEFINE s == spaces[UserOf(r)]
<1>1. req'[r] = Holding(r, s) /\ \A q \in Requests : q # r => req'[q] = req[q]
    BY DEF Inv, Typed
<1>2. Built(s, UserOf(r)) /\ s \in Nat /\ req[r] \in Request
    BY DEF Inv, Typed, Registered, Parameters
<1>3. req[r].floor \subseteq built[s].saw
    <2>1. UpToDate(UserOf(r), built[s].saw)
        BY DEF Inv, SpacesUpToDate, Parameters
    <2>2. req[r].floor \subseteq settled /\ req[r].floor \subseteq Concern(UserOf(r), written)
        BY DEF Inv, Typed, Floors, Concern
    <2> QED
        BY <2>1, <2>2 DEF UpToDate, Owed
<1>4. req[r].again => req[r].space = s \/ req[r].space \in dropped
    BY DEF Inv, Held, Holds, Carried, Built, NoSpaceLost
<1> HIDE DEF s
<1>5. /\ Holding(r, s) \in Request
      /\ Holding(r, s).floor = req[r].floor
      /\ req[r].again => Holding(r, s).pc = "inject" /\ Holding(r, s).saw = {s}
                         /\ Holding(r, s).space = req[r].space
      /\ ~req[r].again => Holding(r, s).pc = "have" /\ Holding(r, s).space = s
                          /\ ~Holding(r, s).again
    BY <1>2 DEF Holding, Request, Place
<1>6. Typed'
    BY <1>5 DEF Inv, Typed, s
<1>7. Registered' /\ SpacesUpToDate' /\ NoSpaceLost' /\ Unbegun'
    BY DEF Inv, Registered, Built, SpacesUpToDate, UpToDate, Owed, NoSpaceLost, Unbegun
<1>8. Loading' /\ LoadsUpToDate'
    BY <1>1, <1>5 DEF Inv, Loading, LoadsUpToDate, UpToDate, Owed
<1>9. Floors' /\ Held' /\ Carried'
    BY <1>1, <1>2, <1>5 DEF Inv, Floors, Held, Holds, Carried, Built, NoSpace
<1>10. Injecting'
    BY <1>1, <1>2, <1>4, <1>5 DEF Inv, Injecting, Built
<1>11. SeesSettledWrites' /\ InjectedAgentFound'
    BY <1>1, <1>3, <1>5 DEF Inv, SeesSettledWrites, InjectedAgentFound
<1> QED
    BY <1>6, <1>7, <1>8, <1>9, <1>10, <1>11 DEF Inv

\* The lock, and no space yet: what is written by now will be seen.
LEMMA StartsLoading ==
    ASSUME Parameters, Inv, NEW r \in Requests, loader = NoOne, spaces[UserOf(r)] = NoSpace,
           NEW x \in Request, req' = [req EXCEPT ![r] = x],
           x.pc = "load", x.saw = Concern(UserOf(r), written),
           x.space = req[r].space, x.floor = req[r].floor, x.again = req[r].again,
           loader' = r,
           UNCHANGED <<spaces, built, dropped, written, reloading, settled>>
    PROVE  Inv'
<1>1. req'[r] = x /\ \A q \in Requests : q # r => req'[q] = req[q]
    BY DEF Inv, Typed
<1>2. Typed'
    BY DEF Inv, Typed
<1>3. Registered' /\ SpacesUpToDate' /\ NoSpaceLost' /\ Unbegun'
    BY DEF Inv, Registered, Built, SpacesUpToDate, UpToDate, Owed, NoSpaceLost, Unbegun
<1>4. Loading'
    BY <1>1 DEF Inv, Loading, Parameters
<1>5. LoadsUpToDate'
    <2>1. x.saw \subseteq Writes
        BY DEF Inv, Typed, Concern
    <2> QED
        BY <1>1, <2>1 DEF Inv, LoadsUpToDate, UpToDate, Owed
<1>6. Floors' /\ Held' /\ Carried' /\ Injecting'
    BY <1>1 DEF Inv, Floors, Held, Holds, Carried, Built, Injecting
<1>7. SeesSettledWrites' /\ InjectedAgentFound'
    BY <1>1 DEF Inv, SeesSettledWrites, InjectedAgentFound
<1> QED
    BY <1>2, <1>3, <1>4, <1>5, <1>6, <1>7 DEF Inv

\* The new space is up to date and registered; the one the request may hold
\* already is dropped, since none was registered.
LEMMA Loads ==
    ASSUME Parameters, Inv, NEW r \in Requests, Load(r)
    PROVE  Inv'
<1> DEFINE u == UserOf(r)
           n == Len(built) + 1
           new == [user |-> u, saw |-> req[r].saw, agents |-> Own[u]]
<1>1. /\ u \in Users /\ spaces[u] = NoSpace /\ loader = r /\ req[r] \in Request
      /\ req[r].pc = "load" /\ n \in Nat \ {0} /\ new \in Space
      /\ UpToDate(u, req[r].saw) /\ u = UserOf(r)
      /\ req[r].floor \subseteq Concern(u, settled)
    <2>1. req[r].pc = "load"
        BY DEF Load
    <2>2. u \in Users /\ spaces[u] = NoSpace /\ loader = r
        BY <2>1 DEF Inv, Loading, Parameters
    <2>3. UpToDate(u, req[r].saw) /\ req[r].saw \subseteq Writes
        BY <2>1 DEF Inv, LoadsUpToDate
    <2>4. new \in Space
        BY <2>2, <2>3 DEF Space, Agents
    <2> QED
        BY <2>1, <2>2, <2>3, <2>4 DEF Inv, Typed, Floors
<1>2. \A q \in Requests : q # r => req[q].pc # "load"
    BY <1>1 DEF Inv, Loading
<1>3. /\ Len(built') = n /\ built'[n] = new /\ built' \in Seq(Space)
      /\ \A i \in 1 .. Len(built) : built'[i] = built[i]
    BY <1>1 DEF Inv, Typed, Load
<1>4. req[r].floor \subseteq req[r].saw
    <2>1. req[r].floor \subseteq settled /\ req[r].floor \subseteq Concern(u, written)
        BY <1>1 DEF Inv, Typed, Concern
    <2> QED
        BY <1>1, <2>1 DEF UpToDate, Owed
<1>5. req[r].again => req[r].space \in dropped
    BY <1>1 DEF Inv, Held, Holds, Carried, Built, NoSpaceLost
<1> HIDE DEF new
<1>6. /\ spaces' = [spaces EXCEPT ![u] = n] /\ req' = [req EXCEPT ![r] = Holding(r, n)]
      /\ UNCHANGED <<dropped, written, reloading, settled>>
    BY <1>3 DEF Load, writers
<1> HIDE DEF n, u
<1>7. /\ Holding(r, n) \in Request
      /\ Holding(r, n).floor = req[r].floor
      /\ req[r].again => Holding(r, n).pc = "inject" /\ Holding(r, n).saw = {n}
                         /\ Holding(r, n).space = req[r].space
      /\ ~req[r].again => Holding(r, n).pc = "have" /\ Holding(r, n).space = n
                          /\ ~Holding(r, n).again
    BY <1>1 DEF Holding, Request, Place
<1>8. req'[r] = Holding(r, n) /\ \A q \in Requests : q # r => req'[q] = req[q]
    BY <1>6 DEF Inv, Typed
<1>9. spaces'[u] = n /\ \A v \in Users : v # u => spaces'[v] = spaces[v]
    BY <1>1, <1>6 DEF Inv, Typed
<1>10. \A s, v : Built(s, v) => Built(s, v)' /\ built'[s] = built[s]
    BY <1>3 DEF Inv, Typed, Built, n
<1>11. n \in 1 .. Len(built') /\ built'[n].user = u /\ built'[n].saw = req[r].saw
    BY <1>1, <1>3 DEF new
<1>12. Typed'
    BY <1>1, <1>3, <1>6, <1>7 DEF Inv, Typed
<1>13. Registered'
    <2> SUFFICES ASSUME NEW v \in Users, spaces'[v] # NoSpace
                 PROVE  spaces'[v] \in 1 .. Len(built') /\ built'[spaces'[v]].user = v
        BY DEF Registered, Built
    <2>1. CASE v = u
        BY <2>1, <1>9, <1>11
    <2>2. CASE v # u
        BY <2>2, <1>9, <1>10 DEF Inv, Registered, Built
    <2> QED
        BY <2>1, <2>2
<1>14. SpacesUpToDate'
    <2> SUFFICES ASSUME NEW v \in Users, spaces'[v] # NoSpace
                 PROVE  UpToDate(v, built'[spaces'[v]].saw)
        BY <1>6 DEF SpacesUpToDate, UpToDate, Owed
    <2>1. CASE v = u
        BY <2>1, <1>1, <1>9, <1>11
    <2>2. CASE v # u
        BY <2>2, <1>9, <1>10 DEF Inv, Registered, SpacesUpToDate
    <2> QED
        BY <2>1, <2>2
<1>15. Loading' /\ LoadsUpToDate' /\ Unbegun'
    BY <1>2, <1>6, <1>7, <1>8 DEF Inv, Loading, LoadsUpToDate, Unbegun
<1>16. Floors' /\ Held' /\ Carried'
    <2>1. Floors'
        BY <1>6, <1>7, <1>8 DEF Inv, Floors
    <2>2. Held'
        BY <1>3, <1>7, <1>8 DEF Inv, Held, Holds, NoSpace, n
    <2>3. Carried'
        <3> SUFFICES ASSUME NEW q \in Requests, req'[q].space # NoSpace
                     PROVE  /\ req'[q].space \in 1 .. Len(built')
                            /\ built'[req'[q].space].user = UserOf(q)
            BY DEF Carried, Built
        <3>1. CASE q = r /\ ~req[r].again
            BY <3>1, <1>1, <1>7, <1>8, <1>11
        <3>2. CASE ~(q = r /\ ~req[r].again)
            BY <3>2, <1>7, <1>8, <1>10 DEF Inv, Carried, Built
        <3> QED
            BY <3>1, <3>2
    <2> QED
        BY <2>1, <2>2, <2>3
<1>17. Injecting'
    <2>1. 1 .. Len(built) \subseteq 1 .. Len(built') /\ n \in 1 .. Len(built')
        BY <1>3 DEF Inv, Typed, n
    <2> QED
        BY <2>1, <1>5, <1>6, <1>7, <1>8 DEF Inv, Injecting
<1>18. SeesSettledWrites'
    <2> SUFFICES ASSUME NEW q \in Requests, req'[q].space # NoSpace
                 PROVE  req'[q].floor \subseteq built'[req'[q].space].saw
        BY DEF SeesSettledWrites
    <2>1. ASSUME req'[q].space = req[q].space, req'[q].floor = req[q].floor
          PROVE  req'[q].floor \subseteq built'[req'[q].space].saw
        <3>1. req[q].floor \subseteq built[req[q].space].saw
            BY <2>1 DEF Inv, SeesSettledWrites
        <3>2. Built(req[q].space, UserOf(q))
            BY <2>1 DEF Inv, Carried
        <3> QED
            BY <2>1, <3>1, <3>2, <1>10
    <2>2. CASE q = r /\ ~req[r].again
        BY <2>2, <1>4, <1>7, <1>8, <1>11
    <2> QED
        BY <2>1, <2>2, <1>7, <1>8
<1>19. NoSpaceLost'
    <2> SUFFICES ASSUME NEW s \in 1 .. Len(built')
                 PROVE  s \in dropped \/ spaces'[built'[s].user] = s
        BY <1>6 DEF NoSpaceLost
    <2>1. CASE s = n
        BY <2>1, <1>9, <1>11
    <2>2. CASE s # n
        <3>1. s \in 1 .. Len(built) /\ built'[s] = built[s]
            BY <2>2, <1>3 DEF Inv, Typed, n
        <3>2. built[s].user \in Users /\ s # NoSpace
            <4>1. built[s] \in Space
                BY <3>1 DEF Inv, Typed
            <4> QED
                BY <3>1, <4>1 DEF Space, NoSpace
        <3> QED
            BY <3>1, <3>2, <1>1, <1>9 DEF Inv, NoSpaceLost
    <2> QED
        BY <2>1, <2>2
<1>20. InjectedAgentFound'
    BY <1>6, <1>7, <1>8, <1>10 DEF Inv, InjectedAgentFound, Held, Holds, Carried
<1> QED
    BY <1>12, <1>13, <1>14, <1>15, <1>16, <1>17, <1>18, <1>19, <1>20 DEF Inv

\* The agents of a space grow; nothing else of it changes.
LEMMA Injects ==
    ASSUME Parameters, Inv, NEW r \in Requests, EnsureAgent(r)
    PROVE  Inv'
<1>1. PICK s \in 1 .. Len(built) :
          req[r].saw = {s} /\ (s = req[r].space \/ req[r].space \in dropped)
    BY DEF Inv, Injecting, EnsureAgent
<1>2. (CHOOSE x \in req[r].saw : TRUE) = s
    BY <1>1
<1>3. /\ built' = [built EXCEPT ![s].agents = built[s].agents \cup {AgentOf(r)}]
      /\ req' = [req EXCEPT ![r].pc = "done"]
      /\ UNCHANGED <<spaces, loader, dropped, written, reloading, settled>>
      /\ req[r].pc = "inject"
    BY <1>2 DEF EnsureAgent, writers
<1>4. built \in Seq(Space) /\ built[s] \in Space /\ req[r] \in Request
    BY DEF Inv, Typed
<1>5. /\ req'[r] \in Request /\ req'[r].pc = "done" /\ req'[r].space = req[r].space
      /\ req'[r].floor = req[r].floor /\ req'[r].again = req[r].again
      /\ \A q \in Requests : q # r => req'[q] = req[q]
    BY <1>3, <1>4 DEF Inv, Typed, Request, Place
<1>6. /\ Len(built') = Len(built) /\ built' \in Seq(Space)
      /\ \A i \in 1 .. Len(built) : /\ built'[i].user = built[i].user
                                    /\ built'[i].saw = built[i].saw
                                    /\ built[i].agents \subseteq built'[i].agents
      /\ AgentOf(r) \in built'[s].agents
    <2> DEFINE b == [built[s] EXCEPT !.agents = built[s].agents \cup {AgentOf(r)}]
    <2>1. AgentOf(r) \in Agents
        BY DEF Agents
    <2>2. /\ b \in Space /\ b.user = built[s].user /\ b.saw = built[s].saw
          /\ b.agents = built[s].agents \cup {AgentOf(r)}
        BY <1>4, <2>1 DEF Space
    <2>3. built' = [built EXCEPT ![s] = b]
        BY <1>3
    <2> HIDE DEF b
    <2>4. Len(built') = Len(built) /\ built' \in Seq(Space)
        BY <2>2, <2>3, <1>4
    <2>5. built'[s] = b /\ \A i \in 1 .. Len(built) : i # s => built'[i] = built[i]
        BY <2>3, <1>4
    <2> QED
        BY <2>2, <2>4, <2>5
<1>7. Typed'
    <2>1. req' \in [Requests -> Request]
        BY <1>3, <1>5 DEF Inv, Typed
    <2> QED
        BY <2>1, <1>3, <1>6 DEF Inv, Typed
<1>8. \A x, u : Built(x, u) => Built(x, u)' /\ built'[x].saw = built[x].saw
                               /\ built[x].agents \subseteq built'[x].agents
    BY <1>6 DEF Built
<1>9. Registered' /\ SpacesUpToDate' /\ NoSpaceLost' /\ Unbegun'
    <2>1. Registered' /\ Unbegun'
        BY <1>3, <1>8 DEF Inv, Registered, Unbegun
    <2>2. SpacesUpToDate'
        BY <1>3, <1>8 DEF Inv, Registered, SpacesUpToDate, UpToDate, Owed
    <2>3. NoSpaceLost'
        BY <1>3, <1>6 DEF Inv, NoSpaceLost
    <2> QED
        BY <2>1, <2>2, <2>3
<1>10. Loading' /\ LoadsUpToDate'
    BY <1>3, <1>5 DEF Inv, Loading, LoadsUpToDate, UpToDate, Owed
<1>11. Floors' /\ Held' /\ Carried' /\ Injecting'
    <2>1. Floors'
        BY <1>3, <1>5 DEF Inv, Floors
    <2>2. Held' /\ Carried'
        BY <1>3, <1>5, <1>8 DEF Inv, Held, Holds, Carried
    <2>3. Injecting'
        BY <1>3, <1>5, <1>6 DEF Inv, Injecting
    <2> QED
        BY <2>1, <2>2, <2>3
<1>12. SeesSettledWrites'
    BY <1>5, <1>8 DEF Inv, SeesSettledWrites, Carried
<1>13. InjectedAgentFound'
    <2> SUFFICES ASSUME NEW q \in Requests, req'[q].pc = "done", UserOf(q) \in Admins
                 PROVE  AgentOf(q) \in built'[req'[q].space].agents \/ req'[q].space \in dropped
        BY <1>3 DEF InjectedAgentFound
    <2>1. CASE q = r
        BY <2>1, <1>1, <1>5, <1>6
    <2>2. CASE q # r
        BY <2>2, <1>5, <1>8 DEF Inv, InjectedAgentFound, Held, Holds, Carried
    <2> QED
        BY <2>1, <2>2
<1> QED
    BY <1>7, <1>9, <1>10, <1>11, <1>12, <1>13 DEF Inv

LEMMA RequestStep ==
    ASSUME Parameters, Inv, NEW r \in Requests,
           \/ Ask(r) \/ Get(r) \/ Lock(r) \/ Load(r) \/ LoadFails(r)
           \/ FindAgent(r) \/ EnsureAgent(r) \/ EnsureFails(r) \/ Finish(r)
    PROVE  Inv'
<1>1. req[r] \in Request
    BY DEF Inv, Typed
<1>2. Over \in Request /\ Over.pc = "over" /\ Over.floor = {} /\ Over.space = NoSpace /\ ~Over.again
    BY DEF Over, Idle, Request, Place, NoSpace
<1>3. CASE Ask(r)
    <2> DEFINE x == [Idle EXCEPT !.pc = "get", !.floor = Concern(UserOf(r), settled)]
    <2>1. /\ x \in Request /\ x.pc = "get" /\ x.space = NoSpace /\ ~x.again
          /\ x.floor = Concern(UserOf(r), settled)
        BY DEF Inv, Typed, Idle, Request, Place, NoSpace, Concern
    <2>2. req' = [req EXCEPT ![r] = x] /\ UNCHANGED <<registry, writers>>
        BY <1>3 DEF Ask
    <2> HIDE DEF x
    <2> QED
        BY <2>1, <2>2, Moves DEF registry, writers
<1>4. CASE Get(r)
    <2>1. CASE spaces[UserOf(r)] # NoSpace
        BY <1>4, <2>1, GetsRegistered DEF Get, writers
    <2>2. CASE spaces[UserOf(r)] = NoSpace
        <3> DEFINE x == [req[r] EXCEPT !.pc = "lock"]
        <3>1. /\ x \in Request /\ x.pc = "lock" /\ x.space = req[r].space
              /\ x.floor = req[r].floor /\ x.again = req[r].again
            BY <1>1 DEF Request, Place
        <3>2. req' = [req EXCEPT ![r] = x] /\ UNCHANGED <<spaces, built, dropped, loader, writers>>
            BY <1>4, <2>2 DEF Get
        <3> HIDE DEF x
        <3> QED
            BY <3>1, <3>2, Moves DEF writers, Inv, Floors, Held, Holds
    <2> QED
        BY <2>1, <2>2
<1>5. CASE Lock(r)
    <2>1. CASE spaces[UserOf(r)] # NoSpace
        BY <1>5, <2>1, GetsRegistered DEF Lock, writers
    <2>2. CASE spaces[UserOf(r)] = NoSpace
        <3> DEFINE x == [pc |-> "load", space |-> req[r].space,
                         saw |-> Concern(UserOf(r), written),
                         floor |-> req[r].floor, again |-> req[r].again]
        <3>1. /\ x \in Request /\ x.pc = "load" /\ x.saw = Concern(UserOf(r), written)
              /\ x.space = req[r].space /\ x.floor = req[r].floor /\ x.again = req[r].again
            BY <1>1 DEF Inv, Typed, Request, Place, Concern
        <3>2. /\ req' = [req EXCEPT ![r] = x] /\ loader = NoOne /\ loader' = r
              /\ UNCHANGED <<spaces, built, dropped, writers>>
            BY <1>5, <2>2, <1>1 DEF Lock, Request, Inv, Typed
        <3> HIDE DEF x
        <3> QED
            BY <2>2, <3>1, <3>2, StartsLoading DEF writers
    <2> QED
        BY <2>1, <2>2
<1>6. CASE Load(r)
    BY <1>6, Loads
<1>7. CASE LoadFails(r) \/ EnsureFails(r) \/ Finish(r)
    <2>1. /\ req' = [req EXCEPT ![r] = Over]
          /\ UNCHANGED <<spaces, built, dropped, writers>>
          /\ loader' = loader \/ req[r].pc = "load"
        BY <1>7 DEF LoadFails, EnsureFails, Finish, registry
    <2> QED
        BY <1>2, <2>1, Moves DEF writers
<1>8. CASE FindAgent(r)
    <2>1. CASE AgentOf(r) \notin built[req[r].space].agents /\ UserOf(r) \in Admins
        <3> DEFINE x == [req[r] EXCEPT !.pc = "get", !.again = TRUE]
        <3>1. /\ x \in Request /\ x.pc = "get" /\ x.space = req[r].space
              /\ x.floor = req[r].floor
            BY <1>1 DEF Request, Place
        <3>2. req' = [req EXCEPT ![r] = x] /\ UNCHANGED <<registry, writers>> /\ req[r].pc = "have"
            BY <1>8, <2>1, <1>1 DEF FindAgent, Inv, Typed
        <3> HIDE DEF x
        <3> QED
            BY <3>1, <3>2, Moves DEF registry, writers, Inv, Floors, Held, Holds
    <2>2. CASE ~(AgentOf(r) \notin built[req[r].space].agents /\ UserOf(r) \in Admins)
        <3> DEFINE x == [req[r] EXCEPT !.pc = "done"]
        <3>1. /\ x \in Request /\ x.pc = "done" /\ x.space = req[r].space
              /\ x.floor = req[r].floor
            BY <1>1 DEF Request, Place
        <3>2. req' = [req EXCEPT ![r] = x] /\ UNCHANGED <<registry, writers>> /\ req[r].pc = "have"
            BY <1>8, <2>2 DEF FindAgent
        <3> HIDE DEF x
        <3> QED
            BY <2>2, <3>1, <3>2, Moves DEF registry, writers, Inv, Floors, Held, Holds
    <2> QED
        BY <2>1, <2>2
<1>9. CASE EnsureAgent(r)
    BY <1>9, Injects
<1> QED
    BY <1>3, <1>4, <1>5, <1>6, <1>7, <1>8, <1>9

--------------------------------------------------------------------------------
(***************************************************************************)
(* Writers, the clock and the eviction: no request moves.                  *)
(***************************************************************************)

\* What leaves the registry is dropped, and what is owed stays owed wherever a space
\* is registered or being loaded.
LEMMA RegistryOnly ==
    ASSUME Parameters, Inv, Typed', Unbegun', UNCHANGED <<req, built, loader>>,
           dropped \subseteq dropped', settled \subseteq settled',
           \A u \in Users : \/ spaces'[u] = spaces[u]
                            \/ spaces'[u] = NoSpace /\ spaces[u] \in dropped',
           \A u \in Users : spaces'[u] # NoSpace \/ loader # NoOne =>
               \A w \in Concern(u, written') :
                   \/ Owed(w, u)'
                   \/ w \in written /\ ~Owed(w, u)
    PROVE  Inv'
<1>1. Registered' /\ Loading'
    BY DEF Inv, Registered, Built, Loading, Parameters
<1>3. SpacesUpToDate'
    <2> SUFFICES ASSUME NEW u \in Users, spaces'[u] # NoSpace
                 PROVE  UpToDate(u, built[spaces[u]].saw)' /\ spaces'[u] = spaces[u]
        BY DEF SpacesUpToDate
    <2>1. spaces'[u] = spaces[u]
        OBVIOUS
    <2>2. UpToDate(u, built[spaces[u]].saw)
        BY <2>1 DEF Inv, SpacesUpToDate
    <2> DEFINE W == built[spaces[u]].saw
    <2>3. built'[spaces'[u]].saw = W
        BY <2>1
    <2> HIDE DEF W
    <2>4. \A w \in Concern(u, written') : w \in W \/ Owed(w, u)'
        BY <2>2 DEF UpToDate, Concern, W
    <2> QED
        BY <2>1, <2>3, <2>4 DEF UpToDate
<1>4. LoadsUpToDate'
    <2> SUFFICES ASSUME NEW r \in Requests, req[r].pc = "load"
                 PROVE  /\ \A w \in Concern(UserOf(r), written') :
                              w \in req[r].saw \/ Owed(w, UserOf(r))'
                        /\ req[r].saw \subseteq Writes
        BY DEF LoadsUpToDate, UpToDate
    <2>1. loader # NoOne /\ UserOf(r) \in Users
        BY DEF Inv, Loading, Parameters
    <2>2. UpToDate(UserOf(r), req[r].saw) /\ req[r].saw \subseteq Writes
        BY DEF Inv, LoadsUpToDate
    <2> QED
        BY <2>1, <2>2 DEF UpToDate, Concern
<1>5. Floors' /\ Held' /\ Carried' /\ Injecting'
    BY DEF Inv, Floors, Concern, Held, Holds, Carried, Built, Injecting
<1>6. SeesSettledWrites' /\ InjectedAgentFound'
    BY DEF Inv, SeesSettledWrites, InjectedAgentFound
<1>7. NoSpaceLost'
    <2> SUFFICES ASSUME NEW s \in 1 .. Len(built)
                 PROVE  s \in dropped' \/ spaces'[built[s].user] = s
        BY DEF NoSpaceLost
    <2>1. built[s] \in Space
        BY DEF Inv, Typed
    <2>2. built[s].user \in Users
        BY <2>1 DEF Space
    <2> QED
        BY <2>2 DEF Inv, NoSpaceLost
<1> QED
    BY <1>1, <1>3, <1>4, <1>5, <1>6, <1>7 DEF Inv

LEMMA WriterStep ==
    ASSUME Parameters, Inv, NEW w \in Writes,
           RowWritten(w) \/ InvalidateScope(w) \/ \E u \in Users : Invalidate(w, u)
    PROVE  Inv'
<1>1. CASE RowWritten(w)
    <2>1. Typed' /\ UNCHANGED <<req, built, loader, spaces, dropped, settled, reloading>>
        BY <1>1 DEF Inv, Typed, RowWritten, registry
    <2>2. \A u \in Users : \A x \in Concern(u, written') :
              Owed(x, u)' \/ (x \in written /\ ~Owed(x, u))
        <3>1. written' = written \cup {w} /\ w \notin settled
            BY <1>1 DEF RowWritten, Inv, Typed
        <3>2. reloading[w] = {}
            BY <1>1 DEF RowWritten, Inv, Unbegun
        <3> QED
            BY <2>1, <3>1, <3>2 DEF Owed, Concern
    <2>3. Unbegun'
        BY <1>1, <2>1 DEF Inv, Unbegun, RowWritten
    <2> QED
        BY <2>1, <2>2, <2>3, RegistryOnly
<1>2. CASE InvalidateScope(w)
    <2> DEFINE hit == IF Scopes[w] = Users THEN {u \in Users : spaces[u] # NoSpace} ELSE Scopes[w]
    <2>1. /\ w \in written /\ w \notin settled /\ loader = NoOne
          /\ reloading' = [reloading EXCEPT ![w] = hit]
          /\ settled' = IF hit = {} THEN settled \cup {w} ELSE settled
          /\ UNCHANGED <<req, built, loader, spaces, dropped, written>>
        BY <1>2 DEF InvalidateScope, registry
    <2>2. hit \subseteq Users /\ \A u \in Users : spaces[u] # NoSpace /\ u \in Scopes[w] => u \in hit
        BY DEF Parameters
    <2> HIDE DEF hit
    <2>3. Typed' /\ Unbegun'
        BY <2>1, <2>2 DEF Inv, Typed, Unbegun
    <2>4. reloading'[w] = hit /\ \A x \in Writes : x # w => reloading'[x] = reloading[x]
        BY <2>1, <2>2 DEF Inv, Typed
    <2>5. \A u \in Users : spaces'[u] # NoSpace =>
              \A x \in Concern(u, written') : Owed(x, u)' \/ (x \in written /\ ~Owed(x, u))
        BY <2>1, <2>2, <2>4 DEF Owed, Concern, Inv, Typed
    <2> QED
        BY <2>1, <2>3, <2>5, RegistryOnly
<1>3. ASSUME NEW u \in Users, Invalidate(w, u)
      PROVE  Inv'
    <2>1. /\ u \in reloading[w] /\ loader = NoOne
          /\ spaces' = [spaces EXCEPT ![u] = NoSpace]
          /\ dropped' = dropped \cup ({spaces[u]} \ {NoSpace})
          /\ reloading' = [reloading EXCEPT ![w] = reloading[w] \ {u}]
          /\ settled' = IF reloading'[w] = {} THEN settled \cup {w} ELSE settled
          /\ UNCHANGED <<req, built, loader, written>>
        BY <1>3 DEF Invalidate
    <2>2. /\ reloading'[w] = reloading[w] \ {u}
          /\ \A x \in Writes : x # w => reloading'[x] = reloading[x]
        BY <2>1 DEF Inv, Typed
    <2>3. w \in written /\ w \notin settled
        BY <2>1 DEF Inv, Unbegun
    <2>4. Typed'
        BY <2>1, <2>3 DEF Inv, Typed, NoSpace
    <2>5. Unbegun'
        BY <2>1, <2>2, <2>3 DEF Inv, Typed, Unbegun
    <2>6. spaces'[u] = NoSpace /\ \A v \in Users : v # u => spaces'[v] = spaces[v]
        BY <2>1 DEF Inv, Typed
    <2>7. \A v \in Users : spaces'[v] = spaces[v] \/ (spaces'[v] = NoSpace /\ spaces[v] \in dropped')
        BY <2>1, <2>6
    <2>8. \A v \in Users : spaces'[v] # NoSpace =>
              \A x \in Concern(v, written') : Owed(x, v)' \/ (x \in written /\ ~Owed(x, v))
        BY <2>1, <2>2, <2>6 DEF Owed, Concern, Inv, Typed
    <2> QED
        BY <2>1, <2>4, <2>5, <2>7, <2>8, RegistryOnly
<1> QED
    BY <1>1, <1>2, <1>3

LEMMA EvictionStep ==
    ASSUME Parameters, Inv, EvictIdle \/ (\E u \in Users : GoesUnused(u)) \/ UNCHANGED vars
    PROVE  Inv'
<1>1. UNCHANGED <<req, built, loader, written, reloading, settled>>
    BY DEF EvictIdle, GoesUnused, vars, registry, writers
<1>2. Typed' /\ dropped \subseteq dropped' /\ Unbegun'
    BY <1>1 DEF Inv, Typed, Unbegun, EvictIdle, GoesUnused, vars, registry, NoSpace
<1>3. \A u \in Users : spaces'[u] = spaces[u] \/ (spaces'[u] = NoSpace /\ spaces[u] \in dropped')
    BY DEF EvictIdle, GoesUnused, vars, registry
<1>4. \A u \in Users : \A w \in Concern(u, written') : Owed(w, u)' \/ (w \in written /\ ~Owed(w, u))
    BY <1>1 DEF Owed, Concern
<1> QED
    BY <1>1, <1>2, <1>3, <1>4, RegistryOnly

LEMMA InvStep == ASSUME Parameters PROVE Inv /\ [Next]_vars => Inv'
BY RequestStep, WriterStep, EvictionStep DEF Next

LEMMA InvHolds == Spec => []Inv
<1>1. Parameters
    BY SpacesAssumption DEF Parameters, UserOf, Writes, NoOne
<1>2. Init => Inv
    BY <1>1, InvInit
<1>3. Inv /\ [Next]_vars => Inv'
    BY <1>1, InvStep
<1> QED
    BY <1>2, <1>3, PTL DEF Spec

\* Once the handler of a write has returned, every request that begins gets a space
\* that has seen it; no space is lost to a race of two loads; and an agent injected
\* for a super admin is in the space the request uses or that space was dropped.
THEOREM SpacesStayKept == Spec => []SpacesKept
<1>1. Inv => SpacesKept
    BY DEF Inv, SpacesKept
<1> QED
    BY <1>1, InvHolds, PTL

\* Only spaces that are registered go unused, and only spaces that were built are dropped.
SpacesRanges ==
    /\ unused \subseteq {u \in Users : spaces[u] # NoSpace}
    /\ loader \in Requests \cup {NoOne}
    /\ dropped \subseteq 1 .. Len(built)

LEMMA SpacesRangesKept == ASSUME Inv, SpacesRanges, [Next]_vars PROVE SpacesRanges'
<1> USE DEF registry, writers
<1>1. /\ built \in Seq(Space) /\ spaces \in [Users -> Nat] /\ Len(built) \in Nat
      /\ \A u \in Users : spaces[u] # NoSpace => spaces[u] \in 1 .. Len(built)
    BY DEF Inv, Typed, Registered, Built
<1>2. ASSUME NEW r \in Requests,
             \/ Ask(r) \/ Get(r) \/ Lock(r) \/ LoadFails(r) \/ FindAgent(r) \/ EnsureFails(r) \/ Finish(r)
      PROVE  SpacesRanges'
    BY <1>2 DEF Ask, Get, Lock, LoadFails, FindAgent, EnsureFails, Finish, SpacesRanges
<1>3. ASSUME NEW r \in Requests, Load(r) PROVE SpacesRanges'
    <2>1. Len(built') = Len(built) + 1
        BY <1>1, <1>3 DEF Load
    <2>2. \A u \in Users : u # UserOf(r) => spaces'[u] = spaces[u]
        BY <1>1, <1>3 DEF Load
    <2>3. unused' = unused \ {UserOf(r)} /\ loader' = NoOne /\ dropped' = dropped
        BY <1>3 DEF Load
    <2> QED
        BY <1>1, <2>1, <2>2, <2>3 DEF SpacesRanges
<1>4. ASSUME NEW r \in Requests, EnsureAgent(r) PROVE SpacesRanges'
    <2>1. Len(built') = Len(built) /\ UNCHANGED <<spaces, unused, loader, dropped>>
        BY <1>1, <1>4 DEF EnsureAgent
    <2> QED
        BY <2>1 DEF SpacesRanges
<1>5. ASSUME NEW w \in Writes, RowWritten(w) \/ InvalidateScope(w) PROVE SpacesRanges'
    BY <1>5 DEF RowWritten, InvalidateScope, SpacesRanges
<1>6. ASSUME NEW w \in Writes, NEW u \in Users, Invalidate(w, u) PROVE SpacesRanges'
    <2>1. /\ spaces' = [spaces EXCEPT ![u] = NoSpace] /\ dropped' = dropped \cup ({spaces[u]} \ {NoSpace})
          /\ unused' = unused \ {u} /\ loader' = loader /\ built' = built
        BY <1>6 DEF Invalidate
    <2> QED
        BY <1>1, <2>1 DEF SpacesRanges
<1>7. ASSUME NEW u \in Users, GoesUnused(u) PROVE SpacesRanges'
    BY <1>7 DEF GoesUnused, SpacesRanges
<1>8. CASE EvictIdle
    <2>1. /\ dropped' = dropped \cup {spaces[u] : u \in unused} /\ unused' = {}
          /\ loader' = loader /\ built' = built
        BY <1>8 DEF EvictIdle
    <2> QED
        BY <1>1, <2>1 DEF SpacesRanges
<1>9. CASE UNCHANGED vars
    BY <1>9 DEF vars, SpacesRanges
<1> QED
    BY <1>2, <1>3, <1>4, <1>5, <1>6, <1>7, <1>8, <1>9 DEF Next

LEMMA SpacesTypes == Inv /\ SpacesRanges => TypeOK
<1> SUFFICES ASSUME Inv, SpacesRanges PROVE TypeOK
    OBVIOUS
<1>1. spaces \in [Users -> 0 .. Len(built)]
    BY DEF Inv, Typed, Registered, Built, NoSpace
<1>2. \A r \in Requests : req[r].pc \in {"idle", "get", "lock", "load", "have", "inject", "done", "over"}
    BY DEF Inv, Typed, Request, Place
<1>3. settled \subseteq written /\ written \subseteq Writes
    BY DEF Inv, Typed
<1> QED
    BY <1>1, <1>2, <1>3 DEF SpacesRanges, TypeOK

--------------------------------------------------------------------------------
(***************************************************************************)
(* AgentFiles.  A file tool acts on the session's own files, for any       *)
(* users, chats, paths and any overlap of turns.  A registry is bound to a *)
(* chat of its own user (Bound); the registry of a turn that was alone     *)
(* from its beginning is bound to that turn's chat (Lonely), so what the   *)
(* turn has written is where it would read it (OwnThere).                  *)
(***************************************************************************)
\* The copy in the home that is still to be made, if any.
Mirrors == {<<>>} \cup (Identity \X FilesPart!Contents)

Turn == [on : BOOLEAN, alone : BOOLEAN, own : [FilesPart!Paths -> FilesPart!Contents], mirror : Mirrors]

FilesTyped == FilesPart!TypeOK /\ turn \in [Chats -> Turn]

\* A registry is bound to chats of its own user, and to one whenever a turn is under way.
Bound ==
    /\ \A u \in FileUsers : /\ bound[u].executor \in FilesPart!ChatsOf(u) \cup {FilesPart!NoOne}
                            /\ bound[u].session \in FilesPart!ChatsOf(u) \cup {FilesPart!NoOne}
    /\ \A c \in Chats : turn[c].on => FilesPart!Session(c) # FilesPart!NoOne

\* The registry of a turn that is alone is bound to it, and its chat has no companion.
Lonely ==
    \A c \in Chats : turn[c].on /\ turn[c].alone =>
        /\ FilesPart!Session(c) = c
        /\ \A d \in Chats \ {c} : OwnerOf[d] = OwnerOf[c] => ~turn[d].on

\* What counts as a turn's own content is where the turn would read it.
OwnThere ==
    /\ \A c \in Chats, p \in Identity : turn[c].own[p] \in {0, fileRows[OwnerOf[c]][p]}
    /\ \A c \in Chats : turn[c].on /\ turn[c].alone =>
        /\ \A p \in Artifacts : turn[c].own[p] \in {0, blobs[c][p]}
        /\ \A p \in Local : turn[c].own[p] \in {0, FilesPart!ReadLocal(c, p)}

FilesInv == FilesTyped /\ Bound /\ Lonely /\ OwnThere /\ FilesPart!FilesSound

LEMMA FilesInit == ASSUME FilesAssumed PROVE FilesPart!Init => FilesInv
<1> SUFFICES ASSUME FilesPart!Init PROVE FilesInv
    OBVIOUS
<1>1. FilesPart!Idle \in Turn /\ FilesPart!Idle.on = FALSE /\ \A p \in FilesPart!Paths : FilesPart!Idle.own[p] = 0
    BY DEF FilesPart!Idle, Turn, Mirrors, FilesPart!Contents, FilesAssumed
<1>2. FilesTyped
    BY <1>1 DEF FilesPart!Init, FilesTyped, FilesPart!TypeOK, FilesPart!Contents, FilesAssumed, Turn
<1>3. Bound /\ Lonely
    BY <1>1 DEF FilesPart!Init, Bound, Lonely
<1>4. OwnThere
    BY <1>1 DEF FilesPart!Init, OwnThere, FilesPart!Paths
<1>5. FilesPart!FilesSound
    BY DEF FilesPart!Init, FilesPart!FilesSound, FilesPart!ReadBack, FilesPart!ExecContained, FilesPart!Nothing
<1> QED
    BY <1>2, <1>3, <1>4, <1>5 DEF FilesInv

LEMMA NothingRead == lastRead' = FilesPart!Nothing => FilesPart!FilesSound'
    BY DEF FilesPart!FilesSound, FilesPart!ReadBack, FilesPart!ExecContained, FilesPart!Nothing

LEMMA BeginTurn ==
    ASSUME FilesAssumed, FilesInv, NEW c \in Chats, NEW gives \in BOOLEAN, FilesPart!Begin(c, gives)
    PROVE  FilesInv'
<1> DEFINE others == {d \in Chats \ {c} : OwnerOf[d] = OwnerOf[c] /\ turn[d].on}
           u == OwnerOf[c]
<1>1. /\ bound' = FilesPart!Bind(c, gives) /\ UNCHANGED <<filePool, fileRows, home, blobs, boxes, contents>>
      /\ lastRead' = FilesPart!Nothing /\ u \in FileUsers
    BY DEF FilesPart!Begin, FilesPart!files, FilesAssumed
<1>2. PICK x \in Turn : /\ x.on /\ (x.alone => others = {}) /\ x.own = FilesPart!Idle.own
                        /\ turn'[c] = x
                        /\ \A d \in Chats \ {c} : turn'[d] = IF d \in others THEN [turn[d] EXCEPT !.alone = FALSE] ELSE turn[d]
                        /\ turn' = [d \in Chats |-> turn'[d]]
    <2> DEFINE none == others = {}
               y == [FilesPart!Idle EXCEPT !.on = TRUE, !.alone = none]
    <2>3. none \in BOOLEAN /\ FilesPart!Idle.own \in [FilesPart!Paths -> FilesPart!Contents]
        BY DEF FilesPart!Idle, FilesPart!Contents, FilesAssumed
    <2>4. y \in Turn /\ y.on /\ (y.alone => none) /\ y.own = FilesPart!Idle.own
        <3> HIDE DEF none
        <3> QED
            BY <2>3 DEF Turn, Mirrors, FilesPart!Idle
    <2>2. turn' = [d \in Chats |-> IF d = c THEN y ELSE IF d \in others THEN [turn[d] EXCEPT !.alone = FALSE] ELSE turn[d]]
        BY DEF FilesPart!Begin
    <2> HIDE DEF y, others
    <2> QED
        BY <2>4, <2>2
<1> HIDE DEF others
<1>3. \A d \in Chats \ {c} : turn'[d] \in Turn /\ turn'[d].on = turn[d].on /\ turn'[d].own = turn[d].own
                             /\ (turn'[d].alone => turn[d].alone /\ d \notin others)
    BY <1>2 DEF FilesInv, FilesTyped, Turn
<1>4. /\ \A v \in FileUsers \ {u} : bound'[v] = bound[v]
      /\ bound'[u].session = c /\ bound'[u].executor \in {c, bound[u].executor}
      /\ bound'[u] \in [session : Chats \cup {FilesPart!NoOne}, executor : Chats \cup {FilesPart!NoOne}]
      /\ bound' = [v \in FileUsers |-> bound'[v]]
    BY <1>1 DEF FilesPart!Bind, FilesInv, FilesTyped, FilesPart!TypeOK
<1>5. turn' \in [Chats -> Turn]
    BY <1>2, <1>3
<1>6. FilesTyped'
    BY <1>1, <1>4, <1>5 DEF FilesInv, FilesTyped, FilesPart!TypeOK, Turn
<1>7. Bound'
    BY <1>1, <1>2, <1>3, <1>4 DEF FilesInv, Bound, FilesPart!ChatsOf, FilesPart!Session, FilesAssumed
<1>8. Lonely'
    <2> SUFFICES ASSUME NEW d \in Chats, turn'[d].on, turn'[d].alone
                 PROVE  FilesPart!Session(d)' = d /\ \A e \in Chats \ {d} : OwnerOf[e] = OwnerOf[d] => ~turn'[e].on
        BY DEF Lonely
    <2>1. CASE d = c
        BY <2>1, <1>2, <1>3, <1>4 DEF others, FilesPart!Session
    <2>2. CASE d # c
        <3>1. turn[d].on /\ turn[d].alone /\ d \notin others
            BY <2>2, <1>3
        <3>2. OwnerOf[d] # u
            BY <3>1, <2>2 DEF others
        <3> QED
            BY <3>1, <3>2, <2>2, <1>2, <1>3, <1>4 DEF FilesInv, Lonely, FilesPart!Session, FilesAssumed
    <2> QED
        BY <2>1, <2>2
<1>9. OwnThere'
    <2>1. \A p \in FilesPart!Paths : turn'[c].own[p] = 0
        BY <1>2 DEF FilesPart!Idle
    <2>2. ASSUME NEW d \in Chats, turn'[d].on, turn'[d].alone, d # c, NEW p \in Local PROVE FilesPart!ReadLocal(d, p)' = FilesPart!ReadLocal(d, p)
        <3>1. OwnerOf[d] # u /\ OwnerOf[d] \in FileUsers
            BY <2>2, <1>3 DEF others, FilesAssumed
        <3> QED
            BY <3>1, <1>1, <1>4 DEF FilesPart!ReadLocal, FilesPart!Boxed, FilesPart!Executor
    <2> QED
        BY <2>1, <2>2, <1>1, <1>3 DEF FilesInv, OwnThere, FilesPart!Paths
<1> QED
    BY <1>1, <1>6, <1>7, <1>8, <1>9, NothingRead DEF FilesInv

\* What a step that binds nothing and begins no turn keeps.
LEMMA NothingBound ==
    ASSUME FilesInv, UNCHANGED <<filePool, bound>>,
           \A c \in Chats : \/ (turn'[c].on => turn[c].on) /\ turn'[c].alone = turn[c].alone
                           \/ ~turn'[c].on
    PROVE  Bound' /\ Lonely'
<1>1. Bound'
    BY DEF FilesInv, Bound, FilesPart!Session
<1>2. Lonely'
    BY DEF FilesInv, Lonely, FilesPart!Session
<1> QED
    BY <1>1, <1>2

LEMMA EndTurn ==
    ASSUME FilesAssumed, FilesInv, NEW c \in Chats, FilesPart!End(c)
    PROVE  FilesInv'
<1>1. FilesPart!Idle \in Turn /\ FilesPart!Idle.on = FALSE /\ \A p \in FilesPart!Paths : FilesPart!Idle.own[p] = 0
    BY DEF FilesPart!Idle, Turn, Mirrors, FilesPart!Contents, FilesAssumed
<1>2. /\ UNCHANGED <<filePool, bound, fileRows, home, blobs, boxes, contents>> /\ lastRead' = FilesPart!Nothing
      /\ turn' = [turn EXCEPT ![c] = FilesPart!Idle]
    BY DEF FilesPart!End, FilesPart!files
<1>3. /\ turn'[c] = FilesPart!Idle /\ \A d \in Chats \ {c} : turn'[d] = turn[d]
      /\ turn' \in [Chats -> Turn]
    BY <1>1, <1>2 DEF FilesInv, FilesTyped
<1>4. FilesTyped'
    BY <1>2, <1>3 DEF FilesInv, FilesTyped, FilesPart!TypeOK, Turn
<1>5. Bound' /\ Lonely'
    BY <1>1, <1>2, <1>3, NothingBound
<1>6. OwnThere'
    <2>1. ASSUME NEW d \in Chats, NEW p \in Local PROVE FilesPart!ReadLocal(d, p)' = FilesPart!ReadLocal(d, p)
        BY <1>2 DEF FilesPart!ReadLocal, FilesPart!Boxed, FilesPart!Executor
    <2> QED
        BY <2>1, <1>1, <1>2, <1>3 DEF FilesInv, OwnThere, FilesPart!Paths
<1> QED
    BY <1>2, <1>4, <1>5, <1>6, NothingRead DEF FilesInv

\* What becomes of the turns when c (or nobody in a chat) writes p: nothing but their own contents of p.
Overwrites(p, c, common) ==
    /\ turn' \in [Chats -> Turn]
    /\ \A d \in Chats :
         /\ turn'[d].on = turn[d].on /\ turn'[d].alone = turn[d].alone
         /\ \A q \in FilesPart!Paths \ {p} : turn'[d].own[q] = turn[d].own[q]
         /\ turn'[d].own[p] = IF d = c THEN FilesPart!New ELSE IF d \in common THEN 0 ELSE turn[d].own[p]

LEMMA WrittenOver ==
    ASSUME FilesAssumed, FilesInv, NEW c, c \in Chats => contents < MaxWrites,
           NEW common \in SUBSET Chats, NEW p \in FilesPart!Paths,
           \/ turn' = FilesPart!Now(FilesPart!Rewritten(p, c, common))
           \/ \E e \in Chats, m \in Mirrors :
                turn' = [FilesPart!Now(FilesPart!Rewritten(p, c, common)) EXCEPT ![e].mirror = m]
    PROVE  Overwrites(p, c, common)
<1> DEFINE then == FilesPart!Rewritten(p, c, common)
           after == FilesPart!Now(then)
<1>1. (c \in Chats => FilesPart!New \in FilesPart!Contents) /\ 0 \in FilesPart!Contents
    BY DEF FilesPart!New, FilesPart!Contents, FilesInv, FilesTyped, FilesPart!TypeOK, FilesAssumed
<1>2. \A d \in Chats : turn[d] \in Turn /\ turn[d].own \in [FilesPart!Paths -> FilesPart!Contents]
    BY DEF FilesInv, FilesTyped, Turn
<1>3. \A d \in Chats :
        /\ then[d] \in [FilesPart!Paths -> FilesPart!Contents]
        /\ \A q \in FilesPart!Paths \ {p} : then[d][q] = turn[d].own[q]
        /\ then[d][p] = IF d = c THEN FilesPart!New ELSE IF d \in common THEN 0 ELSE turn[d].own[p]
    BY <1>1, <1>2 DEF FilesPart!Rewritten
<1> HIDE DEF then
<1>4. after = [d \in Chats |-> [turn[d] EXCEPT !.own = then[d]]]
    BY DEF FilesPart!Now
<1>5. \A d \in Chats : /\ after[d] \in Turn /\ after[d].own = then[d]
                       /\ after[d].on = turn[d].on /\ after[d].alone = turn[d].alone
    <2> SUFFICES ASSUME NEW d \in Chats
                 PROVE  /\ after[d] \in Turn /\ after[d].own = then[d]
                        /\ after[d].on = turn[d].on /\ after[d].alone = turn[d].alone
        OBVIOUS
    <2>1. after[d] = [turn[d] EXCEPT !.own = then[d]]
        BY <1>4
    <2>2. turn[d] \in Turn /\ then[d] \in [FilesPart!Paths -> FilesPart!Contents]
        BY <1>2, <1>3
    <2> QED
        BY <2>1, <2>2 DEF Turn
<1>6. after \in [Chats -> Turn]
    BY <1>4, <1>5
<1>7. \/ turn' = after
      \/ \E e \in Chats, m \in Mirrors : turn' = [after EXCEPT ![e].mirror = m]
    BY DEF then
<1> HIDE DEF after
<1>8. /\ turn' \in [Chats -> Turn]
      /\ \A d \in Chats : /\ turn'[d].on = after[d].on /\ turn'[d].alone = after[d].alone
                          /\ turn'[d].own = after[d].own
    <2>1. CASE turn' = after
        BY <1>6, <2>1
    <2>2. CASE \E e \in Chats, m \in Mirrors : turn' = [after EXCEPT ![e].mirror = m]
        <3>1. PICK e \in Chats, m \in Mirrors : turn' = [after EXCEPT ![e].mirror = m]
            BY <2>2
        <3>2. turn'[e] = [after[e] EXCEPT !.mirror = m] /\ \A d \in Chats \ {e} : turn'[d] = after[d]
            BY <3>1, <1>6
        <3>3. turn'[e] \in Turn /\ turn'[e].on = after[e].on /\ turn'[e].alone = after[e].alone
              /\ turn'[e].own = after[e].own
            BY <3>2, <1>6 DEF Turn
        <3> QED
            BY <3>1, <3>2, <3>3, <1>6
    <2> QED
        BY <1>7, <2>1, <2>2
<1> QED
    BY <1>3, <1>5, <1>8 DEF Overwrites

LEMMA MirrorStep ==
    ASSUME FilesAssumed, FilesInv, NEW c \in Chats, NEW copied \in BOOLEAN, FilesPart!Mirror(c, copied)
    PROVE  FilesInv'
<1>1. /\ UNCHANGED <<filePool, bound, fileRows, blobs, boxes, contents>> /\ lastRead' = FilesPart!Nothing
      /\ turn' = [turn EXCEPT ![c].mirror = <<>>] /\ turn[c].mirror # <<>>
    BY DEF FilesPart!Mirror
<1>2. /\ turn[c].mirror \in Identity \X FilesPart!Contents /\ turn' \in [Chats -> Turn]
      /\ \A d \in Chats : /\ turn'[d].on = turn[d].on /\ turn'[d].alone = turn[d].alone
                          /\ turn'[d].own = turn[d].own
    BY <1>1 DEF FilesInv, FilesTyped, Turn, Mirrors
<1>3. home' \in [Identity \cup Local -> FilesPart!Contents] /\ \A p \in Local : home'[p] = home[p]
    <2>1. turn[c].mirror[1] \in Identity /\ turn[c].mirror[2] \in FilesPart!Contents
        BY <1>2
    <2>2. CASE copied
        BY <2>1, <2>2 DEF FilesPart!Mirror, FilesInv, FilesTyped, FilesPart!TypeOK, FilesAssumed
    <2>3. CASE ~copied
        BY <2>3 DEF FilesPart!Mirror, FilesInv, FilesTyped, FilesPart!TypeOK
    <2> QED
        BY <2>2, <2>3
<1>4. FilesTyped'
    BY <1>1, <1>2, <1>3 DEF FilesInv, FilesTyped, FilesPart!TypeOK, Turn
<1>5. Bound' /\ Lonely'
    BY <1>1, <1>2, NothingBound
<1>6. OwnThere'
    <2>1. ASSUME NEW d \in Chats, NEW p \in Local PROVE FilesPart!ReadLocal(d, p)' = FilesPart!ReadLocal(d, p)
        BY <1>1, <1>3 DEF FilesPart!ReadLocal, FilesPart!Boxed, FilesPart!Executor
    <2> QED
        BY <2>1, <1>1, <1>2 DEF FilesInv, OwnThere, FilesPart!Paths
<1> QED
    BY <1>1, <1>4, <1>5, <1>6, NothingRead DEF FilesInv

\* What the writes have in common.
LEMMA Wrote ==
    ASSUME FilesAssumed, FilesInv, NEW c, NEW common \in SUBSET Chats, NEW p \in FilesPart!Paths,
           UNCHANGED <<filePool, bound>>, lastRead' = FilesPart!Nothing, contents' \in FilesPart!Contents,
           fileRows' \in [FileUsers -> [Identity -> FilesPart!Contents]], home' \in [Identity \cup Local -> FilesPart!Contents],
           blobs' \in [Chats -> [Artifacts -> FilesPart!Contents]],
           boxes' \in [Chats -> [Artifacts \cup Local -> FilesPart!Contents]],
           Overwrites(p, c, common), OwnThere'
    PROVE  FilesInv'
<1>1. FilesTyped'
    BY DEF FilesInv, FilesTyped, FilesPart!TypeOK, Turn, Overwrites
<1>2. Bound' /\ Lonely'
    BY NothingBound DEF Overwrites
<1> QED
    BY <1>1, <1>2, NothingRead DEF FilesInv

LEMMA NewContent ==
    ASSUME FilesAssumed, FilesInv, FilesPart!Writes
    PROVE  FilesPart!New \in FilesPart!Contents /\ contents < MaxWrites /\ contents' \in FilesPart!Contents /\ lastRead' = FilesPart!Nothing
    BY DEF FilesPart!New, FilesPart!Writes, FilesPart!Contents, FilesInv, FilesTyped, FilesPart!TypeOK, FilesAssumed

\* A row changes, and with it what every chat of that user has of its own.
LEMMA FileRowWritten ==
    ASSUME FilesAssumed, FilesInv, NEW u \in FileUsers, NEW p \in Identity, NEW c,
           NEW value \in FilesPart!Contents, c \in Chats => OwnerOf[c] = u /\ value = FilesPart!New,
           fileRows' = [fileRows EXCEPT ![u][p] = value],
           UNCHANGED <<filePool, bound, home, blobs, boxes>>, lastRead' = FilesPart!Nothing, contents' \in FilesPart!Contents,
           Overwrites(p, c, FilesPart!ChatsOf(u))
    PROVE  FilesInv'
<1> DEFINE common == FilesPart!ChatsOf(u)
<1>1. p \in FilesPart!Paths /\ common \in SUBSET Chats /\ p \notin Artifacts /\ p \notin Local
    BY DEF FilesPart!Paths, FilesPart!ChatsOf, FilesAssumed
<1>3. /\ fileRows' \in [FileUsers -> [Identity -> FilesPart!Contents]] /\ fileRows'[u][p] = value
      /\ \A v \in FileUsers, q \in Identity : v # u \/ q # p => fileRows'[v][q] = fileRows[v][q]
    BY DEF FilesInv, FilesTyped, FilesPart!TypeOK
<1>4. \A d \in Chats, q \in Identity : turn'[d].own[q] \in {0, fileRows'[OwnerOf[d]][q]}
    <2> SUFFICES ASSUME NEW d \in Chats, NEW q \in Identity
                 PROVE  turn'[d].own[q] \in {0, fileRows'[OwnerOf[d]][q]}
        OBVIOUS
    <2>1. turn[d].own[q] \in {0, fileRows[OwnerOf[d]][q]} /\ OwnerOf[d] \in FileUsers /\ q \in FilesPart!Paths
        BY DEF FilesInv, OwnThere, FilesAssumed, FilesPart!Paths
    <2>2. CASE q # p
        BY <2>1, <2>2, <1>3 DEF Overwrites
    <2>3. CASE q = p /\ OwnerOf[d] = u
        BY <2>3, <1>3 DEF FilesPart!ChatsOf, Overwrites
    <2>4. CASE q = p /\ OwnerOf[d] # u
        BY <2>1, <2>4, <1>3 DEF FilesPart!ChatsOf, Overwrites
    <2> QED
        BY <2>2, <2>3, <2>4
<1>5. \A d \in Chats, q \in Local : FilesPart!ReadLocal(d, q)' = FilesPart!ReadLocal(d, q)
    BY DEF FilesPart!ReadLocal, FilesPart!Boxed, FilesPart!Executor
<1>6. OwnThere'
    BY <1>1, <1>4, <1>5 DEF FilesInv, OwnThere, FilesPart!Paths, Overwrites
<1>7. /\ home' \in [Identity \cup Local -> FilesPart!Contents] /\ blobs' \in [Chats -> [Artifacts -> FilesPart!Contents]]
      /\ boxes' \in [Chats -> [Artifacts \cup Local -> FilesPart!Contents]]
    BY DEF FilesInv, FilesTyped, FilesPart!TypeOK
<1> QED
    BY <1>1, <1>3, <1>6, <1>7, Wrote

LEMMA IdentityWritten ==
    ASSUME FilesAssumed, FilesInv, NEW c \in Chats, NEW p \in Identity, FilesPart!WriteIdentity(c, p)
    PROVE  FilesInv'
<1> DEFINE u == OwnerOf[c]
<1>1. /\ u \in FileUsers /\ p \in FilesPart!Paths /\ FilesPart!ChatsOf(u) \in SUBSET Chats
      /\ FilesPart!New \in FilesPart!Contents /\ contents < MaxWrites /\ contents' \in FilesPart!Contents /\ lastRead' = FilesPart!Nothing
    BY NewContent DEF FilesAssumed, FilesPart!Paths, FilesPart!ChatsOf, FilesPart!WriteIdentity
<1>2. \E m \in Mirrors :
            turn' = [FilesPart!Now(FilesPart!Rewritten(p, c, FilesPart!ChatsOf(u))) EXCEPT ![c].mirror = m]
    BY <1>1 DEF FilesPart!WriteIdentity, Mirrors
<1>3. Overwrites(p, c, FilesPart!ChatsOf(u))
    BY <1>1, <1>2, WrittenOver
<1> QED
    BY <1>1, <1>3, FileRowWritten DEF FilesPart!WriteIdentity, FilesPart!SaveAgentFile

\* NoOne is no chat: nobody's own content is set.
LEMMA CustomizeStep ==
    ASSUME FilesAssumed, FilesInv, NEW u \in FileUsers, NEW p \in Identity,
           FilesPart!Customize(u, p) \/ FilesPart!DeleteAgentFile(u, p)
    PROVE  FilesInv'
<1>1. p \in FilesPart!Paths /\ FilesPart!ChatsOf(u) \in SUBSET Chats /\ FilesPart!NoOne \notin Chats
    BY DEF FilesAssumed, FilesPart!Paths, FilesPart!ChatsOf
<1>2. Overwrites(p, FilesPart!NoOne, FilesPart!ChatsOf(u))
    BY <1>1, WrittenOver DEF FilesPart!Customize, FilesPart!DeleteAgentFile
<1>3. CASE FilesPart!Customize(u, p)
    BY <1>1, <1>2, <1>3, NewContent, FileRowWritten DEF FilesPart!Customize, FilesPart!SaveAgentFile
<1>4. CASE FilesPart!DeleteAgentFile(u, p)
    <2>1. 0 \in FilesPart!Contents /\ contents' \in FilesPart!Contents
        BY <1>4 DEF FilesPart!DeleteAgentFile, FilesPart!Contents, FilesAssumed, FilesInv, FilesTyped, FilesPart!TypeOK
    <2> QED
        BY <1>1, <1>2, <1>4, <2>1, FileRowWritten DEF FilesPart!DeleteAgentFile
<1> QED
    BY <1>3, <1>4

\* An artifact goes to the session the registry is bound to, or to one chosen in the page.
LEMMA ArtifactWritten ==
    ASSUME FilesAssumed, FilesInv, NEW c \in Chats, NEW p \in Artifacts,
           FilesPart!WriteArtifact(c, p) \/ FilesPart!HandleAgentFileUpload(c, p)
    PROVE  FilesInv'
<1>1. /\ p \in FilesPart!Paths /\ p \notin Identity /\ p \notin Local /\ {} \in SUBSET Chats /\ {c} \in SUBSET Chats
      /\ FilesPart!NoOne \notin Chats /\ OwnerOf[c] \in FileUsers
      /\ FilesPart!New \in FilesPart!Contents /\ contents < MaxWrites /\ contents' \in FilesPart!Contents /\ lastRead' = FilesPart!Nothing
      /\ UNCHANGED <<filePool, bound, fileRows, home, boxes>>
    BY NewContent DEF FilesAssumed, FilesPart!Paths, FilesPart!WriteArtifact, FilesPart!HandleAgentFileUpload
<1>2. \A d \in Chats, q \in Local : FilesPart!ReadLocal(d, q)' = FilesPart!ReadLocal(d, q)
    BY <1>1 DEF FilesPart!ReadLocal, FilesPart!Boxed, FilesPart!Executor
<1>3. ASSUME NEW s \in Chats, blobs' = [blobs EXCEPT ![s][p] = FilesPart!New]
      PROVE  /\ blobs' \in [Chats -> [Artifacts -> FilesPart!Contents]] /\ blobs'[s][p] = FilesPart!New
             /\ \A d \in Chats, q \in Artifacts : d # s \/ q # p => blobs'[d][q] = blobs[d][q]
    BY <1>1, <1>3 DEF FilesInv, FilesTyped, FilesPart!TypeOK
<1>4. CASE FilesPart!WriteArtifact(c, p)
    <2>1. Overwrites(p, c, {})
        BY <1>1, <1>4, WrittenOver DEF FilesPart!WriteArtifact
    <2>2. /\ FilesPart!Session(c) \in Chats /\ OwnerOf[FilesPart!Session(c)] = OwnerOf[c] /\ turn[c].on
          /\ blobs' = [blobs EXCEPT ![FilesPart!Session(c)][p] = FilesPart!New]
        BY <1>1, <1>4 DEF FilesPart!WriteArtifact, FilesInv, Bound, FilesPart!Session, FilesPart!ChatsOf
    <2>3. ASSUME NEW d \in Chats, turn'[d].on, turn'[d].alone, NEW q \in Artifacts
          PROVE  turn'[d].own[q] \in {0, blobs'[d][q]}
        <3>1. turn[d].on /\ turn[d].alone /\ q \in FilesPart!Paths /\ turn[d].own[q] \in {0, blobs[d][q]}
            BY <2>1, <2>3 DEF Overwrites, FilesInv, OwnThere, FilesPart!Paths
        <3>2. CASE d = c /\ q = p
            <4>1. FilesPart!Session(c) = c
                BY <3>1, <3>2 DEF FilesInv, Lonely
            <4> QED
                BY <4>1, <3>2, <2>1, <2>2, <1>3 DEF Overwrites
        <3>3. CASE q # p
            BY <3>1, <3>3, <2>1, <2>2, <1>3 DEF Overwrites
        <3>4. CASE d # c /\ q = p
            <4>1. d # FilesPart!Session(c)
                BY <3>1, <3>4, <2>2 DEF FilesInv, Lonely
            <4> QED
                BY <4>1, <3>1, <3>4, <2>1, <2>2, <1>3 DEF Overwrites
        <3> QED
            BY <3>2, <3>3, <3>4
    <2>4. OwnThere'
        BY <1>1, <1>2, <2>1, <2>3 DEF FilesInv, OwnThere, FilesPart!Paths, Overwrites
    <2>5. /\ fileRows' \in [FileUsers -> [Identity -> FilesPart!Contents]] /\ home' \in [Identity \cup Local -> FilesPart!Contents]
          /\ boxes' \in [Chats -> [Artifacts \cup Local -> FilesPart!Contents]]
        BY <1>1 DEF FilesInv, FilesTyped, FilesPart!TypeOK
    <2>6. blobs' \in [Chats -> [Artifacts -> FilesPart!Contents]]
        BY <2>2, <1>3
    <2> QED
        BY <1>1, <2>1, <2>4, <2>5, <2>6, Wrote
<1>5. CASE FilesPart!HandleAgentFileUpload(c, p)
    <2>1. Overwrites(p, FilesPart!NoOne, {c})
        BY <1>1, <1>5, WrittenOver DEF FilesPart!HandleAgentFileUpload
    <2>2. blobs' = [blobs EXCEPT ![c][p] = FilesPart!New]
        BY <1>5 DEF FilesPart!HandleAgentFileUpload
    <2>3. ASSUME NEW d \in Chats, turn'[d].on, turn'[d].alone, NEW q \in Artifacts
          PROVE  turn'[d].own[q] \in {0, blobs'[d][q]}
        <3>1. turn[d].on /\ turn[d].alone /\ q \in FilesPart!Paths /\ turn[d].own[q] \in {0, blobs[d][q]}
            BY <2>1, <2>3 DEF Overwrites, FilesInv, OwnThere, FilesPart!Paths
        <3> QED
            BY <3>1, <2>1, <2>2, <1>1, <1>3 DEF Overwrites
    <2>4. OwnThere'
        BY <1>1, <1>2, <2>1, <2>3 DEF FilesInv, OwnThere, FilesPart!Paths, Overwrites
    <2>5. /\ fileRows' \in [FileUsers -> [Identity -> FilesPart!Contents]] /\ home' \in [Identity \cup Local -> FilesPart!Contents]
          /\ boxes' \in [Chats -> [Artifacts \cup Local -> FilesPart!Contents]]
        BY <1>1 DEF FilesInv, FilesTyped, FilesPart!TypeOK
    <2>6. blobs' \in [Chats -> [Artifacts -> FilesPart!Contents]]
        BY <2>2, <1>3
    <2> QED
        BY <1>1, <2>1, <2>4, <2>5, <2>6, Wrote
<1> QED
    BY <1>4, <1>5

LEMMA LocalWritten ==
    ASSUME FilesAssumed, FilesInv, NEW c \in Chats, NEW p \in Local, FilesPart!WriteLocal(c, p)
    PROVE  FilesInv'
<1>1. /\ p \in FilesPart!Paths /\ p \notin Identity /\ p \notin Artifacts /\ {} \in SUBSET Chats /\ Chats \in SUBSET Chats
      /\ FilesPart!NoOne \notin Chats /\ OwnerOf[c] \in FileUsers /\ turn[c].on
      /\ FilesPart!New \in FilesPart!Contents /\ contents < MaxWrites /\ contents' \in FilesPart!Contents /\ lastRead' = FilesPart!Nothing
      /\ UNCHANGED <<filePool, bound, fileRows, blobs>>
    BY NewContent DEF FilesAssumed, FilesPart!Paths, FilesPart!WriteLocal
<1>2. \A d \in Chats : FilesPart!Boxed(d)' = FilesPart!Boxed(d) /\ FilesPart!Executor(d)' = FilesPart!Executor(d)
    BY <1>1 DEF FilesPart!Boxed, FilesPart!Executor
<1>3. /\ fileRows' \in [FileUsers -> [Identity -> FilesPart!Contents]] /\ blobs' \in [Chats -> [Artifacts -> FilesPart!Contents]]
    BY <1>1 DEF FilesInv, FilesTyped, FilesPart!TypeOK
<1>4. CASE FilesPart!Boxed(c)
    <2>1. Overwrites(p, c, {})
        BY <1>1, <1>4, WrittenOver DEF FilesPart!WriteLocal
    <2>2. /\ FilesPart!Executor(c) \in Chats /\ OwnerOf[FilesPart!Executor(c)] = OwnerOf[c]
          /\ boxes' = [boxes EXCEPT ![FilesPart!Executor(c)][p] = FilesPart!New] /\ home' = home
        BY <1>1, <1>4 DEF FilesPart!WriteLocal, FilesInv, Bound, FilesPart!Executor, FilesPart!Boxed, FilesPart!ChatsOf
    <2>3. /\ boxes' \in [Chats -> [Artifacts \cup Local -> FilesPart!Contents]] /\ boxes'[FilesPart!Executor(c)][p] = FilesPart!New
          /\ \A d \in Chats, q \in Local : d # FilesPart!Executor(c) \/ q # p => boxes'[d][q] = boxes[d][q]
        BY <1>1, <2>2 DEF FilesInv, FilesTyped, FilesPart!TypeOK
    <2>4. ASSUME NEW d \in Chats, turn'[d].on, turn'[d].alone, NEW q \in Local
          PROVE  turn'[d].own[q] \in {0, FilesPart!ReadLocal(d, q)'}
        <3>1. /\ turn[d].on /\ turn[d].alone /\ q \in FilesPart!Paths /\ turn[d].own[q] \in {0, FilesPart!ReadLocal(d, q)}
              /\ OwnerOf[d] \in FileUsers
            BY <2>1, <2>4 DEF Overwrites, FilesInv, OwnThere, FilesPart!Paths, FilesAssumed
        <3>2. FilesPart!ReadLocal(d, q)' = IF FilesPart!Boxed(d) THEN boxes'[FilesPart!Executor(d)][q] ELSE home[q]
            BY <1>2, <2>2 DEF FilesPart!ReadLocal
        <3>3. FilesPart!Boxed(d) => FilesPart!Executor(d) \in FilesPart!ChatsOf(OwnerOf[d])
            BY <3>1 DEF FilesInv, Bound, FilesPart!Boxed, FilesPart!Executor
        <3>4. CASE d = c /\ q = p
            BY <3>2, <3>4, <2>1, <2>3, <1>4 DEF Overwrites
        <3>5. CASE d # c
            <4>1. OwnerOf[d] # OwnerOf[c]
                BY <3>1, <3>5, <1>1 DEF FilesInv, Lonely
            <4>2. FilesPart!Boxed(d) => FilesPart!Executor(d) # FilesPart!Executor(c) /\ FilesPart!Executor(d) \in Chats
                BY <4>1, <3>3, <2>2 DEF FilesPart!ChatsOf
            <4>3. FilesPart!ReadLocal(d, q)' = FilesPart!ReadLocal(d, q)
                BY <4>2, <3>2, <2>3 DEF FilesPart!ReadLocal
            <4> QED
                BY <4>3, <3>1, <3>5, <2>1 DEF Overwrites
        <3>6. CASE q # p
            <4>1. FilesPart!ReadLocal(d, q)' = FilesPart!ReadLocal(d, q)
                BY <3>6, <3>2, <3>3, <2>3 DEF FilesPart!ReadLocal, FilesPart!ChatsOf
            <4> QED
                BY <4>1, <3>1, <3>6, <2>1 DEF Overwrites
        <3> QED
            BY <3>4, <3>5, <3>6
    <2>5. OwnThere'
        BY <1>1, <2>1, <2>4 DEF FilesInv, OwnThere, FilesPart!Paths, Overwrites
    <2>6. home' \in [Identity \cup Local -> FilesPart!Contents]
        BY <2>2 DEF FilesInv, FilesTyped, FilesPart!TypeOK
    <2> QED
        BY <1>1, <1>3, <2>1, <2>3, <2>5, <2>6, Wrote
<1>5. CASE ~FilesPart!Boxed(c)
    <2>1. Overwrites(p, c, Chats)
        BY <1>1, <1>5, WrittenOver DEF FilesPart!WriteLocal
    <2>2. home' = [home EXCEPT ![p] = FilesPart!New] /\ boxes' = boxes
        BY <1>5 DEF FilesPart!WriteLocal
    <2>3. /\ home' \in [Identity \cup Local -> FilesPart!Contents] /\ home'[p] = FilesPart!New
          /\ \A q \in Local \ {p} : home'[q] = home[q]
        BY <1>1, <2>2 DEF FilesInv, FilesTyped, FilesPart!TypeOK
    <2>4. ASSUME NEW d \in Chats, turn'[d].on, turn'[d].alone, NEW q \in Local
          PROVE  turn'[d].own[q] \in {0, FilesPart!ReadLocal(d, q)'}
        <3>1. turn[d].on /\ turn[d].alone /\ q \in FilesPart!Paths /\ turn[d].own[q] \in {0, FilesPart!ReadLocal(d, q)}
            BY <2>1, <2>4 DEF Overwrites, FilesInv, OwnThere, FilesPart!Paths
        <3>2. FilesPart!ReadLocal(d, q)' = IF FilesPart!Boxed(d) THEN boxes[FilesPart!Executor(d)][q] ELSE home'[q]
            BY <1>2, <2>2 DEF FilesPart!ReadLocal
        <3>3. CASE q = p
            BY <3>2, <3>3, <2>1, <2>3, <1>5 DEF Overwrites
        <3>4. CASE q # p
            <4>1. FilesPart!ReadLocal(d, q)' = FilesPart!ReadLocal(d, q)
                BY <3>2, <3>4, <2>3 DEF FilesPart!ReadLocal
            <4> QED
                BY <4>1, <3>1, <3>4, <2>1 DEF Overwrites
        <3> QED
            BY <3>3, <3>4
    <2>5. OwnThere'
        BY <1>1, <2>1, <2>4 DEF FilesInv, OwnThere, FilesPart!Paths, Overwrites
    <2>6. boxes' \in [Chats -> [Artifacts \cup Local -> FilesPart!Contents]]
        BY <2>2 DEF FilesInv, FilesTyped, FilesPart!TypeOK
    <2> QED
        BY <1>1, <1>3, <2>1, <2>3, <2>5, <2>6, Wrote
<1> QED
    BY <1>4, <1>5

\* A turn that is alone reads from where its own content is.
LEMMA OwnIsRead ==
    ASSUME FilesAssumed, FilesInv, NEW c \in Chats, NEW p \in FilesPart!Paths, turn[c].on, turn[c].alone
    PROVE  turn[c].own[p] \in {0, FilesPart!ReadFile(c, p)}
<1>1. FilesPart!Session(c) = c
    BY DEF FilesInv, Lonely
<1>2. CASE p \in Identity
    BY <1>2 DEF FilesInv, OwnThere, FilesPart!ReadFile, FilesPart!ReadIdentity
<1>3. CASE p \in Artifacts
    BY <1>1, <1>3 DEF FilesInv, OwnThere, FilesPart!ReadFile, FilesPart!ReadArtifact, FilesAssumed
<1>4. CASE p \in Local
    BY <1>4 DEF FilesInv, OwnThere, FilesPart!ReadFile, FilesAssumed
<1> QED
    BY <1>2, <1>3, <1>4 DEF FilesPart!Paths

LEMMA CallEnds ==
    ASSUME FilesAssumed, FilesInv, NEW c \in Chats, FilesPart!Exec(c) \/ \E p \in FilesPart!Paths : FilesPart!Read(c, p)
    PROVE  FilesInv'
<1>1. UNCHANGED <<filePool, bound, fileRows, home, blobs, boxes, turn, contents>> /\ turn[c].on
    BY DEF FilesPart!Exec, FilesPart!Read, FilesPart!files
<1>2. FilesTyped'
    BY <1>1 DEF FilesInv, FilesTyped, FilesPart!TypeOK
<1>3. Bound' /\ Lonely'
    BY <1>1, NothingBound
<1>4. OwnThere'
    BY <1>1 DEF FilesInv, OwnThere, FilesPart!ReadLocal, FilesPart!Boxed, FilesPart!Executor
<1>5. FilesPart!FilesSound'
    <2>1. CASE FilesPart!Exec(c)
        <3>1. OwnerOf[c] \in FileUsers /\ filePool[OwnerOf[c]] \in BOOLEAN
            BY DEF FilesAssumed, FilesInv, FilesTyped, FilesPart!TypeOK
        <3>2. lastRead' = [of |-> c, ran |-> FilesPart!ExecRuns(c)] /\ filePool' = filePool
            BY <2>1, <1>1 DEF FilesPart!Exec
        <3>3. filePool[OwnerOf[c]] => FilesPart!ExecRuns(c) \in {"refused"} \cup FilesPart!ChatsOf(OwnerOf[c])
            BY <3>1 DEF FilesPart!ExecRuns, FilesPart!Boxed, FilesPart!Executor, FilesInv, Bound
        <3> HIDE DEF FilesPart!ExecRuns
        <3> QED
            BY <3>2, <3>3 DEF FilesPart!FilesSound, FilesPart!ReadBack, FilesPart!ExecContained, FilesPart!ChatsOf
    <2>2. CASE \E p \in FilesPart!Paths : FilesPart!Read(c, p)
        <3>1. PICK p \in FilesPart!Paths : lastRead' = [of |-> c, got |-> FilesPart!ReadFile(c, p), own |-> turn[c].own[p],
                                                        alone |-> turn[c].alone]
            BY <2>2 DEF FilesPart!Read
        <3>2. turn[c].alone => turn[c].own[p] \in {0, FilesPart!ReadFile(c, p)}
            BY <1>1, OwnIsRead
        <3> QED
            BY <3>1, <3>2 DEF FilesPart!FilesSound, FilesPart!ReadBack, FilesPart!ExecContained
    <2> QED
        BY <2>1, <2>2
<1> QED
    BY <1>2, <1>3, <1>4, <1>5 DEF FilesInv

LEMMA FilesStep ==
    ASSUME FilesAssumed, FilesInv, [FilesPart!Next]_(FilesPart!vars)
    PROVE  FilesInv'
<1>1. CASE UNCHANGED FilesPart!vars
    BY <1>1 DEF FilesPart!vars, FilesPart!files, FilesInv, FilesTyped, FilesPart!TypeOK, Turn, Bound, FilesPart!Session, Lonely, OwnThere, FilesPart!ReadLocal, FilesPart!Boxed,
       FilesPart!Executor, FilesPart!FilesSound, FilesPart!ReadBack, FilesPart!ExecContained
<1>2. CASE FilesPart!Next
    BY <1>2, BeginTurn, MirrorStep, EndTurn, CallEnds, IdentityWritten, ArtifactWritten, LocalWritten, CustomizeStep
       DEF FilesPart!Next
<1> QED
    BY <1>1, <1>2

--------------------------------------------------------------------------------
(***************************************************************************)
(* Skills.  After an operation that nothing harmed disk and store agree as *)
(* it promises, for any pods, skills and bundles and any interleaving of   *)
(* the operations' steps: for each kind, what it has done so far is there  *)
(* (Installed, Removed, Hydrated), and nobody who could harm it is at work *)
(* beside it (Quiet).                                                      *)
(***************************************************************************)
\* The component counts as this module does.
LEMMA SkillsCountAlike == \A S : SkillsPart!Cardinality(S) = Cardinality(S)
    BY DEF SkillsPart!Cardinality, Cardinality

Trees == [SkillsPart!Objects -> SkillsPart!Versions \cup {0}]

Operation ==
    [kind : SkillsPart!Kinds, pod : SkillPods, skill : SkillNames, version : SkillsPart!Versions \cup {1},
     phase : SkillsPart!Phases, todo : SUBSET SkillsPart!Objects, listed : Trees, shown : SUBSET SkillNames, harmed : BOOLEAN]

PhasesOf(kind) ==
    IF kind = "install" THEN {"extract", "walk", "upload", "done"}
    ELSE IF kind = "delete" THEN {"remove", "list", "erase", "done"} ELSE {"list", "fetch", "done"}

\* What an operation has to do is about its own skill, and nothing once it is done.
Works(op) ==
    /\ op \in Operation /\ op.phase \in PhasesOf(op.kind)
    /\ op.phase = "done" => op.todo = {}
    /\ op.kind # "hydrate" => \A o \in op.todo : o[1] = op.skill
    /\ op.kind = "install" => op.version \in SkillsPart!Versions

\* What an install has put, a delete has removed and a hydrate has fetched so far.
Installed(op) ==
    op.kind = "install" /\ op.phase \in {"upload", "done"} =>
        \A o \in SkillsPart!Objects \ op.todo :
            o[1] = op.skill /\ disk[op.pod][o] # 0 => store[o] = disk[op.pod][o]

Removed(op) ==
    op.kind = "delete" =>
        /\ op.phase \in {"list", "erase", "done"} =>
            \A o \in SkillsPart!Objects : o[1] = op.skill => disk[op.pod][o] = 0
        /\ op.phase \in {"erase", "done"} =>
            \A o \in SkillsPart!Objects \ op.todo : o[1] = op.skill => store[o] = 0

SizesAgree(tree, o) == tree[o] # 0 /\ SizeOf[tree[o]] = SizeOf[store[o]]

Matches(tree, discovered) ==
    /\ \A o \in SkillsPart!Keys(store) : SizesAgree(tree, o)
    /\ SkillsPart!Keys(store) # {} => SkillsPart!Names(tree) = SkillsPart!Names(store) /\ SkillsPart!Discovered(store) \subseteq discovered

Hydrated(op) ==
    op.kind = "hydrate" =>
        /\ op.phase = "fetch" => /\ op.listed = store /\ op.todo \subseteq SkillsPart!Keys(store)
                                 /\ \A o \in SkillsPart!Keys(store) \ op.todo : SizesAgree(disk[op.pod], o)
        /\ op.phase = "done" => Matches(disk[op.pod], op.shown)

Does(op) == ~op.harmed => Installed(op) /\ Removed(op) /\ Hydrated(op)

\* Nobody who could harm an operation is at work beside it.
Quiet == \A n \in DOMAIN ops : ~ops[n].harmed =>
            \A m \in DOMAIN ops \ {n} : ops[m].phase # "done" => ~SkillsPart!Harms(ops[m], ops[n])

SkillsTyped ==
    /\ store \in Trees /\ disk \in [SkillPods -> Trees] /\ opsBegun \in 0 .. MaxOps
    /\ DOMAIN ops \subseteq 1..MaxOpen /\ \A n \in DOMAIN ops : Works(ops[n])

SkillsInv == SkillsTyped /\ Quiet /\ \A n \in DOMAIN ops : Does(ops[n])

LEMMA SkillsInit == ASSUME SkillsAssumed PROVE SkillsPart!Init => SkillsInv
<1> SUFFICES ASSUME SkillsPart!Init PROVE SkillsInv
    OBVIOUS
<1>1. DOMAIN ops = {}
    BY DEF SkillsPart!Init
<1> QED
    BY <1>1 DEF SkillsPart!Init, SkillsInv, SkillsTyped, Quiet, Trees, SkillsAssumed

\* The parts say what the properties do.
LEMMA SkillsAgree == ASSUME SkillsInv PROVE SkillsPart!ReplicasAgree /\ SkillsPart!TypeOK
<1>1. SkillsPart!HydratedPodMatches
    <2> SUFFICES ASSUME NEW n \in DOMAIN ops, SkillsPart!Settled(n, "hydrate")
                 PROVE  LET tree == disk[ops[n].pod] IN
                        /\ \A o \in SkillsPart!Keys(store) : tree[o] # 0 /\ SizeOf[tree[o]] = SizeOf[store[o]]
                        /\ SkillsPart!Keys(store) # {} => SkillsPart!Names(tree) = SkillsPart!Names(store)
                        /\ SkillsPart!Keys(store) # {} => SkillsPart!Discovered(store) \subseteq ops[n].shown
        BY DEF SkillsPart!HydratedPodMatches
    <2>1. Matches(disk[ops[n].pod], ops[n].shown)
        BY DEF SkillsPart!Settled, SkillsInv, Does, Hydrated
    <2> QED
        BY <2>1 DEF Matches, SizesAgree
<1>2. SkillsPart!InstallMirrored
    <2> SUFFICES ASSUME NEW n \in DOMAIN ops, SkillsPart!Settled(n, "install"), NEW f \in SkillFiles,
                        disk[ops[n].pod][<<ops[n].skill, f>>] # 0
                 PROVE  store[<<ops[n].skill, f>>] = disk[ops[n].pod][<<ops[n].skill, f>>]
        BY DEF SkillsPart!InstallMirrored
    <2>1. Works(ops[n]) /\ Installed(ops[n]) /\ ops[n].kind = "install" /\ ops[n].phase = "done"
        BY DEF SkillsPart!Settled, SkillsInv, Does, SkillsTyped
    <2> QED
        BY <2>1 DEF Works, Operation, Installed, SkillsPart!Objects
<1>3. SkillsPart!DeleteComplete
    <2> SUFFICES ASSUME NEW n \in DOMAIN ops, SkillsPart!Settled(n, "delete")
                 PROVE  ops[n].skill \notin SkillsPart!Names(store) \cup SkillsPart!Names(disk[ops[n].pod])
        BY DEF SkillsPart!DeleteComplete
    <2>1. Works(ops[n]) /\ Removed(ops[n]) /\ ops[n].kind = "delete" /\ ops[n].phase = "done"
        BY DEF SkillsPart!Settled, SkillsInv, Does, SkillsTyped
    <2>2. \A o \in SkillsPart!Objects : o[1] = ops[n].skill => disk[ops[n].pod][o] = 0 /\ store[o] = 0
        BY <2>1 DEF Works, Removed
    <2> QED
        BY <2>2 DEF SkillsPart!Names, SkillsPart!Keys
<1>4. SkillsPart!TypeOK
    BY DEF SkillsInv, SkillsTyped, SkillsPart!TypeOK, Trees, Works, Operation
<1> QED
    BY <1>1, <1>2, <1>3, <1>4 DEF SkillsPart!ReplicasAgree

\* An operation at work changes what it may harm, and nothing else.
Confined(op) ==
    IF op.kind = "hydrate" THEN store' = store /\ \A q \in SkillPods \ {op.pod} : disk'[q] = disk[q]
    ELSE \A o \in SkillsPart!Objects : o[1] # op.skill =>
            store'[o] = store[o] /\ \A q \in SkillPods : disk'[q][o] = disk[q][o]

LEMMA OthersUntouched ==
    ASSUME SkillsInv, store' \in Trees, disk' \in [SkillPods -> Trees],
           NEW op \in Operation, Confined(op),
           NEW n \in DOMAIN ops, ops'[n] = ops[n], ~ops[n].harmed => ~SkillsPart!Harms(op, ops[n])
    PROVE  Does(ops[n])'
<1> DEFINE w == ops[n]
<1>1. Works(w) /\ Does(w) /\ w.pod \in SkillPods /\ op.pod \in SkillPods /\ op.kind \in SkillsPart!Kinds
      /\ store \in Trees /\ disk \in [SkillPods -> Trees]
    BY DEF SkillsInv, SkillsTyped, Works, Operation
<1> SUFFICES ASSUME ~w.harmed PROVE (Installed(ops[n]) /\ Removed(ops[n]) /\ Hydrated(ops[n]))'
    BY DEF Does
<1>2. Installed(w) /\ Removed(w) /\ Hydrated(w) /\ ~SkillsPart!Harms(op, w)
    BY <1>1 DEF Does
<1>3. CASE w.kind = "hydrate"
    <2>1. store' = store /\ disk'[w.pod] = disk[w.pod]
        BY <1>1, <1>2, <1>3 DEF SkillsPart!Harms, Confined
    <2>2. ops'[n].kind = "hydrate"
        BY <1>3
    <2>3. (Installed(ops[n]) /\ Removed(ops[n]))'
        BY <2>2 DEF Installed, Removed
    <2>4. Hydrated(ops[n])'
        BY <2>1, <1>2 DEF Hydrated, Matches, SizesAgree, SkillsPart!Keys, SkillsPart!Names, SkillsPart!Discovered
    <2> QED
        BY <2>3, <2>4
<1>4. CASE w.kind # "hydrate"
    <2>1. \A o \in SkillsPart!Objects : o[1] = w.skill => store'[o] = store[o] /\ disk'[w.pod][o] = disk[w.pod][o]
        BY <1>1, <1>2, <1>4 DEF SkillsPart!Harms, Confined
    <2>2. Installed(ops[n])'
        BY <2>1, <1>2 DEF Installed
    <2>3. Removed(ops[n])'
        BY <2>1, <1>2 DEF Removed
    <2>4. Hydrated(ops[n])'
        BY <1>4 DEF Hydrated
    <2> QED
        BY <2>2, <2>3, <2>4
<1> QED
    BY <1>3, <1>4

\* A step of operation n that goes on keeps the invariant if it keeps n's own part of it.
LEMMA OwnStep ==
    ASSUME SkillsInv, NEW n \in DOMAIN ops, ops[n].phase # "done",
           NEW op, ops' = [ops EXCEPT ![n] = op], Works(op),
           op.kind = ops[n].kind, op.pod = ops[n].pod, op.skill = ops[n].skill, op.harmed = ops[n].harmed,
           opsBegun' = opsBegun, store' \in Trees, disk' \in [SkillPods -> Trees], Confined(ops[n]), Does(ops[n])'
    PROVE  SkillsInv'
<1>1. /\ DOMAIN ops' = DOMAIN ops /\ ops'[n] = op
      /\ \A m \in DOMAIN ops \ {n} : ops'[m] = ops[m]
    OBVIOUS
<1>2. SkillsTyped'
    BY <1>1 DEF SkillsInv, SkillsTyped, Works, Trees, Operation, SkillsPart!Objects
<1>3. Quiet'
    BY <1>1 DEF SkillsInv, Quiet, SkillsPart!Harms
<1>4. ASSUME NEW m \in DOMAIN ops, m # n PROVE Does(ops[m])'
    <2>1. ~ops[m].harmed => ~SkillsPart!Harms(ops[n], ops[m])
        BY <1>4 DEF SkillsInv, Quiet
    <2>2. ops[n] \in Operation /\ ops'[m] = ops[m]
        BY <1>1, <1>4 DEF SkillsInv, SkillsTyped, Works
    <2> QED
        BY <2>1, <2>2, OthersUntouched
<1>5. \A m \in DOMAIN ops' : Does(ops[m])'
    BY <1>1, <1>4
<1> QED
    BY <1>2, <1>3, <1>5 DEF SkillsInv

\* Operations that leave take nothing from those that stay.
LEMMA FewerOps ==
    ASSUME SkillsInv, NEW gone, DOMAIN ops' = DOMAIN ops \ gone,
           \A n \in DOMAIN ops' : ops'[n] = ops[n],
           opsBegun' = opsBegun, store' = store, disk' \in [SkillPods -> Trees],
           \A n \in DOMAIN ops' : disk'[ops[n].pod] = disk[ops[n].pod]
    PROVE  SkillsInv'
<1>1. SkillsTyped'
    BY DEF SkillsInv, SkillsTyped
<1>2. Quiet'
    BY DEF SkillsInv, Quiet, SkillsPart!Harms
<1>3. ASSUME NEW n \in DOMAIN ops' PROVE Does(ops[n])'
    <2>1. Does(ops[n]) /\ ops'[n] = ops[n] /\ disk'[ops[n].pod] = disk[ops[n].pod] /\ store' = store
        BY <1>3 DEF SkillsInv
    <2> QED
        BY <2>1 DEF Does, Installed, Removed, Hydrated, Matches, SizesAgree, SkillsPart!Keys, SkillsPart!Names, SkillsPart!Discovered
<1> QED
    BY <1>1, <1>2, <1>3 DEF SkillsInv

\* A new operation: whom it may harm is marked, and itself if somebody at work may harm it.
LEMMA Begins ==
    ASSUME SkillsAssumed, SkillsInv, NEW op, Works(op), ~op.harmed, op.phase # "done", SkillsPart!Begin(op),
           Does(op), store' = store, disk' = disk
    PROVE  SkillsInv'
<1> DEFINE new == CHOOSE n \in 1..MaxOpen : n \notin DOMAIN ops
           meets == \E m \in DOMAIN ops : ops[m].phase # "done" /\ SkillsPart!Harms(ops[m], op)
<1>1. new \in 1..MaxOpen /\ new \notin DOMAIN ops
    <2> SUFFICES \E n \in 1..MaxOpen : n \notin DOMAIN ops
        OBVIOUS
    <2> SUFFICES ASSUME 1..MaxOpen \subseteq DOMAIN ops PROVE FALSE
        OBVIOUS
    <2>1. DOMAIN ops = 1..MaxOpen
        BY DEF SkillsInv, SkillsTyped
    <2>2. Cardinality(1..MaxOpen) = MaxOpen
        BY FS_Interval DEF SkillsAssumed
    <2> QED
        BY <2>1, <2>2, SkillsCountAlike DEF SkillsPart!Begin, SkillsAssumed
<1>2. ops' = [n \in DOMAIN ops \cup {new} |-> IF n = new THEN [op EXCEPT !.harmed = meets]
                                              ELSE [ops[n] EXCEPT !.harmed = @ \/ SkillsPart!Harms(op, ops[n])]]
    BY DEF SkillsPart!Begin
<1> DEFINE marked(n) == ops[n].harmed \/ SkillsPart!Harms(op, ops[n])
<1>3. meets \in BOOLEAN /\ \A n \in DOMAIN ops : marked(n) \in BOOLEAN
    BY DEF SkillsPart!Harms, SkillsInv, SkillsTyped, Works, Operation
<1>4. ASSUME NEW m \in DOMAIN ops, ops[m].phase # "done", ~meets PROVE ~SkillsPart!Harms(ops[m], op)
    BY <1>4
<1>5. /\ DOMAIN ops' = DOMAIN ops \cup {new} /\ ops'[new] = [op EXCEPT !.harmed = meets]
      /\ \A n \in DOMAIN ops : ops'[n] = [ops[n] EXCEPT !.harmed = marked(n)]
    BY <1>1, <1>2
<1>6. opsBegun' = opsBegun + 1 /\ opsBegun < MaxOps
    BY DEF SkillsPart!Begin
<1> HIDE DEF new, meets
<1>7. ASSUME NEW w, Works(w), NEW b \in BOOLEAN
      PROVE  /\ Works([w EXCEPT !.harmed = b]) /\ [w EXCEPT !.harmed = b].harmed = b
             /\ \A f \in {"kind", "pod", "skill", "phase", "todo", "listed", "shown"} :
                    [w EXCEPT !.harmed = b][f] = w[f]
    BY <1>7 DEF Works, Operation
<1>8. /\ Works(ops'[new]) /\ ops'[new].harmed = meets /\ ops'[new].kind = op.kind /\ ops'[new].pod = op.pod
      /\ ops'[new].skill = op.skill /\ ops'[new].phase = op.phase /\ ops'[new].todo = op.todo
      /\ ops'[new].listed = op.listed /\ ops'[new].shown = op.shown
    BY <1>3, <1>5, <1>7
<1>9. \A n \in DOMAIN ops :
        /\ Works(ops'[n]) /\ ops'[n].harmed = marked(n) /\ ops'[n].kind = ops[n].kind
        /\ ops'[n].pod = ops[n].pod /\ ops'[n].skill = ops[n].skill /\ ops'[n].phase = ops[n].phase
        /\ ops'[n].todo = ops[n].todo /\ ops'[n].listed = ops[n].listed /\ ops'[n].shown = ops[n].shown
    <2> SUFFICES ASSUME NEW n \in DOMAIN ops
                 PROVE  /\ Works(ops'[n]) /\ ops'[n].harmed = marked(n) /\ ops'[n].kind = ops[n].kind
                        /\ ops'[n].pod = ops[n].pod /\ ops'[n].skill = ops[n].skill /\ ops'[n].phase = ops[n].phase
                        /\ ops'[n].todo = ops[n].todo /\ ops'[n].listed = ops[n].listed /\ ops'[n].shown = ops[n].shown
        OBVIOUS
    <2>1. Works(ops[n]) /\ marked(n) \in BOOLEAN /\ ops'[n] = [ops[n] EXCEPT !.harmed = marked(n)]
        BY <1>3, <1>5 DEF SkillsInv, SkillsTyped
    <2> HIDE DEF marked
    <2> QED
        BY <2>1, <1>7
<1>13. \A n \in DOMAIN ops : ~marked(n) => ~ops[n].harmed /\ ~SkillsPart!Harms(op, ops[n])
    OBVIOUS
<1> HIDE DEF marked
<1>10. SkillsTyped'
    BY <1>1, <1>5, <1>6, <1>8, <1>9 DEF SkillsInv, SkillsTyped, SkillsAssumed
<1>11. Quiet'
    <2> SUFFICES ASSUME NEW n \in DOMAIN ops', ~ops'[n].harmed, NEW m \in DOMAIN ops' \ {n}, ops'[m].phase # "done"
                 PROVE  ~SkillsPart!Harms(ops'[m], ops'[n])
        BY DEF Quiet, SkillsPart!Harms
    <2>1. CASE n = new
        BY <2>1, <1>1, <1>4, <1>5, <1>8, <1>9 DEF SkillsPart!Harms
    <2>2. CASE m = new
        <3>1. n \in DOMAIN ops /\ ~SkillsPart!Harms(op, ops[n])
            BY <2>2, <1>5, <1>9, <1>13
        <3> QED
            BY <3>1, <2>2, <1>8, <1>9 DEF SkillsPart!Harms
    <2>3. CASE n # new /\ m # new
        <3>1. /\ n \in DOMAIN ops /\ m \in DOMAIN ops /\ n # m /\ ~ops[n].harmed
              /\ ops[m].phase # "done"
            BY <2>3, <1>5, <1>9, <1>13
        <3>2. ~SkillsPart!Harms(ops[m], ops[n])
            BY <3>1 DEF SkillsInv, Quiet
        <3> QED
            BY <3>1, <3>2, <1>9 DEF SkillsPart!Harms
    <2> QED
        BY <2>1, <2>2, <2>3
<1>12. ASSUME NEW n \in DOMAIN ops' PROVE Does(ops[n])'
    <2>1. CASE n = new
        BY <2>1, <1>8 DEF Does, Installed, Removed, Hydrated, Matches, SizesAgree, SkillsPart!Keys, SkillsPart!Names, SkillsPart!Discovered
    <2>2. CASE n # new
        <3>1. n \in DOMAIN ops /\ Does(ops[n]) /\ (~ops'[n].harmed => ~ops[n].harmed)
            BY <2>2, <1>5, <1>9, <1>13 DEF SkillsInv
        <3> QED
            BY <3>1, <1>9 DEF Does, Installed, Removed, Hydrated, Matches, SizesAgree, SkillsPart!Keys, SkillsPart!Names, SkillsPart!Discovered
    <2> QED
        BY <2>1, <2>2
<1> QED
    BY <1>10, <1>11, <1>12 DEF SkillsInv

LEMMA InstallStep ==
    ASSUME SkillsAssumed, SkillsInv, NEW p \in SkillPods, NEW s \in SkillNames, NEW v \in SkillsPart!Versions, SkillsPart!Install(p, s, v)
    PROVE  SkillsInv'
<1> DEFINE op == [SkillsPart!Op("install", p, s, v, "extract") EXCEPT !.todo = SkillsPart!Bundle(s, v)]
<1>1. SkillsPart!Bundle(s, v) \in SUBSET SkillsPart!Objects /\ \A o \in SkillsPart!Bundle(s, v) : o[1] = s
    BY DEF SkillsPart!Bundle, SkillsPart!Objects, SkillsAssumed
<1>2. Works(op) /\ ~op.harmed /\ op.phase = "extract" /\ op.kind = "install"
    BY <1>1 DEF SkillsPart!Op, Works, Operation, PhasesOf, SkillsPart!Kinds, SkillsPart!Phases, Trees
<1>3. Does(op)
    BY <1>2 DEF Does, Installed, Removed, Hydrated
<1>4. SkillsPart!Begin(op) /\ store' = store /\ disk' = disk
    BY DEF SkillsPart!Install
<1> HIDE DEF op
<1> QED
    BY <1>2, <1>3, <1>4, Begins

LEMMA DeleteStep ==
    ASSUME SkillsAssumed, SkillsInv, NEW p \in SkillPods, NEW s \in SkillNames, SkillsPart!Delete(p, s)
    PROVE  SkillsInv'
<1> DEFINE op == SkillsPart!Op("delete", p, s, 1, "remove")
<1>1. Works(op) /\ ~op.harmed /\ op.phase = "remove" /\ op.kind = "delete"
    BY DEF SkillsPart!Op, Works, Operation, PhasesOf, SkillsPart!Kinds, SkillsPart!Phases, Trees
<1>2. Does(op)
    BY <1>1 DEF Does, Installed, Removed, Hydrated
<1>3. SkillsPart!Begin(op) /\ store' = store /\ disk' = disk
    BY DEF SkillsPart!Delete
<1> HIDE DEF op
<1> QED
    BY <1>1, <1>2, <1>3, Begins

LEMMA HydrateStep ==
    ASSUME SkillsAssumed, SkillsInv, NEW p \in SkillPods, SkillsPart!Hydrate(p)
    PROVE  SkillsInv'
<1> DEFINE s == CHOOSE x \in SkillNames : TRUE
           op == SkillsPart!Op("hydrate", p, s, 1, "list")
<1>1. s \in SkillNames
    BY DEF SkillsAssumed
<1>2. SkillsPart!Begin(op) /\ store' = store /\ disk' = disk
    BY DEF SkillsPart!Hydrate
<1> HIDE DEF s
<1>3. Works(op) /\ ~op.harmed /\ op.phase = "list" /\ op.kind = "hydrate"
    BY <1>1 DEF SkillsPart!Op, Works, Operation, PhasesOf, SkillsPart!Kinds, SkillsPart!Phases, Trees
<1>4. Does(op)
    BY <1>3 DEF Does, Installed, Removed, Hydrated
<1> HIDE DEF op
<1> QED
    BY <1>2, <1>3, <1>4, Begins

\* What an operation becomes that goes on.
LEMMA OperationGoesOn ==
    ASSUME SkillsInv, NEW n \in DOMAIN ops, NEW next \in PhasesOf(ops[n].kind), NEW left \in SUBSET SkillsPart!Objects,
           next = "done" => left = {}, ops[n].kind # "hydrate" => \A o \in left : o[1] = ops[n].skill,
           ops' = SkillsPart!Become(n, next, left)
    PROVE  /\ ops' = [ops EXCEPT ![n] = ops'[n]] /\ Works(ops'[n]) /\ Works(ops[n])
           /\ ops'[n].kind = ops[n].kind /\ ops'[n].pod = ops[n].pod /\ ops'[n].skill = ops[n].skill
           /\ ops'[n].harmed = ops[n].harmed /\ ops'[n].version = ops[n].version
           /\ ops'[n].listed = ops[n].listed /\ ops'[n].shown = ops[n].shown
           /\ ops'[n].phase = next /\ ops'[n].todo = left
<1>1. Works(ops[n])
    BY DEF SkillsInv, SkillsTyped
<1>2. next \in SkillsPart!Phases
    BY <1>1 DEF PhasesOf, SkillsPart!Phases
<1>3. ops'[n] = [ops[n] EXCEPT !.phase = next, !.todo = left]
    BY DEF SkillsPart!Become
<1>4. ops' = [ops EXCEPT ![n] = ops'[n]]
    BY DEF SkillsPart!Become
<1>5. Works(ops'[n])
    BY <1>1, <1>2, <1>3 DEF Works, Operation
<1> QED
    BY <1>1, <1>3, <1>4, <1>5 DEF Works, Operation

\* What a tree becomes when one file of it is put.
LEMMA FilePut ==
    ASSUME NEW tree \in Trees, NEW o \in SkillsPart!Objects, NEW v \in SkillsPart!Versions \cup {0}
    PROVE  /\ SkillsPart!PutFile(tree, o, v) \in Trees /\ SkillsPart!PutFile(tree, o, v)[o] = v
           /\ \A x \in SkillsPart!Objects \ {o} : SkillsPart!PutFile(tree, o, v)[x] = tree[x]
    BY DEF SkillsPart!PutFile, Trees

LEMMA ExtractStep ==
    ASSUME SkillsInv, NEW n \in DOMAIN ops, SkillsPart!Extract(n)
    PROVE  SkillsInv'
<1>1. Works(ops[n]) /\ ops[n].phase = "extract" /\ ops[n].kind = "install" /\ store' = store /\ opsBegun' = opsBegun
      /\ ops[n].pod \in SkillPods /\ ops[n].version \in SkillsPart!Versions /\ disk[ops[n].pod] \in Trees /\ store \in Trees
      /\ disk \in [SkillPods -> Trees]
    BY DEF SkillsPart!Extract, SkillsInv, SkillsTyped, Works, PhasesOf, Operation, SkillsPart!Kinds
<1>2. PICK o \in ops[n].todo :
        /\ disk' = [disk EXCEPT ![ops[n].pod] = SkillsPart!PutFile(@, o, ops[n].version)]
        /\ ops' = SkillsPart!Become(n, IF ops[n].todo = {o} THEN "walk" ELSE "extract", ops[n].todo \ {o})
    BY DEF SkillsPart!Extract
<1> DEFINE next == IF ops[n].todo = {o} THEN "walk" ELSE "extract"
           left == ops[n].todo \ {o}
<1>3. o \in SkillsPart!Objects /\ o[1] = ops[n].skill /\ left \in SUBSET SkillsPart!Objects /\ next \in PhasesOf(ops[n].kind)
      /\ next # "done" /\ next \in {"walk", "extract"} /\ \A x \in left : x[1] = ops[n].skill
    BY <1>1 DEF Works, Operation, PhasesOf
<1> HIDE DEF next, left
<1>4. /\ ops' = [ops EXCEPT ![n] = ops'[n]] /\ Works(ops'[n])
      /\ ops'[n].kind = ops[n].kind /\ ops'[n].pod = ops[n].pod /\ ops'[n].skill = ops[n].skill
      /\ ops'[n].harmed = ops[n].harmed /\ ops'[n].phase = next
    BY <1>2, <1>3, OperationGoesOn DEF next, left
<1>5. disk' \in [SkillPods -> Trees] /\ Confined(ops[n])
    <2>1. SkillsPart!PutFile(disk[ops[n].pod], o, ops[n].version) \in Trees
          /\ \A x \in SkillsPart!Objects \ {o} : SkillsPart!PutFile(disk[ops[n].pod], o, ops[n].version)[x] = disk[ops[n].pod][x]
        BY <1>1, <1>3, FilePut
    <2> QED
        BY <2>1, <1>1, <1>2, <1>3 DEF Confined
<1>6. Does(ops[n])'
    BY <1>1, <1>3, <1>4 DEF Does, Installed, Removed, Hydrated
<1> QED
    BY <1>1, <1>4, <1>5, <1>6, OwnStep

\* Operations that end leave the others and the trees alone.
LEMMA EndsStep ==
    ASSUME SkillsInv, NEW n \in DOMAIN ops, ops' = SkillsPart!Ends(n), UNCHANGED <<store, disk, opsBegun>>
    PROVE  SkillsInv'
<1>1. DOMAIN ops' = DOMAIN ops \ {n} /\ \A m \in DOMAIN ops' : ops'[m] = ops[m]
    BY DEF SkillsPart!Ends
<1>2. disk' \in [SkillPods -> Trees]
    BY DEF SkillsInv, SkillsTyped
<1> QED
    BY <1>1, <1>2, FewerOps

LEMMA WalkStep ==
    ASSUME SkillsInv, NEW n \in DOMAIN ops, SkillsPart!Walk(n)
    PROVE  SkillsInv'
<1> DEFINE next == "upload"
           left == {o \in SkillsPart!Keys(disk[ops[n].pod]) : o[1] = ops[n].skill}
<1>1. Works(ops[n]) /\ ops[n].phase = "walk" /\ ops[n].kind = "install" /\ UNCHANGED <<store, disk, opsBegun>>
      /\ store \in Trees /\ disk \in [SkillPods -> Trees]
    BY DEF SkillsPart!Walk, SkillsInv, SkillsTyped, Works, PhasesOf, Operation, SkillsPart!Kinds
<1>2. CASE ops' = SkillsPart!Ends(n)
    BY <1>1, <1>2, EndsStep
<1>3. CASE ops' = SkillsPart!Become(n, next, left)
    <2>1. left \in SUBSET SkillsPart!Objects /\ next \in PhasesOf(ops[n].kind) /\ next # "done"
          /\ \A o \in left : o[1] = ops[n].skill
        BY <1>1 DEF PhasesOf, SkillsPart!Keys
    <2>2. \A o \in SkillsPart!Objects \ left : o[1] = ops[n].skill => disk[ops[n].pod][o] = 0
        BY DEF SkillsPart!Keys
    <2> HIDE DEF left
    <2>3. /\ ops' = [ops EXCEPT ![n] = ops'[n]] /\ Works(ops'[n])
          /\ ops'[n].kind = ops[n].kind /\ ops'[n].pod = ops[n].pod /\ ops'[n].skill = ops[n].skill
          /\ ops'[n].harmed = ops[n].harmed /\ ops'[n].phase = next /\ ops'[n].todo = left
          /\ ops'[n].listed = ops[n].listed
        BY <1>3, <2>1, OperationGoesOn
    <2>4. Does(ops[n])'
        BY <1>1, <2>2, <2>3 DEF Does, Installed, Removed, Hydrated
    <2>5. Confined(ops[n])
        BY <1>1 DEF Confined
    <2> QED
        BY <1>1, <2>3, <2>4, <2>5, OwnStep
<1> QED
    BY <1>2, <1>3 DEF SkillsPart!Walk

LEMMA UploadStep ==
    ASSUME SkillsInv, NEW n \in DOMAIN ops, SkillsPart!Upload(n)
    PROVE  SkillsInv'
<1>1. Works(ops[n]) /\ ops[n].phase = "upload" /\ ops[n].kind = "install" /\ UNCHANGED <<disk, opsBegun>>
      /\ store \in Trees /\ disk \in [SkillPods -> Trees] /\ ops[n].pod \in SkillPods /\ Does(ops[n])
    BY DEF SkillsPart!Upload, SkillsInv, SkillsTyped, Works, PhasesOf, Operation, SkillsPart!Kinds
<1>2. PICK o \in ops[n].todo : LET v == disk[ops[n].pod][o] IN
        IF v = 0 THEN ops' = SkillsPart!Ends(n) /\ UNCHANGED store
        ELSE /\ store' = SkillsPart!PutFile(store, o, v)
             /\ ops' = SkillsPart!Become(n, IF ops[n].todo = {o} THEN "done" ELSE "upload", ops[n].todo \ {o})
    BY DEF SkillsPart!Upload
<1>3. CASE disk[ops[n].pod][o] = 0
    BY <1>1, <1>2, <1>3, EndsStep
<1>4. CASE disk[ops[n].pod][o] # 0
    <2> DEFINE next == IF ops[n].todo = {o} THEN "done" ELSE "upload"
               left == ops[n].todo \ {o}
               v == disk[ops[n].pod][o]
    <2>1. left \in SUBSET SkillsPart!Objects /\ next \in PhasesOf(ops[n].kind) /\ (next = "done" => left = {})
          /\ (\A x \in left : x[1] = ops[n].skill) /\ o \in SkillsPart!Objects /\ o[1] = ops[n].skill
          /\ v \in SkillsPart!Versions \cup {0}
        BY <1>1 DEF PhasesOf, Works, Operation, Trees
    <2>2. \A x \in SkillsPart!Objects \ left : x = o \/ x \notin ops[n].todo
        OBVIOUS
    <2>3. store' = SkillsPart!PutFile(store, o, v) /\ ops' = SkillsPart!Become(n, next, left)
        BY <1>2, <1>4
    <2> HIDE DEF left, next
    <2>4. /\ ops' = [ops EXCEPT ![n] = ops'[n]] /\ Works(ops'[n])
          /\ ops'[n].kind = ops[n].kind /\ ops'[n].pod = ops[n].pod /\ ops'[n].skill = ops[n].skill
          /\ ops'[n].harmed = ops[n].harmed /\ ops'[n].phase = next /\ ops'[n].todo = left
          /\ ops'[n].listed = ops[n].listed
        BY <2>1, <2>3, OperationGoesOn
    <2>5. store' \in Trees /\ store'[o] = v /\ \A x \in SkillsPart!Objects \ {o} : store'[x] = store[x]
        BY <1>1, <2>1, <2>3, FilePut
    <2>6. Does(ops[n])'
        BY <1>1, <2>2, <2>4, <2>5 DEF Does, Installed, Removed, Hydrated
    <2>7. Confined(ops[n])
        BY <1>1, <2>1, <2>5 DEF Confined
    <2> QED
        BY <1>1, <2>4, <2>5, <2>6, <2>7, OwnStep DEF PhasesOf
<1> QED
    BY <1>3, <1>4

LEMMA RemoveStep ==
    ASSUME SkillsInv, NEW n \in DOMAIN ops, SkillsPart!Remove(n)
    PROVE  SkillsInv'
<1> DEFINE next == "list"
           left == {}
           bare == SkillsPart!Without(disk[ops[n].pod], {ops[n].skill})
<1>1. Works(ops[n]) /\ ops[n].phase = "remove" /\ ops[n].kind = "delete" /\ UNCHANGED <<store, opsBegun>>
      /\ store \in Trees /\ disk \in [SkillPods -> Trees] /\ ops[n].pod \in SkillPods
      /\ disk' = [disk EXCEPT ![ops[n].pod] = bare] /\ ops' = SkillsPart!Become(n, next, left)
    BY DEF SkillsPart!Remove, SkillsInv, SkillsTyped, Works, PhasesOf, Operation, SkillsPart!Kinds
<1>2. bare \in Trees /\ \A o \in SkillsPart!Objects : bare[o] = IF o[1] = ops[n].skill THEN 0 ELSE disk[ops[n].pod][o]
    BY <1>1 DEF SkillsPart!Without, Trees
<1> HIDE DEF bare
<1>3. disk' \in [SkillPods -> Trees] /\ disk'[ops[n].pod] = bare /\ Confined(ops[n])
    BY <1>1, <1>2 DEF Confined
<1>4. left \in SUBSET SkillsPart!Objects /\ next \in PhasesOf(ops[n].kind)
    BY <1>1 DEF PhasesOf
<1>5. /\ ops' = [ops EXCEPT ![n] = ops'[n]] /\ Works(ops'[n])
      /\ ops'[n].kind = ops[n].kind /\ ops'[n].pod = ops[n].pod /\ ops'[n].skill = ops[n].skill
      /\ ops'[n].harmed = ops[n].harmed /\ ops'[n].phase = next /\ ops'[n].todo = left
      /\ ops'[n].listed = ops[n].listed
    BY <1>1, <1>4, OperationGoesOn
<1>6. Does(ops[n])'
    BY <1>1, <1>2, <1>3, <1>5 DEF Does, Installed, Removed, Hydrated
<1> QED
    BY <1>1, <1>3, <1>5, <1>6, OwnStep

LEMMA ListForDeleteStep ==
    ASSUME SkillsInv, NEW n \in DOMAIN ops, SkillsPart!ListForDelete(n)
    PROVE  SkillsInv'
<1> DEFINE left == {o \in SkillsPart!Keys(store) : o[1] = ops[n].skill}
           next == IF left = {} THEN "done" ELSE "erase"
<1>1. Works(ops[n]) /\ ops[n].phase = "list" /\ ops[n].kind = "delete" /\ UNCHANGED <<store, disk, opsBegun>>
      /\ store \in Trees /\ disk \in [SkillPods -> Trees] /\ Does(ops[n]) /\ ops' = SkillsPart!Become(n, next, left)
    BY DEF SkillsPart!ListForDelete, SkillsInv, SkillsTyped
<1>2. left \in SUBSET SkillsPart!Objects /\ next \in PhasesOf(ops[n].kind) /\ (next = "done" => left = {})
      /\ (\A o \in left : o[1] = ops[n].skill)
      /\ (\A o \in SkillsPart!Objects \ left : o[1] = ops[n].skill => store[o] = 0)
    BY <1>1 DEF PhasesOf, SkillsPart!Keys
<1> HIDE DEF left, next
<1>3. /\ ops' = [ops EXCEPT ![n] = ops'[n]] /\ Works(ops'[n])
      /\ ops'[n].kind = ops[n].kind /\ ops'[n].pod = ops[n].pod /\ ops'[n].skill = ops[n].skill
      /\ ops'[n].harmed = ops[n].harmed /\ ops'[n].phase = next /\ ops'[n].todo = left
      /\ ops'[n].listed = ops[n].listed
    BY <1>1, <1>2, OperationGoesOn
<1>4. Does(ops[n])'
    BY <1>1, <1>2, <1>3 DEF Does, Installed, Removed, Hydrated
<1>5. Confined(ops[n])
    BY <1>1 DEF Confined
<1> QED
    BY <1>1, <1>3, <1>4, <1>5, OwnStep

LEMMA EraseStep ==
    ASSUME SkillsInv, NEW n \in DOMAIN ops, SkillsPart!Erase(n)
    PROVE  SkillsInv'
<1>1. Works(ops[n]) /\ ops[n].phase = "erase" /\ ops[n].kind = "delete" /\ UNCHANGED <<disk, opsBegun>>
      /\ store \in Trees /\ disk \in [SkillPods -> Trees] /\ Does(ops[n])
    BY DEF SkillsPart!Erase, SkillsInv, SkillsTyped, Works, PhasesOf, Operation, SkillsPart!Kinds
<1>2. PICK o \in ops[n].todo :
        /\ store' = SkillsPart!PutFile(store, o, 0)
        /\ ops' = SkillsPart!Become(n, IF ops[n].todo = {o} THEN "done" ELSE "erase", ops[n].todo \ {o})
    BY DEF SkillsPart!Erase
<1> DEFINE next == IF ops[n].todo = {o} THEN "done" ELSE "erase"
           left == ops[n].todo \ {o}
<1>3. left \in SUBSET SkillsPart!Objects /\ next \in PhasesOf(ops[n].kind) /\ (next = "done" => left = {})
      /\ (\A x \in left : x[1] = ops[n].skill) /\ o \in SkillsPart!Objects /\ o[1] = ops[n].skill
    BY <1>1 DEF PhasesOf, Works, Operation
<1>4. \A x \in SkillsPart!Objects \ left : x = o \/ x \notin ops[n].todo
    OBVIOUS
<1>5. ops' = SkillsPart!Become(n, next, left)
    BY <1>2
<1> HIDE DEF left, next
<1>6. /\ ops' = [ops EXCEPT ![n] = ops'[n]] /\ Works(ops'[n])
      /\ ops'[n].kind = ops[n].kind /\ ops'[n].pod = ops[n].pod /\ ops'[n].skill = ops[n].skill
      /\ ops'[n].harmed = ops[n].harmed /\ ops'[n].phase = next /\ ops'[n].todo = left
      /\ ops'[n].listed = ops[n].listed
    BY <1>3, <1>5, OperationGoesOn
<1>7. store' \in Trees /\ store'[o] = 0 /\ \A x \in SkillsPart!Objects \ {o} : store'[x] = store[x]
    BY <1>1, <1>2, <1>3, FilePut
<1>8. Does(ops[n])'
    BY <1>1, <1>4, <1>6, <1>7 DEF Does, Installed, Removed, Hydrated
<1>9. Confined(ops[n])
    BY <1>1, <1>3, <1>7 DEF Confined
<1> QED
    BY <1>1, <1>6, <1>7, <1>8, <1>9, OwnStep

LEMMA ListForHydrateStep ==
    ASSUME SkillsInv, NEW n \in DOMAIN ops, SkillsPart!ListForHydrate(n)
    PROVE  SkillsInv'
<1> DEFINE op == [ops[n] EXCEPT !.phase = "fetch", !.todo = SkillsPart!Keys(store), !.listed = store]
<1>1. Works(ops[n]) /\ ops[n].phase = "list" /\ ops[n].kind = "hydrate" /\ UNCHANGED <<store, disk, opsBegun>>
      /\ store \in Trees /\ disk \in [SkillPods -> Trees] /\ SkillsPart!Keys(store) \in SUBSET SkillsPart!Objects
    BY DEF SkillsPart!ListForHydrate, SkillsInv, SkillsTyped, SkillsPart!Keys
<1>2. ops' = [ops EXCEPT ![n] = op]
    BY DEF SkillsPart!ListForHydrate, SkillsPart!Become
<1>3. Works(op) /\ op.kind = "hydrate" /\ op.phase = "fetch" /\ op.todo = SkillsPart!Keys(store) /\ op.listed = store
      /\ op.pod = ops[n].pod /\ op.skill = ops[n].skill /\ op.harmed = ops[n].harmed
    BY <1>1 DEF Works, Operation, PhasesOf, SkillsPart!Phases
<1> HIDE DEF op
<1>4. Does(ops[n])'
    BY <1>1, <1>2, <1>3 DEF Does, Installed, Removed, Hydrated, SkillsPart!Keys
<1>5. Confined(ops[n])
    BY <1>1 DEF Confined
<1> QED
    BY <1>1, <1>2, <1>3, <1>4, <1>5, OwnStep

LEMMA FetchStep ==
    ASSUME SkillsInv, NEW n \in DOMAIN ops, SkillsPart!Fetch(n)
    PROVE  SkillsInv'
<1> DEFINE p == ops[n].pod
           next == "fetch"
<1>1. Works(ops[n]) /\ ops[n].phase = "fetch" /\ ops[n].kind = "hydrate" /\ UNCHANGED <<store, opsBegun>>
      /\ store \in Trees /\ disk \in [SkillPods -> Trees] /\ Does(ops[n]) /\ p \in SkillPods
    BY DEF SkillsPart!Fetch, SkillsInv, SkillsTyped, Works, PhasesOf, Operation, SkillsPart!Kinds
<1>2. PICK o \in ops[n].todo :
        /\ disk' = IF store[o] = 0 \/ SkillsPart!SameSize(disk[p][o], ops[n].listed[o])
                   THEN disk ELSE [disk EXCEPT ![p] = SkillsPart!PutFile(@, o, store[o])]
        /\ ops' = SkillsPart!Become(n, next, ops[n].todo \ {o})
    BY DEF SkillsPart!Fetch
<1> DEFINE left == ops[n].todo \ {o}
<1>3. left \in SUBSET SkillsPart!Objects /\ next \in PhasesOf(ops[n].kind) /\ o \in SkillsPart!Objects
      /\ store[o] \in SkillsPart!Versions \cup {0}
    BY <1>1 DEF PhasesOf, Works, Operation, Trees
<1>4. \A x \in SkillsPart!Keys(store) \ left : x = o \/ x \notin ops[n].todo
    OBVIOUS
<1> HIDE DEF left
<1>5. /\ ops' = [ops EXCEPT ![n] = ops'[n]] /\ Works(ops'[n])
      /\ ops'[n].kind = ops[n].kind /\ ops'[n].pod = ops[n].pod /\ ops'[n].skill = ops[n].skill
      /\ ops'[n].harmed = ops[n].harmed /\ ops'[n].phase = next /\ ops'[n].todo = left
      /\ ops'[n].listed = ops[n].listed
    BY <1>1, <1>2, <1>3, OperationGoesOn DEF left
<1>6. /\ disk' \in [SkillPods -> Trees] /\ \A q \in SkillPods \ {p} : disk'[q] = disk[q]
      /\ \A x \in SkillsPart!Objects \ {o} : disk'[p][x] = disk[p][x]
      /\ disk'[p][o] = IF store[o] = 0 \/ SkillsPart!SameSize(disk[p][o], ops[n].listed[o]) THEN disk[p][o] ELSE store[o]
    <2>1. /\ SkillsPart!PutFile(disk[p], o, store[o]) \in Trees /\ SkillsPart!PutFile(disk[p], o, store[o])[o] = store[o]
          /\ \A x \in SkillsPart!Objects \ {o} : SkillsPart!PutFile(disk[p], o, store[o])[x] = disk[p][x]
        BY <1>1, <1>3, FilePut
    <2> QED
        BY <2>1, <1>1, <1>2
<1>7. Does(ops[n])'
    <2> SUFFICES ASSUME ~ops[n].harmed PROVE (Installed(ops[n]) /\ Removed(ops[n]) /\ Hydrated(ops[n]))'
        BY <1>5 DEF Does
    <2>1. /\ ops[n].listed = store /\ ops[n].todo \subseteq SkillsPart!Keys(store)
          /\ \A x \in SkillsPart!Keys(store) \ ops[n].todo : SizesAgree(disk[p], x)
        BY <1>1 DEF Does, Hydrated
    <2>2. \A x \in SkillsPart!Keys(store) \ left : disk'[p][x] # 0 /\ SizeOf[disk'[p][x]] = SizeOf[store[x]]
        BY <2>1, <1>4, <1>6 DEF SizesAgree, SkillsPart!Keys, SkillsPart!SameSize
    <2>3. left \subseteq SkillsPart!Keys(store)
        BY <2>1 DEF left
    <2> QED
        BY <2>1, <2>2, <2>3, <1>1, <1>5 DEF Installed, Removed, Hydrated, SizesAgree, SkillsPart!Keys
<1>8. Confined(ops[n])
    BY <1>1, <1>6 DEF Confined
<1> QED
    BY <1>1, <1>5, <1>6, <1>7, <1>8, OwnStep

LEMMA PruneStep ==
    ASSUME SkillsAssumed, SkillsInv, NEW n \in DOMAIN ops, SkillsPart!Prune(n)
    PROVE  SkillsInv'
<1> DEFINE p == ops[n].pod
           left == SkillsPart!Without(disk[p], SkillsPart!Stale(ops[n].listed, disk[p]))
           op == [ops[n] EXCEPT !.phase = "done", !.shown = SkillsPart!Discovered(left)]
<1>1. Works(ops[n]) /\ ops[n].phase = "fetch" /\ ops[n].kind = "hydrate" /\ UNCHANGED <<store, opsBegun>>
      /\ ops[n].todo = {} /\ p \in SkillPods
      /\ store \in Trees /\ disk \in [SkillPods -> Trees] /\ Does(ops[n]) /\ disk' = [disk EXCEPT ![p] = left]
    BY DEF SkillsPart!Prune, SkillsInv, SkillsTyped, Works, PhasesOf, Operation, SkillsPart!Kinds
<1>2. ops' = [ops EXCEPT ![n] = op]
    BY DEF SkillsPart!Prune
<1>3. SkillsPart!Discovered(left) \in SUBSET SkillNames /\ left \in Trees
      /\ \A o \in SkillsPart!Objects : left[o] = IF o[1] \in SkillsPart!Stale(ops[n].listed, disk[p]) THEN 0 ELSE disk[p][o]
    BY <1>1 DEF SkillsPart!Discovered, SkillsPart!Without, Trees
<1> HIDE DEF left
<1>4. Works(op) /\ op.kind = "hydrate" /\ op.phase = "done" /\ op.todo = {} /\ op.shown = SkillsPart!Discovered(left)
      /\ op.pod = ops[n].pod /\ op.skill = ops[n].skill /\ op.harmed = ops[n].harmed
    BY <1>1, <1>3 DEF Works, Operation, PhasesOf, SkillsPart!Phases
<1> HIDE DEF op
<1>5. disk' \in [SkillPods -> Trees] /\ disk'[p] = left /\ Confined(ops[n])
    BY <1>1, <1>3 DEF Confined
<1>6. ~ops[n].harmed => Matches(left, SkillsPart!Discovered(left))
    <2> SUFFICES ASSUME ~ops[n].harmed PROVE Matches(left, SkillsPart!Discovered(left))
        OBVIOUS
    <2>1. ops[n].listed = store /\ \A x \in SkillsPart!Keys(store) : SizesAgree(disk[p], x)
        BY <1>1 DEF Does, Hydrated
    <2>2. \A x \in SkillsPart!Keys(store) : SizesAgree(left, x)
        BY <2>1, <1>3 DEF SkillsPart!Keys, SkillsPart!Names, SkillsPart!Stale, SizesAgree
    <2>3. SkillsPart!Keys(store) # {} => SkillsPart!Names(left) = SkillsPart!Names(store)
        <3> SUFFICES ASSUME SkillsPart!Keys(store) # {} PROVE SkillsPart!Names(left) = SkillsPart!Names(store)
            OBVIOUS
        <3>1. SkillsPart!Names(store) # {}
            BY DEF SkillsPart!Names
        <3>2. SkillsPart!Names(left) \subseteq SkillsPart!Names(store)
            <4> SUFFICES ASSUME NEW o \in SkillsPart!Objects, left[o] # 0 PROVE o[1] \in SkillsPart!Names(store)
                BY DEF SkillsPart!Names, SkillsPart!Keys
            <4>1. o[1] \notin SkillsPart!Stale(store, disk[p]) /\ disk[p][o] # 0
                BY <1>3, <2>1
            <4>2. o[1] \in SkillsPart!Names(disk[p])
                BY <4>1 DEF SkillsPart!Names, SkillsPart!Keys
            <4> QED
                BY <4>1, <4>2, <3>1 DEF SkillsPart!Stale
        <3>3. SkillsPart!Names(store) \subseteq SkillsPart!Names(left)
            BY <2>2 DEF SkillsPart!Names, SkillsPart!Keys, SizesAgree
        <3> QED
            BY <3>2, <3>3
    <2>4. SkillsPart!Discovered(store) \subseteq SkillsPart!Discovered(left)
        BY <2>2 DEF SkillsPart!Discovered, SkillsPart!Keys, SizesAgree, SkillsPart!Objects, SkillsAssumed
    <2> QED
        BY <2>2, <2>3, <2>4 DEF Matches
<1>7. Does(ops[n])'
    BY <1>1, <1>2, <1>4, <1>5, <1>6 DEF Does, Installed, Removed, Hydrated, Matches, SizesAgree, SkillsPart!Keys, SkillsPart!Names, SkillsPart!Discovered
<1> QED
    BY <1>1, <1>2, <1>4, <1>5, <1>7, OwnStep

LEMMA RestartStep ==
    ASSUME SkillsInv, NEW p \in SkillPods, SkillsPart!Restart(p)
    PROVE  SkillsInv'
<1> DEFINE gone == {m \in DOMAIN ops : ops[m].pod = p}
<1>1. DOMAIN ops' = DOMAIN ops \ gone /\ \A n \in DOMAIN ops' : ops'[n] = ops[n] /\ ops[n].pod # p
    BY DEF SkillsPart!Restart
<1>2. disk' \in [SkillPods -> Trees] /\ \A q \in SkillPods \ {p} : disk'[q] = disk[q]
    BY DEF SkillsPart!Restart, SkillsInv, SkillsTyped, Trees
<1>3. \A n \in DOMAIN ops' : disk'[ops[n].pod] = disk[ops[n].pod]
    BY <1>1, <1>2 DEF SkillsInv, SkillsTyped, Works, Operation
<1> HIDE DEF gone
<1> QED
    BY <1>1, <1>2, <1>3, FewerOps DEF SkillsPart!Restart

LEMMA SkillsStep ==
    ASSUME SkillsAssumed, SkillsInv, [SkillsPart!Next]_(SkillsPart!vars)
    PROVE  SkillsInv'
<1>1. CASE UNCHANGED SkillsPart!vars
    BY <1>1 DEF SkillsPart!vars, SkillsInv, SkillsTyped, Quiet, SkillsPart!Harms, Does, Installed, Removed, Hydrated, Matches, SizesAgree, SkillsPart!Keys,
       SkillsPart!Names, SkillsPart!Discovered
<1>2. ASSUME NEW n \in DOMAIN ops, SkillsPart!StopsShort(n) \/ SkillsPart!Forget(n) PROVE SkillsInv'
    BY <1>2, EndsStep DEF SkillsPart!StopsShort, SkillsPart!Forget
<1>3. CASE SkillsPart!Next
    BY <1>2, <1>3, InstallStep, DeleteStep, HydrateStep, RestartStep, ExtractStep, WalkStep, UploadStep, RemoveStep,
       ListForDeleteStep, EraseStep, ListForHydrateStep, FetchStep, PruneStep
       DEF SkillsPart!Next
<1> QED
    BY <1>1, <1>3

--------------------------------------------------------------------------------
(***************************************************************************)
(* SkillLayers.  The prompt shows the skill of the highest layer, and a    *)
(* key goes to the variable of the skill that is shown, for any            *)
(* directories, settings and commands.  Merging upwards and searching      *)
(* downwards meet: the layer a merge ends with is the first one of the     *)
(* search (RanksFirst), as long as nothing has changed since.              *)
(***************************************************************************)
LayersInv == LayersPart!TypeOK /\ LayersPart!ShownRanksFirst /\ LayersPart!KeyWhereShown

\* A set of numbers that is not empty has a first one.
LEMMA FirstNumber ==
    ASSUME NEW S \in SUBSET Nat, S # {}
    PROVE  \E x \in S : \A y \in S : x <= y
<1>1. IsWellFoundedOn(OpToRel(<, Nat), Nat)
    BY NatLessThanWellFounded
<1>2. PICK x \in S : \A y \in S : ~(<<y, x>> \in OpToRel(<, Nat))
    BY <1>1, WFMin
<1>3. \A y \in S : ~(y < x)
    BY <1>2 DEF OpToRel
<1> QED
    BY <1>3

\* Both walks, place by place.
LEMMA LayerPlaces ==
    ASSUME LayersAssumed
    PROVE  /\ Len(Extra) \in Nat /\ Len(LayersPart!Layers) = Len(Extra) + 3 /\ DOMAIN LayersPart!Layers = 1..Len(Extra) + 3
           /\ DOMAIN LayersPart!AllSkillDirs = 1..Len(Extra) + 3
           /\ \A i \in 1..Len(Extra) : LayersPart!Layers[i] = Extra[i] /\ LayersPart!AllSkillDirs[i + 3] = Extra[i]
           /\ LayersPart!Layers[Len(Extra) + 1] = "managed" /\ LayersPart!Layers[Len(Extra) + 2] = "user"
           /\ LayersPart!Layers[Len(Extra) + 3] = "agent"
           /\ LayersPart!AllSkillDirs[1] = "agent" /\ LayersPart!AllSkillDirs[2] = "user" /\ LayersPart!AllSkillDirs[3] = "managed"
           /\ \A i \in DOMAIN LayersPart!AllSkillDirs : LayersPart!AllSkillDirs[i] \in LayersPart!Dirs
           /\ LayersPart!AllSkillDirs \in Seq(LayersPart!Dirs)
<1>1. Extra \in Seq(LayersPart!Extras) /\ Len(Extra) \in Nat /\ DOMAIN Extra = 1..Len(Extra)
    BY DEF LayersAssumed
<1> DEFINE up == <<"managed", "user", "agent">>
           down == <<"agent", "user", "managed">>
           All == LayersPart!Extras \cup {"managed", "user", "agent"}
<1>2. up \in Seq(All) /\ down \in Seq(All) /\ Extra \in Seq(All)
    BY <1>1
<1>3. LayersPart!Layers = Extra \o up /\ LayersPart!AllSkillDirs = down \o Extra
    BY DEF LayersPart!Layers, LayersPart!AllSkillDirs
<1>4. Len(up) = 3 /\ Len(down) = 3 /\ up[1] = "managed" /\ up[2] = "user" /\ up[3] = "agent"
      /\ down[1] = "agent" /\ down[2] = "user" /\ down[3] = "managed"
    OBVIOUS
<1> HIDE DEF up, down, All
<1>5. /\ Extra \o up \in Seq(All) /\ Len(Extra \o up) = Len(Extra) + Len(up)
      /\ \A i \in 1..Len(Extra) + Len(up) : (Extra \o up)[i] = IF i <= Len(Extra) THEN Extra[i] ELSE up[i - Len(Extra)]
    BY <1>2, ConcatProperties, Zenon
<1>6. /\ down \o Extra \in Seq(All) /\ Len(down \o Extra) = Len(down) + Len(Extra)
      /\ \A i \in 1..Len(down) + Len(Extra) : (down \o Extra)[i] = IF i <= Len(down) THEN down[i] ELSE Extra[i - Len(down)]
    BY <1>2, ConcatProperties, Zenon
<1>11. /\ LayersPart!Layers \in Seq(All) /\ LayersPart!AllSkillDirs \in Seq(All) /\ Len(LayersPart!Layers) = Len(Extra) + 3
       /\ Len(LayersPart!AllSkillDirs) = Len(Extra) + 3
    BY <1>1, <1>3, <1>4, <1>5, <1>6
<1>12. \A i \in 1..Len(Extra) + 3 :
        /\ LayersPart!Layers[i] = IF i <= Len(Extra) THEN Extra[i] ELSE up[i - Len(Extra)]
        /\ LayersPart!AllSkillDirs[i] = IF i <= 3 THEN down[i] ELSE Extra[i - 3]
    <2> SUFFICES ASSUME NEW i \in 1..Len(Extra) + 3
                 PROVE  /\ LayersPart!Layers[i] = IF i <= Len(Extra) THEN Extra[i] ELSE up[i - Len(Extra)]
                        /\ LayersPart!AllSkillDirs[i] = IF i <= 3 THEN down[i] ELSE Extra[i - 3]
        OBVIOUS
    <2>1. i \in 1..Len(Extra) + Len(up) /\ i \in 1..Len(down) + Len(Extra)
        BY <1>1, <1>4
    <2> QED
        BY <2>1, <1>3, <1>4, <1>5, <1>6
<1>7. DOMAIN LayersPart!Layers = 1..Len(Extra) + 3 /\ DOMAIN LayersPart!AllSkillDirs = 1..Len(Extra) + 3
    BY <1>1, <1>11
<1>8. \A i \in 1..Len(Extra) : LayersPart!Layers[i] = Extra[i] /\ LayersPart!AllSkillDirs[i + 3] = Extra[i]
    BY <1>1, <1>12
<1>9. /\ LayersPart!Layers[Len(Extra) + 1] = "managed" /\ LayersPart!Layers[Len(Extra) + 2] = "user"
      /\ LayersPart!Layers[Len(Extra) + 3] = "agent"
      /\ LayersPart!AllSkillDirs[1] = "agent" /\ LayersPart!AllSkillDirs[2] = "user" /\ LayersPart!AllSkillDirs[3] = "managed"
    BY <1>1, <1>4, <1>12
<1>10. ASSUME NEW i \in DOMAIN LayersPart!AllSkillDirs PROVE LayersPart!AllSkillDirs[i] \in LayersPart!Dirs
    <2>1. CASE i <= 3
        BY <2>1, <1>1, <1>7, <1>9 DEF LayersPart!Dirs
    <2>2. CASE i > 3
        <3>1. i - 3 \in 1..Len(Extra) /\ LayersPart!AllSkillDirs[i] = LayersPart!Layers[i - 3]
            BY <2>2, <1>1, <1>12, <1>7
        <3> QED
            BY <3>1, <1>1, <1>7 DEF LayersPart!Dirs
    <2> QED
        BY <2>1, <2>2, <1>1, <1>7
<1>13. LayersPart!AllSkillDirs \in Seq(LayersPart!Dirs)
    BY <1>10, <1>11
<1> QED
    BY <1>1, <1>11, <1>7, <1>8, <1>9, <1>10, <1>13

\* The merge is a function of the number of layers walked.
LEMMA MergedSteps ==
    ASSUME Len(LayersPart!Layers) \in Nat
    PROVE  /\ LayersPart!Merged[0] = LayersPart!Nothing
           /\ \A i \in 1..Len(LayersPart!Layers) : LayersPart!Merged[i] = LayersPart!Discover(LayersPart!Merged[i - 1], LayersPart!Layers[i])
<1> DEFINE Merging(f, k) == f = [i \in 0..k |-> IF i = 0 THEN LayersPart!Nothing ELSE LayersPart!Discover(f[i - 1], LayersPart!Layers[i])]
           S == {k \in Nat : \A f : ~Merging(f, k)}
<1>1. S = {}
    <2> SUFFICES ASSUME S # {} PROVE FALSE
        OBVIOUS
    <2>1. PICK k \in S : \A m \in S : k <= m
        BY FirstNumber
    <2>2. CASE k = 0
        <3> DEFINE g == [i \in 0..0 |-> LayersPart!Nothing]
        <3>1. g = [i \in 0..0 |-> IF i = 0 THEN LayersPart!Nothing ELSE LayersPart!Discover(g[i - 1], LayersPart!Layers[i])]
            OBVIOUS
        <3>2. Merging(g, k)
            BY <2>2, <3>1
        <3> HIDE DEF g, Merging
        <3> QED
            BY <2>1, <3>2
    <2>3. CASE k # 0
        <3>1. k \in Nat /\ k - 1 \in Nat /\ k - 1 \notin S
            <4>1. k \in Nat
                BY <2>1
            <4> HIDE DEF S
            <4> QED
                BY <4>1, <2>1, <2>3
        <3>2. PICK f : Merging(f, k - 1)
            BY <3>1
        <3> DEFINE g == [i \in 0..k |-> IF i < k THEN f[i] ELSE LayersPart!Discover(f[k - 1], LayersPart!Layers[k])]
        <3>3. \A i \in 0..k : g[i] = IF i = 0 THEN LayersPart!Nothing ELSE LayersPart!Discover(g[i - 1], LayersPart!Layers[i])
            <4> SUFFICES ASSUME NEW i \in 0..k PROVE g[i] = IF i = 0 THEN LayersPart!Nothing ELSE LayersPart!Discover(g[i - 1], LayersPart!Layers[i])
                OBVIOUS
            <4>1. CASE i < k
                <5>1. i \in 0..(k - 1) /\ g[i] = f[i] /\ (i # 0 => i - 1 \in 0..k /\ g[i - 1] = f[i - 1])
                    BY <4>1, <3>1
                <5>2. f[i] = IF i = 0 THEN LayersPart!Nothing ELSE LayersPart!Discover(f[i - 1], LayersPart!Layers[i])
                    BY <5>1, <3>2
                <5> QED
                    BY <5>1, <5>2
            <4>2. CASE i = k
                <5>1. g[k] = LayersPart!Discover(f[k - 1], LayersPart!Layers[k]) /\ k - 1 \in 0..k /\ g[k - 1] = f[k - 1]
                    BY <3>1
                <5> QED
                    BY <5>1, <4>2, <2>3
            <4> QED
                BY <4>1, <4>2, <3>1
        <3>4. Merging(g, k)
            BY <3>3
        <3> HIDE DEF g, Merging
        <3> QED
            BY <2>1, <3>4
    <2> QED
        BY <2>2, <2>3
<1>2. PICK f : Merging(f, Len(LayersPart!Layers))
    BY <1>1
<1>3. LayersPart!Merged = [i \in 0..Len(LayersPart!Layers) |-> IF i = 0 THEN LayersPart!Nothing ELSE LayersPart!Discover(LayersPart!Merged[i - 1], LayersPart!Layers[i])]
    BY <1>2 DEF LayersPart!Merged
<1> QED
    BY <1>3

\* After i layers a name stands for its last SKILL.md among them.
LastOf(n, i, found) ==
    IF found = NoValue THEN TRUE
    ELSE /\ n \notin LayersPart!Disabled
         /\ \E j \in 1..i : /\ found = [dir |-> LayersPart!Layers[j], manifest |-> layers[LayersPart!Layers[j]][n]]
                           /\ layers[LayersPart!Layers[j]][n] # NoValue
                           /\ \A l \in (j + 1)..i : layers[LayersPart!Layers[l]][n] = NoValue

LEMMA MergedIsLast ==
    ASSUME LayersAssumed, LayersPart!TypeOK, NEW n \in LayerNames
    PROVE  \A i \in 0..Len(LayersPart!Layers) : LastOf(n, i, LayersPart!Merged[i][n])
<1> DEFINE S == {i \in 0..Len(LayersPart!Layers) : ~LastOf(n, i, LayersPart!Merged[i][n])}
<1>1. Len(LayersPart!Layers) \in Nat
    BY LayerPlaces
<1> SUFFICES ASSUME S # {} PROVE FALSE
    OBVIOUS
<1>2. PICK i \in S : \A m \in S : i <= m
    <2>1. S \in SUBSET Nat
        BY <1>1
    <2> HIDE DEF S
    <2> QED
        BY <2>1, FirstNumber
<1>3. i \in 0..Len(LayersPart!Layers) /\ ~LastOf(n, i, LayersPart!Merged[i][n])
    BY <1>2
<1>4. i # 0
    BY <1>1, <1>3, MergedSteps DEF LastOf, LayersPart!Nothing
<1>5. LastOf(n, i - 1, LayersPart!Merged[i - 1][n])
    <2>1. i - 1 \notin S /\ i - 1 \in 0..Len(LayersPart!Layers)
        <3> HIDE DEF S
        <3> QED
            BY <1>1, <1>2, <1>3, <1>4
    <2> QED
        BY <2>1
<1>6. LayersPart!Merged[i] = LayersPart!Discover(LayersPart!Merged[i - 1], LayersPart!Layers[i])
    BY <1>1, <1>3, <1>4, MergedSteps
<1> HIDE DEF S
<1>7. CASE layers[LayersPart!Layers[i]][n] # NoValue /\ n \notin LayersPart!Disabled
    <2>1. LayersPart!Merged[i][n] = [dir |-> LayersPart!Layers[i], manifest |-> layers[LayersPart!Layers[i]][n]]
        BY <1>6, <1>7 DEF LayersPart!Discover
    <2>2. i \in 1..i /\ \A l \in (i + 1)..i : FALSE
        BY <1>1, <1>3, <1>4
    <2> QED
        BY <1>3, <1>7, <2>1, <2>2 DEF LastOf
<1>8. CASE ~(layers[LayersPart!Layers[i]][n] # NoValue /\ n \notin LayersPart!Disabled)
    <2>1. LayersPart!Merged[i][n] = LayersPart!Merged[i - 1][n]
        BY <1>6, <1>8 DEF LayersPart!Discover
    <2>2. CASE LayersPart!Merged[i][n] = NoValue
        BY <1>3, <2>2 DEF LastOf
    <2>3. CASE LayersPart!Merged[i][n] # NoValue
        <3>1. n \notin LayersPart!Disabled /\ layers[LayersPart!Layers[i]][n] = NoValue
            BY <1>5, <1>8, <2>1, <2>3 DEF LastOf
        <3>2. PICK j \in 1..(i - 1) : /\ LayersPart!Merged[i][n] = [dir |-> LayersPart!Layers[j], manifest |-> layers[LayersPart!Layers[j]][n]]
                                      /\ layers[LayersPart!Layers[j]][n] # NoValue
                                      /\ \A l \in (j + 1)..(i - 1) : layers[LayersPart!Layers[l]][n] = NoValue
            BY <1>5, <2>1, <2>3 DEF LastOf
        <3>3. j \in 1..i /\ \A l \in (j + 1)..i : layers[LayersPart!Layers[l]][n] = NoValue
            <4>1. \A l \in (j + 1)..i : l = i \/ l \in (j + 1)..(i - 1)
                BY <1>1, <1>3, <1>4
            <4> QED
                BY <1>1, <1>3, <3>1, <3>2, <4>1
        <3> QED
            BY <1>3, <3>1, <3>2, <3>3 DEF LastOf
    <2> QED
        BY <2>2, <2>3
<1> QED
    BY <1>7, <1>8

\* What a turn's prompt is made of.
LEMMA LoadedRanksFirst ==
    ASSUME LayersAssumed, LayersPart!TypeOK, NEW n \in LayerNames, LayersPart!LoadSkills[n] # NoValue
    PROVE  /\ LayersPart!LoadSkills[n].dir \in LayersPart!Dirs /\ LayersPart!LoadSkills[n].manifest \in Manifests
           /\ layers[LayersPart!LoadSkills[n].dir][n] = LayersPart!LoadSkills[n].manifest /\ ~LayersPart!Hides(LayersPart!LoadSkills[n].dir, n)
           /\ n \notin LayersPart!Disabled /\ ~LayersPart!Gated(LayersPart!LoadSkills[n].manifest)
<1> DEFINE N == Len(LayersPart!Layers)
           found == LayersPart!Merged[N][n]
<1>1. N \in Nat /\ DOMAIN LayersPart!Layers = 1..N
    BY LayerPlaces
<1>2. LayersPart!LoadSkills[n] = found /\ found # NoValue /\ ~LayersPart!Gated(found.manifest)
    BY DEF LayersPart!LoadSkills
<1>3. LastOf(n, N, found)
    BY <1>1, MergedIsLast
<1> HIDE DEF found
<1>4. PICK j \in 1..N : /\ found = [dir |-> LayersPart!Layers[j], manifest |-> layers[LayersPart!Layers[j]][n]]
                       /\ layers[LayersPart!Layers[j]][n] # NoValue
                       /\ \A l \in (j + 1)..N : layers[LayersPart!Layers[l]][n] = NoValue
    BY <1>2, <1>3 DEF LastOf
<1>5. found.dir = LayersPart!Layers[j] /\ found.manifest = layers[LayersPart!Layers[j]][n] /\ LayersPart!Layers[j] \in LayersPart!Dirs
    BY <1>1, <1>4 DEF LayersPart!Dirs
<1>6. found.manifest \in Manifests
    BY <1>4, <1>5 DEF LayersPart!TypeOK
<1>7. ~LayersPart!Hides(found.dir, n)
    <2> SUFFICES ASSUME NEW i \in DOMAIN LayersPart!Layers, NEW k \in DOMAIN LayersPart!Layers, i < k, LayersPart!Layers[i] = LayersPart!Layers[j],
                        layers[LayersPart!Layers[k]][n] # NoValue
                 PROVE  FALSE
        BY <1>5 DEF LayersPart!Hides
    <2>1. i = j
        BY <1>1 DEF LayersAssumed
    <2>2. k \in (j + 1)..N
        BY <1>1, <2>1
    <2> QED
        BY <1>4, <2>2
<1> QED
    BY <1>2, <1>3, <1>5, <1>6, <1>7 DEF LastOf

\* A SKILL.md that says where its key goes.
NamesKey(d, n) == layers[d][n] # NoValue /\ layers[d][n].primary # ""

LEMMA NamingKeys ==
    ASSUME NEW n
    PROVE  LayersPart!Naming(n) = {i \in DOMAIN LayersPart!AllSkillDirs : NamesKey(LayersPart!AllSkillDirs[i], n)}
    BY Zenon DEF LayersPart!Naming, NamesKey

\* The first SKILL.md on the way down is the one the merge on the way up ends with, unless that one lies
\* in one of several extra directories.
LEMMA KeyFollows ==
    ASSUME LayersAssumed, LayersPart!TypeOK, NEW n \in LayerNames, NEW d \in LayersPart!Dirs, NamesKey(d, n),
           ~LayersPart!Hides(d, n), ~(d \in LayersPart!Extras /\ Len(Extra) > 1)
    PROVE  LayersPart!Naming(n) # {} /\ LayersPart!PrimaryEnv(n) = layers[d][n].primary
<1> DEFINE e == Len(Extra)
<1>1. /\ e \in Nat /\ DOMAIN LayersPart!Layers = 1..e + 3 /\ DOMAIN LayersPart!AllSkillDirs = 1..e + 3
      /\ \A i \in 1..e : LayersPart!Layers[i] = Extra[i] /\ LayersPart!AllSkillDirs[i + 3] = Extra[i]
      /\ LayersPart!Layers[e + 1] = "managed" /\ LayersPart!Layers[e + 2] = "user" /\ LayersPart!Layers[e + 3] = "agent"
      /\ LayersPart!AllSkillDirs[1] = "agent" /\ LayersPart!AllSkillDirs[2] = "user" /\ LayersPart!AllSkillDirs[3] = "managed"
    BY LayerPlaces
<1>9. ~(d \in LayersPart!Extras /\ e > 1) /\ DOMAIN Extra = 1..e
    BY DEF LayersAssumed
<1> HIDE DEF e
<1>2. PICK i \in 1..e + 3 : LayersPart!Layers[i] = d
    BY <1>1 DEF LayersPart!Dirs
<1>3. \A k \in 1..e + 3 : i < k => layers[LayersPart!Layers[k]][n] = NoValue
    BY <1>1, <1>2 DEF LayersPart!Hides
<1>4. PICK a \in 1..e + 3 : LayersPart!AllSkillDirs[a] = d /\ \A b \in 1..e + 3 : b < a => ~NamesKey(LayersPart!AllSkillDirs[b], n)
    <2>5. \A c : layers[c][n] = NoValue => ~NamesKey(c, n)
        BY Zenon DEF NamesKey
    <2>1. CASE i = e + 3
        BY <2>1, <1>1, <1>2
    <2>2. CASE i = e + 2
        <3>1. layers["agent"][n] = NoValue
            BY <2>2, <1>1, <1>3
        <3> QED
            BY <2>5, <3>1, <2>2, <1>1, <1>2
    <2>3. CASE i = e + 1
        <3>1. layers["agent"][n] = NoValue /\ layers["user"][n] = NoValue
            BY <2>3, <1>1, <1>3
        <3> QED
            BY <2>5, <3>1, <2>3, <1>1, <1>2
    <2>4. CASE i <= e
        <3>1. Extra[i] = d /\ d \in LayersPart!Extras
            BY <2>4, <1>1, <1>2, <1>9 DEF LayersPart!Extras
        <3>2. e = 1 /\ i = 1
            BY <3>1, <2>4, <1>1, <1>9
        <3>3. layers["agent"][n] = NoValue /\ layers["user"][n] = NoValue /\ layers["managed"][n] = NoValue
            BY <3>2, <1>1, <1>3
        <3>4. LayersPart!AllSkillDirs[4] = d
            BY <3>1, <3>2, <1>1
        <3> QED
            BY <2>5, <3>2, <3>3, <3>4, <1>1
    <2> QED
        BY <2>1, <2>2, <2>3, <2>4, <1>1
<1>5. a \in LayersPart!Naming(n) /\ LayersPart!Naming(n) \in SUBSET Nat
    BY <1>1, <1>4, NamingKeys
<1>6. \A b \in LayersPart!Naming(n) : a <= b
    BY <1>1, <1>4, NamingKeys
<1>7. \A b \in LayersPart!Naming(n) : (\A c \in LayersPart!Naming(n) : b <= c) => b = a
    BY <1>5, <1>6
<1>8. (CHOOSE b \in LayersPart!Naming(n) : \A c \in LayersPart!Naming(n) : b <= c) = a
    BY <1>5, <1>6, <1>7
<1> QED
    BY <1>4, <1>5, <1>8 DEF LayersPart!PrimaryEnv

LEMMA RecordParts ==
    ASSUME NEW r, NEW a, NEW b, r = [apiKey |-> a, env |-> b]
    PROVE  r.apiKey = a /\ r.env = b
    OBVIOUS

\* The settings with the key are those the variables are taken from.
LEMMA KeyIsEntry ==
    ASSUME LayersAssumed, LayersPart!TypeOK, NEW n \in LayerNames, LayersPart!Key(n) # ""
    PROVE  /\ LayersPart!Entry(n).apiKey = LayersPart!Key(n) /\ LayersPart!Entry(n).env # NoValue
           /\ \A m \in Manifests : Given(LayersPart!Entry(n), m.primary) # NoValue
<1>1. CASE n \in DOMAIN settings.own /\ settings.own[n].apiKey # ""
    <2>1. LayersPart!Key(n) = settings.own[n].apiKey /\ LayersPart!Entry(n) = settings.own[n] /\ n \in DOMAIN settings.own
        <3>3. settings.own[n] # [apiKey |-> "", env |-> LayersPart!NoEnv]
            BY <1>1, RecordParts, Zenon
        <3>4. ~(n \in DOMAIN settings.entries
                /\ (n \in DOMAIN settings.own => settings.own[n] = [apiKey |-> "", env |-> LayersPart!NoEnv]))
            BY <1>1, <3>3, Zenon
        <3>1. LayersPart!Key(n) = settings.own[n].apiKey
            BY <1>1, <3>4, Zenon DEF LayersPart!Key
        <3>2. LayersPart!Entry(n) = settings.own[n]
            BY <1>1, Zenon DEF LayersPart!Entry
        <3> QED
            BY <1>1, <3>1, <3>2, Zenon
    <2>2. settings \in LayerConfigs
        BY DEF LayersPart!TypeOK
    <2> QED
        BY <2>1, <2>2, Zenon DEF LayersAssumed
<1>2. CASE ~(n \in DOMAIN settings.own /\ settings.own[n].apiKey # "")
    <2> DEFINE blank == ""
    <2>1. n \in DOMAIN settings.entries /\ (n \in DOMAIN settings.own => settings.own[n] = [apiKey |-> blank, env |-> LayersPart!NoEnv])
          /\ LayersPart!Key(n) = settings.entries[n].apiKey
        BY <1>2, Zenon DEF LayersPart!Key
    <2>2. n \in DOMAIN settings.own => settings.own[n].apiKey = "" /\ settings.own[n].env = LayersPart!NoEnv
        BY <2>1, RecordParts, Zenon
    <2>3. LayersPart!Entry(n) = settings.entries[n]
        BY <2>1, <2>2, Zenon DEF LayersPart!Entry
    <2>4. settings \in LayerConfigs
        BY DEF LayersPart!TypeOK
    <2> QED
        BY <2>1, <2>3, <2>4, Zenon DEF LayersAssumed
<1> QED
    BY <1>1, <1>2, Zenon

\* A command that mentions one skill only, with settings, gets that skill's variables.
LEMMA CommandResolves ==
    ASSUME LayersAssumed, NEW n \in LayerNames, NEW cmd \in Commands, LayersPart!Runs(cmd, n), LayersPart!SkillEnvVars(n) # NoValue
    PROVE  LayersPart!ResolveSkillEnv(cmd) = LayersPart!SkillEnvVars(n)
<1> DEFINE dirs == Append(LayersPart!AllSkillDirs, LayersPart!Mount)
           e == Len(Extra)
<1>1. e \in Nat /\ DOMAIN LayersPart!AllSkillDirs = 1..e + 3 /\ \A i \in 1..e + 3 : LayersPart!AllSkillDirs[i] \in LayersPart!Dirs
    BY LayerPlaces
<1>2. DOMAIN dirs = 1..e + 4 /\ dirs[e + 4] = LayersPart!Mount /\ \A i \in 1..e + 3 : dirs[i] = LayersPart!AllSkillDirs[i]
    <2>1. LayersPart!AllSkillDirs \in Seq(LayersPart!Dirs \cup {LayersPart!Mount})
        BY LayerPlaces
    <2>2. Len(LayersPart!AllSkillDirs) = e + 3
        BY <1>1, <2>1
    <2> QED
        BY <1>1, <2>1, <2>2
<1> HIDE DEF dirs
<1>3. ASSUME NEW dir, LayersPart!Mentions(cmd, dir) # {} PROVE LayersPart!First(cmd, dir) = n
    <2>1. LayersPart!Mentions(cmd, dir) \in SUBSET Nat
        BY DEF LayersPart!Mentions, LayersAssumed
    <2>2. \E i \in LayersPart!Mentions(cmd, dir) : \A j \in LayersPart!Mentions(cmd, dir) : i <= j
        BY <1>3, <2>1, FirstNumber
    <2>3. (CHOOSE i \in LayersPart!Mentions(cmd, dir) : \A j \in LayersPart!Mentions(cmd, dir) : i <= j) \in DOMAIN cmd
        BY <2>2 DEF LayersPart!Mentions
    <2> QED
        BY <2>3 DEF LayersPart!First, LayersPart!Runs
<1>4. LayersPart!Resolving(cmd) = {i \in DOMAIN dirs : LayersPart!Mentions(cmd, dirs[i]) # {}}
    BY <1>3 DEF LayersPart!Resolving, dirs
<1>5. \E i \in DOMAIN dirs : LayersPart!Mentions(cmd, dirs[i]) # {}
    <2>1. 1 \in DOMAIN cmd /\ cmd[1].dir \in LayersPart!Dirs \cup {LayersPart!Mount}
        BY DEF LayersPart!Runs, LayersAssumed
    <2>2. \E i \in DOMAIN dirs : dirs[i] = cmd[1].dir
        <3>1. CASE cmd[1].dir = LayersPart!Mount
            BY <3>1, <1>1, <1>2
        <3>2. CASE cmd[1].dir \in LayersPart!Dirs
            <4>1. /\ DOMAIN LayersPart!Layers = 1..e + 3
                  /\ \A i \in 1..e : LayersPart!Layers[i] = Extra[i] /\ LayersPart!AllSkillDirs[i + 3] = Extra[i]
                  /\ LayersPart!Layers[e + 1] = "managed" /\ LayersPart!Layers[e + 2] = "user" /\ LayersPart!Layers[e + 3] = "agent"
                  /\ LayersPart!AllSkillDirs[1] = "agent" /\ LayersPart!AllSkillDirs[2] = "user" /\ LayersPart!AllSkillDirs[3] = "managed"
                BY LayerPlaces
            <4>2. PICK j \in 1..e + 3 : LayersPart!Layers[j] = cmd[1].dir
                BY <3>2, <4>1 DEF LayersPart!Dirs
            <4>3. CASE j <= e
                <5>1. j + 3 \in DOMAIN dirs /\ dirs[j + 3] = cmd[1].dir
                    BY <4>1, <4>2, <4>3, <1>1, <1>2
                <5> QED
                    BY <5>1
            <4>4. CASE j > e
                <5>1. \E i \in 1..3 : LayersPart!AllSkillDirs[i] = cmd[1].dir
                    BY <4>1, <4>2, <4>4, <1>1
                <5> QED
                    BY <5>1, <1>1, <1>2
            <4> QED
                BY <4>3, <4>4, <1>1
        <3> QED
            BY <2>1, <3>1, <3>2
    <2> QED
        BY <2>1, <2>2 DEF LayersPart!Mentions
<1>6. LayersPart!Resolving(cmd) # {} /\ LayersPart!Resolving(cmd) \in SUBSET Nat
    <2>1. DOMAIN dirs \in SUBSET Nat
        BY <1>1, <1>2
    <2> QED
        BY <2>1, <1>4, <1>5, Zenon
<1>7. \E i \in LayersPart!Resolving(cmd) : \A j \in LayersPart!Resolving(cmd) : i <= j
    BY <1>6, FirstNumber
<1> DEFINE k == CHOOSE i \in LayersPart!Resolving(cmd) : \A j \in LayersPart!Resolving(cmd) : i <= j
<1>8. k \in LayersPart!Resolving(cmd)
    BY <1>7
<1>9. LayersPart!First(cmd, dirs[k]) = n
    BY <1>3, <1>4, <1>8
<1> QED
    BY <1>6, <1>9 DEF LayersPart!ResolveSkillEnv, dirs

\* A command run while the prompt is what the directories hold.
LEMMA KeyGoesThere ==
    ASSUME LayersAssumed, LayersPart!TypeOK, LayersPart!ShownRanksFirst, fresh, NEW n \in LayerNames, NEW cmd \in Commands, LayersPart!Runs(cmd, n),
           prompt[n] # NoValue, LayersPart!Key(n) # "", NamesKey(prompt[n].dir, n), ~(prompt[n].dir \in LayersPart!Extras /\ Len(Extra) > 1)
    PROVE  /\ prompt[n].manifest.primary \in DOMAIN LayersPart!ResolveSkillEnv(cmd)
           /\ LayersPart!ResolveSkillEnv(cmd)[prompt[n].manifest.primary] = LayersPart!Key(n)
<1> DEFINE d == prompt[n].dir
           p == prompt[n].manifest.primary
<1>1. d \in LayersPart!Dirs /\ layers[d][n] = prompt[n].manifest /\ ~LayersPart!Hides(d, n)
    BY Zenon DEF LayersPart!TypeOK, LayersPart!ShownRanksFirst
<1>2. LayersPart!Naming(n) # {} /\ LayersPart!PrimaryEnv(n) = p
    BY <1>1, KeyFollows, Zenon
<1>3. LayersPart!Entry(n).apiKey = LayersPart!Key(n) /\ LayersPart!Entry(n).env # NoValue /\ \A m \in Manifests : Given(LayersPart!Entry(n), m.primary) # NoValue
    BY KeyIsEntry, Zenon
<1>4. LayersPart!SkillEnvVars(n) = Given(LayersPart!Entry(n), p)
    BY <1>2, <1>3, Zenon DEF LayersPart!SkillEnvVars, Given
<1>5. p \in DOMAIN LayersPart!SkillEnvVars(n) /\ LayersPart!SkillEnvVars(n)[p] = LayersPart!Key(n)
    <2> HIDE DEF p
    <2>1. Given(LayersPart!Entry(n), p) = [x \in DOMAIN LayersPart!Entry(n).env \cup {p} |-> IF x = p THEN LayersPart!Entry(n).apiKey ELSE LayersPart!Entry(n).env[x]]
        BY Zenon DEF Given
    <2> QED
        BY <2>1, <1>3, <1>4, Zenon
<1>6. LayersPart!SkillEnvVars(n) # NoValue
    BY <1>3, <1>4, Zenon DEF LayersPart!TypeOK, LayersPart!ShownRanksFirst
<1> QED
    BY <1>5, <1>6, CommandResolves, Zenon

LEMMA LayersInit == ASSUME LayersAssumed PROVE LayersPart!Init => LayersInv
<1> SUFFICES ASSUME LayersPart!Init PROVE LayersInv
    OBVIOUS
<1>1. ran.command = <<>> /\ prompt = LayersPart!Nothing
    BY Zenon DEF LayersPart!Init
<1>2. LayersPart!TypeOK
    <2>1. /\ layers \in [LayersPart!Dirs -> [LayerNames -> Manifests \cup {NoValue}]] /\ settings \in LayerConfigs
          /\ changes \in 0..MaxChanges /\ fresh \in BOOLEAN /\ DOMAIN prompt = LayerNames
          /\ \A n \in LayerNames : prompt[n] = NoValue
        <3>1. /\ layers = [d \in LayersPart!Dirs |-> [n \in LayerNames |-> NoValue]] /\ settings \in LayerConfigs /\ changes = 0 /\ fresh = TRUE
              /\ prompt = LayersPart!Nothing /\ MaxChanges \in Nat
            BY Zenon DEF LayersPart!Init, LayersAssumed
        <3> QED
            BY <3>1 DEF LayersPart!Nothing
    <2> QED
        BY <1>1, <2>1, Zenon DEF LayersPart!TypeOK
<1>3. \A n \in LayerNames : prompt[n] = NoValue
    BY <1>1 DEF LayersPart!Nothing
<1>4. LayersPart!ShownRanksFirst
    BY <1>3, Zenon DEF LayersPart!ShownRanksFirst
<1>5. LayersPart!KeyWhereShown
    BY <1>1, Zenon DEF LayersPart!KeyWhereShown, LayersPart!Runs
<1> QED
    BY <1>2, <1>4, <1>5 DEF LayersInv

\* What a command got stays true: it is of the prompt and the settings at that time.
LEMMA KeyStays ==
    ASSUME LayersPart!KeyWhereShown, UNCHANGED <<settings, ran>>
    PROVE  LayersPart!KeyWhereShown'
<1>1. \A n : LayersPart!Key(n)' = LayersPart!Key(n)
    BY Zenon DEF LayersPart!Key
<1> QED
    BY <1>1, Zenon DEF LayersPart!KeyWhereShown

LEMMA ChangeStep ==
    ASSUME LayersAssumed, LayersInv, NEW dir \in LayersPart!Dirs, NEW n \in LayerNames, NEW m \in Manifests \cup {NoValue},
           LayersPart!Change(dir, n, m)
    PROVE  LayersInv'
<1>1. /\ layers' = [layers EXCEPT ![dir][n] = m] /\ changes' = changes + 1 /\ changes < MaxChanges /\ fresh' = FALSE
      /\ UNCHANGED <<settings, prompt, ran>>
    BY DEF LayersPart!Change
<1>2. LayersPart!TypeOK'
    <2>1. layers' \in [LayersPart!Dirs -> [LayerNames -> Manifests \cup {NoValue}]]
        BY <1>1 DEF LayersInv, LayersPart!TypeOK
    <2>2. changes' \in 0..MaxChanges
        BY <1>1 DEF LayersInv, LayersPart!TypeOK, LayersAssumed
    <2> QED
        BY <1>1, <2>1, <2>2 DEF LayersInv, LayersPart!TypeOK
<1>3. LayersPart!ShownRanksFirst'
    BY <1>1 DEF LayersPart!ShownRanksFirst
<1>4. LayersPart!KeyWhereShown'
    BY <1>1, KeyStays DEF LayersInv
<1> QED
    BY <1>2, <1>3, <1>4 DEF LayersInv

LEMMA RefreshStep ==
    ASSUME LayersAssumed, LayersInv, LayersPart!Refresh
    PROVE  LayersInv'
<1>1. prompt' = LayersPart!LoadSkills /\ fresh' = TRUE /\ UNCHANGED <<layers, settings, changes, ran>>
    BY DEF LayersPart!Refresh
<1>2. DOMAIN LayersPart!LoadSkills = LayerNames
    BY DEF LayersPart!LoadSkills
<1>3. \A n \in LayerNames : LayersPart!LoadSkills[n] # NoValue =>
           /\ LayersPart!LoadSkills[n].dir \in LayersPart!Dirs /\ LayersPart!LoadSkills[n].manifest \in Manifests
           /\ layers[LayersPart!LoadSkills[n].dir][n] = LayersPart!LoadSkills[n].manifest /\ ~LayersPart!Hides(LayersPart!LoadSkills[n].dir, n)
           /\ n \notin LayersPart!Disabled /\ ~LayersPart!Gated(LayersPart!LoadSkills[n].manifest)
    BY LoadedRanksFirst DEF LayersInv
<1> HIDE DEF LayersPart!LoadSkills
<1>4. LayersPart!TypeOK'
    BY <1>1, <1>2, <1>3 DEF LayersInv, LayersPart!TypeOK
<1>5. LayersPart!ShownRanksFirst'
    BY <1>1, <1>3 DEF LayersPart!ShownRanksFirst, LayersPart!Hides, LayersPart!Disabled
<1>6. LayersPart!KeyWhereShown'
    BY <1>1, KeyStays DEF LayersInv
<1> QED
    BY <1>4, <1>5, <1>6 DEF LayersInv

LEMMA ExecStep ==
    ASSUME LayersAssumed, LayersInv, NEW cmd \in Commands, LayersPart!Exec(cmd)
    PROVE  LayersInv'
<1>1. /\ ran'.command = cmd /\ ran'.env = LayersPart!ResolveSkillEnv(cmd) /\ ran'.shown = IF fresh THEN prompt ELSE LayersPart!Nothing
      /\ UNCHANGED <<layers, settings, prompt, changes, fresh>>
    BY DEF LayersPart!Exec
<1>2. LayersPart!TypeOK'
    BY <1>1 DEF LayersInv, LayersPart!TypeOK
<1>3. LayersPart!ShownRanksFirst'
    BY <1>1 DEF LayersInv, LayersPart!ShownRanksFirst, LayersPart!Hides, LayersPart!Disabled
<1>4. LayersPart!KeyWhereShown'
    <2>1. \A n : LayersPart!Key(n)' = LayersPart!Key(n)
        BY <1>1, Zenon DEF LayersPart!Key
    <2> SUFFICES ASSUME NEW n \in LayerNames, LayersPart!Runs(cmd, n), ran'.shown[n] # NoValue, LayersPart!Key(n) # "",
                        ran'.shown[n].manifest.primary # "",
                        ~(ran'.shown[n].dir \in LayersPart!Extras /\ Len(Extra) > 1)
                 PROVE  /\ ran'.shown[n].manifest.primary \in DOMAIN ran'.env
                        /\ ran'.env[ran'.shown[n].manifest.primary] = LayersPart!Key(n)
        BY <2>1, <1>1, Zenon DEF LayersPart!KeyWhereShown
    <2>2. fresh /\ ran'.shown = prompt
        <3>1. LayersPart!Nothing[n] = NoValue
            BY Zenon DEF LayersPart!Nothing
        <3> QED
            BY <3>1, <1>1, Zenon
    <2>3. NamesKey(prompt[n].dir, n)
        <3>1. layers[prompt[n].dir][n] = prompt[n].manifest /\ prompt[n].manifest \in Manifests
            BY <2>2, Zenon DEF LayersInv, LayersPart!ShownRanksFirst, LayersPart!TypeOK
        <3>2. prompt[n].manifest # NoValue
            BY <3>1, Zenon DEF LayersAssumed
        <3> QED
            BY <2>2, <3>1, <3>2, Zenon DEF NamesKey
    <2> QED
        BY <1>1, <2>2, <2>3, KeyGoesThere, Zenon DEF LayersInv
<1> QED
    BY <1>2, <1>3, <1>4 DEF LayersInv

LEMMA LayersStep ==
    ASSUME LayersAssumed, LayersInv, [LayersPart!Next]_(LayersPart!vars)
    PROVE  LayersInv'
<1>1. CASE UNCHANGED LayersPart!vars
    <2>1. LayersPart!KeyWhereShown' /\ UNCHANGED <<layers, settings, prompt, changes, fresh, ran>>
        BY <1>1, KeyStays DEF LayersPart!vars, LayersInv
    <2> QED
        BY <2>1 DEF LayersInv, LayersPart!TypeOK, LayersPart!ShownRanksFirst, LayersPart!Hides, LayersPart!Disabled
<1>2. CASE LayersPart!Next
    BY <1>2, ChangeStep, RefreshStep, ExecStep DEF LayersPart!Next
<1> QED
    BY <1>1, <1>2

--------------------------------------------------------------------------------
(***************************************************************************)
(* What a component does among the others is what it does alone.           *)
(***************************************************************************)
LEMMA FilesRun == [AllNext]_allVars => [FilesPart!Next]_(FilesPart!vars)
    BY DEF AllNext, Only, allVars, filesVars, FilesPart!vars, FilesPart!files

LEMMA SkillsRun == [AllNext]_allVars => [SkillsPart!Next]_(SkillsPart!vars)
    BY DEF AllNext, Only, allVars, skillsVars, SkillsPart!vars

LEMMA LayersRun == [AllNext]_allVars => [LayersPart!Next]_(LayersPart!vars)
    BY DEF AllNext, Only, allVars, layersVars, LayersPart!vars

\* Replicas agree on the installed skills when the operations are over; the skill the prompt
\* shows is the one of the highest layer and the one whose variable gets the key; and a file tool
\* acts on the files of its own session (HydrateSkillsDown and its counterparts, LoadSkills and
\* ResolveSkillEnv, the file tools of registry.go).
THEOREM FilesAndSkillsStaySound == AllSpec => []FilesAndSkills
<1>1. AllSpec => []FilesInv
    BY FilesInit, FilesStep, FilesRun, ServicesAssumption, PTL DEF AllSpec, AllInit
<1>2. AllSpec => []SkillsInv
    BY SkillsInit, SkillsStep, SkillsRun, ServicesAssumption, PTL DEF AllSpec, AllInit
<1>3. AllSpec => []LayersInv
    BY LayersInit, LayersStep, LayersRun, ServicesAssumption, PTL DEF AllSpec, AllInit
<1>4. FilesInv /\ SkillsInv /\ LayersInv => FilesAndSkills
    BY SkillsAgree, ServicesAssumption DEF FilesAndSkills, FilesInv, LayersInv
<1> QED
    BY <1>1, <1>2, <1>3, <1>4, PTL

LEMMA SpacesRun == [AllNext]_allVars => [Next]_vars
    BY DEF AllNext, Only, allVars

\* Whatever component runs, its variables stay in their ranges: nothing refers to an answer, space,
\* process, post or provider that is not there, and no counter or queue leaves its bounds.
THEOREM TypesStayOK == AllSpec => []TypesOK
<1> USE ServicesAssumption
<1>1. AllSpec => [](Inv /\ SpacesRanges)
    <2>1. Parameters
        BY SpacesAssumption DEF Parameters, UserOf, Writes, NoOne
    <2>2. Init => Inv /\ SpacesRanges
        BY <2>1, InvInit DEF Init, SpacesRanges
    <2>3. Inv /\ SpacesRanges /\ [Next]_vars => (Inv /\ SpacesRanges)'
        BY <2>1, InvStep, SpacesRangesKept
    <2> QED
        BY <2>2, <2>3, SpacesRun, PTL DEF AllSpec, AllInit
<1>2. AllSpec => []FilesInv
    BY FilesInit, FilesStep, FilesRun, PTL DEF AllSpec, AllInit
<1>3. AllSpec => []SkillsInv
    BY SkillsInit, SkillsStep, SkillsRun, PTL DEF AllSpec, AllInit
<1>4. AllSpec => []LayersInv
    BY LayersInit, LayersStep, LayersRun, PTL DEF AllSpec, AllInit
<1>5. /\ FilesInv => FilesPart!TypeOK
      /\ LayersInv => LayersPart!TypeOK
    BY DEF FilesInv, FilesTyped, LayersInv
<1>6. /\ PluginPart!TypeOK /\ MCPPart!TypeOK /\ ToolPart!TypeOK /\ StreamPart!TypeOK /\ ChannelsPart!TypeOK
      /\ RoutingPart!TypeOK /\ SettingsPart!TypeOK /\ RowsPart!TypeOK /\ CronPart!TypeOK
      /\ AccountsPart!TypeOK /\ E2BPart!TypeOK /\ MigrationsPart!TypeOK /\ DaemonPart!TypeOK
      /\ TypeOK /\ FilesPart!TypeOK /\ SkillsPart!TypeOK /\ LayersPart!TypeOK
      => TypesOK
    BY DEF TypesOK
<1> QED
    BY <1>1, <1>2, <1>3, <1>4, <1>5, <1>6, SpacesTypes, SkillsAgree, CallersTypes, ServicesTypes, PTL

================================================================================
