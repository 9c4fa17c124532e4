--------------------------------- MODULE Accounts ---------------------------------
(***************************************************************************)
(* internal/users, internal/auth, the account, key and agent handlers of   *)
(* internal/setup (handlers_admin.go, handlers_agents.go) and their tables *)
(* in internal/store/database.go.                                          *)
(*                                                                         *)
(* A request is resolved to an account by its cookie or token and then     *)
(* runs by itself: it reads the row it is about, and later writes it back  *)
(* whole, deletes it with everything that hangs on it in one transaction,  *)
(* or adds a row for the account it was resolved to, whatever the other    *)
(* requests did in between.  Names, e-mail addresses and descriptions are  *)
(* left out; passwords, tokens and configurations are versions.            *)
(***************************************************************************)
EXTENDS Integers, FiniteSets

CONSTANTS
    Users,          (* account ids that may be drawn                         *)
    Agents,         (* agent ids that may be drawn                           *)
    Keys,           (* API key ids that may be drawn                         *)
    Requests,       (* requests in flight                                    *)
    MaxBegun        (* bound on the requests in all                          *)

VARIABLES
    accounts,       (* the users table: id -> role, status, password         *)
    owner,          (* the agents table: id -> user_id                       *)
    rows,           (* the rows of the other tables                          *)
    request,        (* request -> what it does, for whom, what it has read   *)
    begun,          (* requests begun so far                                 *)
    erased          (* history variable: accounts deleted                    *)

vars == <<accounts, owner, rows, request, begun, erased>>

None == "none"
Row(table, user, agent, key) == [table |-> table, user |-> user, agent |-> agent, key |-> key]

Account(role) == [role |-> role, status |-> "active", password |-> 0]
Idle == [op |-> "idle", who |-> None, on |-> None, read |-> None]

Holds(u) == u \in DOMAIN accounts
Active(u) == Holds(u) /\ accounts[u].status = "active"
IsAdmin(u) == Holds(u) /\ accounts[u].role = "super_admin"
ActiveAdmins == {u \in DOMAIN accounts : IsAdmin(u) /\ Active(u)}

Init ==
    /\ accounts = [u \in {} |-> Account("user")]
    /\ owner = [a \in {} |-> None]
    /\ rows = {}
    /\ request = [r \in Requests |-> Idle]
    /\ begun = 0
    /\ erased = {}

----------------------------------------------------------------------------------

\* ResolveSession and LookupByToken: the row names a user, who must exist and be active;
\* a row whose user is gone counts for nothing.
ResolveSession(u) == Row("web_sessions", u, None, None) \in rows /\ Active(u)
ResolveBearer(u)  == (\E k \in Keys : Row("apikeys", u, None, k) \in rows) /\ Active(u)

\* The cookie decides; the token counts only when the cookie does not.  Without
\* either only onboarding and login remain.
Resolve(u) == ResolveSession(u) \/ ResolveBearer(u)

\* What goes by the row alone.
ResolveByRow(u) == \E row \in rows : row.table \in {"web_sessions", "apikeys"} /\ row.user = u

Set(r, x) == request' = [request EXCEPT ![r] = x]
Done(r)   == Set(r, Idle)
Turn(r, op) == request[r].op = op

\* handleOnboard looks at the number of users first.
CountUsers(r) ==
    /\ Turn(r, "idle") /\ begun < MaxBegun
    /\ DOMAIN accounts = {}
    /\ Set(r, [Idle EXCEPT !.op = "onboard"])
    /\ begun' = begun + 1
    /\ UNCHANGED <<accounts, owner, rows, erased>>

New(u) == u \in Users \ (DOMAIN accounts \cup erased)
WithAccount(u, record) == [x \in DOMAIN accounts \cup {u} |-> IF x = u THEN record ELSE accounts[x]]
WithOwner(a, u) == [x \in DOMAIN owner \cup {a} |-> IF x = a THEN u ELSE owner[x]]

\* Then it creates the account, the settings, an agent and a session; of two requests
\* for one name the second fails, for two names both are super admins.
Onboard(r) ==
    /\ Turn(r, "onboard")
    /\ \/ \E u \in Users, a \in Agents \ DOMAIN owner :
            /\ New(u)
            /\ accounts' = WithAccount(u, Account("super_admin"))
            /\ owner' = WithOwner(a, u)
            /\ rows' = rows \cup {Row("web_sessions", u, None, None)}
       \/ /\ DOMAIN accounts # {}
          /\ UNCHANGED <<accounts, owner, rows>>
    /\ Done(r)
    /\ UNCHANGED <<begun, erased>>

\* Authenticate: login knows an active account by its password.
Authenticate(r) ==
    /\ Turn(r, "idle") /\ begun < MaxBegun
    /\ \E u \in Users : Active(u) /\ Set(r, [Idle EXCEPT !.op = "login", !.who = u])
    /\ begun' = begun + 1
    /\ UNCHANGED <<accounts, owner, rows, erased>>

\* handleLogin issues the session afterwards.
IssueSession(r) ==
    /\ Turn(r, "login")
    /\ rows' = rows \cup {Row("web_sessions", request[r].who, None, None)}
    /\ Done(r)
    /\ UNCHANGED <<accounts, owner, begun, erased>>

AdminOps == {"update", "password", "delete"}
AgentOps == {"saveAgent", "deleteAgent"}

\* A request with a credential, and the read the handler begins with: GetUser for the
\* admin's operations, GetAgent for those on an agent (its owner or an admin only).
\* Delete refuses to drop the last active admin.
Begin(r) ==
    /\ Turn(r, "idle") /\ begun < MaxBegun
    /\ \E who \in Users :
        /\ Resolve(who)
        /\ \/ \E op \in AdminOps, u \in DOMAIN accounts :
                /\ IsAdmin(who)
                /\ (op = "delete" /\ IsAdmin(u)) => Cardinality(ActiveAdmins) > 1
                /\ Set(r, [op |-> op, who |-> who, on |-> u, read |-> accounts[u]])
           \/ \E op \in AgentOps, a \in DOMAIN owner :
                /\ owner[a] = who \/ IsAdmin(who)
                /\ Set(r, [op |-> op, who |-> who, on |-> a, read |-> owner[a]])
           \/ \E op \in {"createKey", "createAgent", "logout"} :
                Set(r, [op |-> op, who |-> who, on |-> None, read |-> None])
           \/ \E k \in Keys :
                /\ \E row \in rows : row.table = "apikeys" /\ row.key = k
                                     /\ (row.user = who \/ IsAdmin(who))
                /\ \E op \in {"deleteKey", "setAgents"} :
                    Set(r, [op |-> op, who |-> who, on |-> k, read |-> None])
    /\ begun' = begun + 1
    /\ UNCHANGED <<accounts, owner, rows, erased>>

----------------------------------------------------------------------------------

\* handleAdminCreateUser (one insert; the name must be free) needs no earlier read.
CreateUser ==
    /\ begun < MaxBegun /\ begun' = begun + 1
    /\ \E who, u \in Users :
        /\ Resolve(who) /\ IsAdmin(who)
        /\ New(u)
        /\ \E role \in {"user", "super_admin"} : accounts' = WithAccount(u, Account(role))
    /\ UNCHANGED <<owner, rows, request, erased>>

\* As SaveAgent does it: insert, or update on conflict.
UpsertUser(u, record) ==
    accounts' = WithAccount(u, record)

\* UPDATE users ... WHERE id: the whole record goes back, if there still is a row.
UpdateUser(u, record) ==
    accounts' = IF Holds(u) THEN [accounts EXCEPT ![u] = record] ELSE accounts

\* Accounts.Update: role or status.
Update(r) ==
    /\ Turn(r, "update")
    /\ \/ \E role \in {"user", "super_admin"} :
            UpdateUser(request[r].on, [request[r].read EXCEPT !.role = role])
       \/ \E status \in {"active", "disabled"} :
            UpdateUser(request[r].on, [request[r].read EXCEPT !.status = status])
    /\ Done(r)
    /\ UNCHANGED <<owner, rows, begun, erased>>

SetPassword(r) ==
    /\ Turn(r, "password")
    /\ UpdateUser(request[r].on, [request[r].read EXCEPT !.password = 1])
    /\ Done(r)
    /\ UNCHANGED <<owner, rows, begun, erased>>

\* The rows that hang on an agent: agent_files, sessions, cron_jobs, apikey_agents and
\* the configs of its scope, all by agent id.
OfAgent(row, a) == row.agent = a

\* DeleteUser, one transaction: what hangs on the agents of the user, the agents, the
\* user's web sessions, keys, chat sessions and configs, the grants of keys that are
\* gone, and the row itself.
Cascade(u) ==
    LET mine == {a \in DOMAIN owner : owner[a] = u}
        kept == {row \in rows : /\ \A a \in mine : ~OfAgent(row, a)
                                /\ row.table \in {"web_sessions", "apikeys", "sessions",
                                                  "configs"} => row.user # u}
        keys == {row.key : row \in {k \in kept : k.table = "apikeys"}}
    IN  /\ rows' = {row \in kept : row.table = "apikey_agents" => row.key \in keys}
        /\ owner' = [a \in DOMAIN owner \ mine |-> owner[a]]
        /\ accounts' = [x \in DOMAIN accounts \ {u} |-> accounts[x]]

DeleteUser(r) ==
    /\ Turn(r, "delete")
    /\ Cascade(request[r].on)
    /\ erased' = erased \cup {request[r].on}
    /\ Done(r)
    /\ UNCHANGED begun

\* INSERT ... ON CONFLICT UPDATE: an agent that was read is there again.
SaveAgent(r) ==
    /\ Turn(r, "saveAgent")
    /\ owner' = WithOwner(request[r].on, request[r].read)
    /\ Done(r)
    /\ UNCHANGED <<accounts, rows, begun, erased>>

CreateAgent(r) ==
    /\ Turn(r, "createAgent")
    /\ \E a \in Agents \ DOMAIN owner : owner' = WithOwner(a, request[r].who)
    /\ Done(r)
    /\ UNCHANGED <<accounts, rows, begun, erased>>

DeleteAgent(r) ==
    /\ Turn(r, "deleteAgent")
    /\ rows' = {row \in rows : ~OfAgent(row, request[r].on)}
    /\ owner' = [a \in DOMAIN owner \ {request[r].on} |-> owner[a]]
    /\ Done(r)
    /\ UNCHANGED <<accounts, begun, erased>>

\* A conversation with an agent leaves its rows (chat session, cron job).
Converse ==
    /\ \E a \in DOMAIN owner, table \in {"sessions", "cron_jobs"} :
        rows' = rows \cup {Row(table, owner[a], a, None)}
    /\ UNCHANGED <<accounts, owner, request, begun, erased>>

CreateKey(r) ==
    /\ Turn(r, "createKey")
    /\ \E k \in Keys :
        /\ \A row \in rows : row.key # k
        /\ rows' = rows \cup {Row("apikeys", request[r].who, None, k)}
    /\ Done(r)
    /\ UNCHANGED <<accounts, owner, begun, erased>>

\* SetAPIKeyAgents replaces the grants of the key; nobody looks at the agents.
SetAgents(r) ==
    /\ Turn(r, "setAgents")
    /\ \E granted \in SUBSET DOMAIN owner :
        rows' = {row \in rows : row.table = "apikey_agents" => row.key # request[r].on}
                    \cup {Row("apikey_agents", None, a, request[r].on) : a \in granted}
    /\ Done(r)
    /\ UNCHANGED <<accounts, owner, begun, erased>>

DeleteKey(r) ==
    /\ Turn(r, "deleteKey")
    /\ rows' = {row \in rows : row.key # request[r].on}
    /\ Done(r)
    /\ UNCHANGED <<accounts, owner, begun, erased>>

RevokeSession(r) ==
    /\ Turn(r, "logout")
    /\ rows' = rows \ {Row("web_sessions", request[r].who, None, None)}
    /\ Done(r)
    /\ UNCHANGED <<accounts, owner, begun, erased>>

Next ==
    \/ CreateUser \/ Converse
    \/ \E r \in Requests :
        \/ CountUsers(r) \/ Onboard(r) \/ Authenticate(r) \/ IssueSession(r) \/ Begin(r)
        \/ Update(r) \/ SetPassword(r) \/ DeleteUser(r)
        \/ SaveAgent(r) \/ CreateAgent(r) \/ DeleteAgent(r)
        \/ CreateKey(r) \/ SetAgents(r) \/ DeleteKey(r) \/ RevokeSession(r)

----------------------------------------------------------------------------------

TypeOK ==
    /\ DOMAIN accounts \subseteq Users /\ DOMAIN owner \subseteq Agents
    /\ \A u \in DOMAIN accounts : accounts[u].role \in {"user", "super_admin"}
    /\ begun \in 0 .. MaxBegun

\* An account that was deleted does not come back, although requests in flight still
\* write the whole record they read before.
DeletedStayDeleted == erased \cap DOMAIN accounts = {}

\* A login or a new key that was under way when its account was deleted leaves a row
\* without a user; nobody gets in by it.
OrphansAdmitNobody == \A u \in erased : ~Resolve(u)

AccountDeletionIsFinal == DeletedStayDeleted /\ OrphansAdmitNobody
=============================================================================
