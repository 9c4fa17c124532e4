--------------------------------- MODULE Routing ---------------------------------
(***************************************************************************)
(* internal/gateway/routing.go, dedup.go and channels.go: which agents     *)
(* meet a message, as a turn or in their session only.                     *)
(*                                                                         *)
(* A post is what a person or a bot writes on a chat platform.  In a group *)
(* every bot account gets a copy, at its own time; the dispatcher takes    *)
(* the copies one by one.  One platform is modelled, so that an account    *)
(* names a row of the channels table and an adapter, and one sender.  How  *)
(* messages wait and how tasks run is in Gateway, user spaces are in       *)
(* UserSpaces.                                                             *)
(***************************************************************************)
EXTENDS Integers, Sequences, FiniteSets

CONSTANTS
    Accounts,       (* bot accounts                                          *)
    Unowned,        (* accounts of a system row or of no row at all          *)
    Agents,         (* agents in the owner's space                           *)
    DefaultAgent,   (* agent.Manager.DefaultAgent                            *)
    Nobody,         (* no agent, no account                                  *)
    AnyValue,       (* an empty field of a binding's match                   *)
    Configurations, (* what the owner may have configured: bindings, a       *)
                    (* sequence of agent, account and kind; teams, a set of  *)
                    (* members, behavior and default agent                   *)
    Writable,       (* the posts that may be written                         *)
    MaxPosts        (* bound on their number                                 *)

VARIABLES
    posts,          (* what was written so far                               *)
    copies,         (* copies that wait for the dispatcher: post, account    *)
    seen,           (* dedup: keys, with the sweeps they have survived       *)
    lapsed,         (* history variable: posts whose key has been swept      *)
    config,         (* bindings and teams of the owner's space               *)
    injected,       (* history variable: <<post, agent>> -> injections       *)
    submitted       (* history variable: the tasks submitted                 *)

vars == <<posts, copies, seen, lapsed, config, injected, submitted>>

Post == [kind : {"dm", "group"}, text : Nat, bot : BOOLEAN, mention : Accounts \cup {Nobody}]
\* A binding may name an account that is not there.
Named == UNION {{c.bindings[i].account : i \in 1 .. Len(c.bindings)} : c \in Configurations}
Copy == [post : 1 .. MaxPosts, account : Accounts]
Task == [post : 1 .. MaxPosts, agent : Agents, account : Accounts \cup {Nobody} \cup Named]

First(S) == CHOOSE i \in S : \A j \in S : i <= j
Last(S)  == CHOOSE i \in S : \A j \in S : j <= i

IsGroup(c) == posts[c.post].kind = "group"

----------------------------------------------------------------------------------

Bindings == config.bindings

MatchBinding(b, c) == b.account \in {AnyValue, c.account} /\ b.kind \in {AnyValue, posts[c.post].kind}

\* The bindings of a copy whose agent is loaded.
Matching(c) == {i \in 1 .. Len(Bindings) : MatchBinding(Bindings[i], c) /\ Bindings[i].agent \in Agents}

\* The agent of the first binding that matches, or the default agent.
MatchAgent(c) == IF Matching(c) = {} THEN DefaultAgent ELSE Bindings[First(Matching(c))].agent

AgentsBoundToMessage(c) ==
    IF Bindings = <<>> THEN {DefaultAgent} \cap Agents
    ELSE {Bindings[i].agent : i \in Matching(c)}

BindingsOf(agent) == {i \in 1 .. Len(Bindings) : Bindings[i].agent = agent}

\* The user name of an agent is that of its last binding with a known account.
BotUsername(agent) ==
    LET named == {i \in BindingsOf(agent) : Bindings[i].account \in Accounts}
    IN  IF named = {} THEN Nobody ELSE Bindings[Last(named)].account

AgentByMention(c) ==
    LET named == {a \in AgentsBoundToMessage(c) :
                    BotUsername(a) # Nobody /\ BotUsername(a) = posts[c.post].mention}
    IN  IF named = {} THEN Nobody
        ELSE Bindings[First({i \in Matching(c) : Bindings[i].agent \in named})].agent

\* The account an agent answers with in a group.
AccountIDForAgent(agent) ==
    LET own == {i \in BindingsOf(agent) : Bindings[i].account # AnyValue}
    IN  IF own = {} THEN Nobody ELSE Bindings[First(own)].account

\* A team all of the candidates belong to decides; teams are a Go map, so if
\* several fit any of them may come first.
GroupBehaviorFor(c) ==
    LET fits == {t \in config.teams : AgentsBoundToMessage(c) \subseteq t.members}
    IN  IF fits = {} THEN {[members |-> {}, behavior |-> "mention-only", default |-> Nobody]}
        ELSE fits

\* The agent a group message makes act, if any, when the team decides; a bot's
\* message makes one act only by mention.
GroupTarget(c, team) ==
    IF AgentByMention(c) # Nobody \/ posts[c.post].bot \/ team.behavior # "default-agent"
    THEN AgentByMention(c)
    ELSE IF team.default \in Agents THEN team.default ELSE MatchAgent(c)

----------------------------------------------------------------------------------

Init ==
    /\ posts = <<>> /\ copies = {}
    /\ seen = {} /\ lapsed = {}
    /\ config = [bindings |-> <<>>, teams |-> {}]
    /\ injected = [x \in (1 .. MaxPosts) \X Agents |-> 0]
    /\ submitted = <<>>

\* A message is written; in a group all bots will see it.
Write(p) ==
    /\ Len(posts) < MaxPosts
    /\ posts' = Append(posts, p)
    /\ \E a \in Accounts :
        copies' = copies \cup [post : {Len(posts) + 1},
                               account : IF p.kind = "group" THEN Accounts ELSE {a}]
    /\ UNCHANGED <<seen, lapsed, config, injected, submitted>>

\* Faulty variant: each copy has its own key, its message id.
DedupKeyOfCopy(c) == <<posts[c.post].text, c.account>>

\* channel, chat, user and a hash of the text: the bots of a group get different
\* message ids for the same message.
DedupKey(c) == <<posts[c.post].text>>

IsDuplicate(c) == IsGroup(c) /\ \E e \in seen : e.key = DedupKey(c)

\* A message that has an owner and is no duplicate is remembered as seen before
\* anything else is known about it.
Accept(c) ==
    /\ c.account \notin Unowned
    /\ ~IsDuplicate(c)
    /\ copies' = copies \ {c}
    /\ seen' = IF IsGroup(c) THEN seen \cup {[key |-> DedupKey(c), sweeps |-> 0]} ELSE seen
    /\ UNCHANGED <<posts, lapsed, config>>

Submit(c, agent, account) ==
    submitted' = IF agent = Nobody THEN submitted
                 ELSE Append(submitted, [post |-> c.post, agent |-> agent, account |-> account])

\* InjectGroupMessage of each of the agents.
Inject(c, agents) ==
    injected' = [x \in DOMAIN injected |->
                    IF x[1] = c.post /\ x[2] \in agents THEN injected[x] + 1 ELSE injected[x]]

\* No owner, or a copy of a group message that was seen.
Drop(c) ==
    /\ c.account \in Unowned \/ IsDuplicate(c)
    /\ copies' = copies \ {c}
    /\ UNCHANGED <<posts, seen, lapsed, config, injected, submitted>>

\* The owner's space cannot be loaded.
SpaceUnavailable(c) == Accept(c) /\ UNCHANGED <<injected, submitted>>

RouteDM(c) ==
    /\ Accept(c)
    /\ ~IsGroup(c)
    /\ Submit(c, MatchAgent(c), c.account)
    /\ UNCHANGED injected

\* Nobody is bound: the message is dropped.
RouteGroup(c) ==
    \E team \in GroupBehaviorFor(c) :
        LET bound  == AgentsBoundToMessage(c)
            target == IF bound = {} THEN Nobody ELSE GroupTarget(c, team)
        IN  /\ Accept(c)
            /\ IsGroup(c)
            /\ Inject(c, IF posts[c.post].bot THEN bound ELSE bound \ {target})
            /\ Submit(c, target, AccountIDForAgent(target))

\* cleanupDedup, every 30 seconds: an entry older than 60 goes, which is the
\* third sweep it sees.
SweepDedup ==
    LET old == {e \in seen : e.sweeps = 2}
    IN  /\ seen # {}
        /\ seen' = {[e EXCEPT !.sweeps = @ + 1] : e \in seen \ old}
        /\ lapsed' = lapsed \cup {p \in 1 .. Len(posts) : \E e \in old : e.key[1] = posts[p].text}
        /\ UNCHANGED <<posts, copies, config, injected, submitted>>

\* The owner has configured the space before anybody writes.
Configure(c) ==
    /\ posts = <<>>
    /\ config' = c
    /\ UNCHANGED <<posts, copies, seen, lapsed, injected, submitted>>

Next ==
    \/ \E p \in Writable : Write(p)
    \/ \E c \in copies : RouteDM(c) \/ RouteGroup(c) \/ Drop(c) \/ SpaceUnavailable(c)
    \/ SweepDedup
    \/ \E c \in Configurations : Configure(c)

Spec == Init /\ [][Next]_vars

----------------------------------------------------------------------------------

TypeOK ==
    /\ posts \in Seq(Post) /\ copies \subseteq Copy
    /\ \A e \in seen : e.sweeps \in 0 .. 2
    /\ lapsed \subseteq 1 .. Len(posts)
    /\ submitted \in Seq(Task)
    /\ injected \in [(1 .. MaxPosts) \X Agents -> Nat]

TurnsOn(p) == {i \in 1 .. Len(submitted) : submitted[i].post = p}

\* Although every bot of a group gets a copy of what a person writes there, at
\* most one agent acts on it, and an agent meets it at most once, in its session
\* or as a turn, as long as the copies come before the key is swept.
MetOnce ==
    \A p \in 1 .. Len(posts) :
        posts[p].kind = "group" /\ ~posts[p].bot /\ p \notin lapsed =>
            /\ Cardinality(TurnsOn(p)) <= 1
            /\ \A a \in Agents :
                injected[<<p, a>>] + Cardinality({i \in TurnsOn(p) : submitted[i].agent = a}) <= 1

\* A bot's message makes an agent act only when it mentions that agent, and never
\* more than one: two bots cannot answer each other without end by themselves.
BotsNeedMention ==
    \A i \in 1 .. Len(submitted) :
        LET p == submitted[i].post
        IN  posts[p].kind = "group" /\ posts[p].bot =>
                BotUsername(submitted[i].agent) = posts[p].mention

MessagesMetOnce == MetOnce /\ BotsNeedMention

==================================================================================
