---------------------------------- MODULE Services ----------------------------------
(***************************************************************************)
(* The components around queue, session and turn, put side by side.  They  *)
(* share no state in the models, so a behaviour is one of a single         *)
(* component: part says which, and the others rest in an initial state.    *)
(*                                                                         *)
(* The parameters are those of the components; UserSpaces is extended, the *)
(* others are instances.                                                   *)
(***************************************************************************)
EXTENDS UserSpaces

CONSTANTS
    RoutingAccounts, Unowned, RoutingAgents, DefaultAgent, NoBot, AnyValue, Configurations,
    Writable, MaxWritten,                                        (* Routing    *)
    ChannelRows, Limit, Texts, PostKinds, MaxChatPosts, MaxSaid,     (* Channels   *)
    SettingUsers, SettingAdmins, Updates, By, Patch, Namespaces, SettingAgent,
    Env, Default, File, Unset,                                   (* Settings   *)
    RowKeys, IsChannel, RowOwner, RowAdmins, System, RowCalls, Ending, Masked,
    NoValue,                                                     (* ConfigRows *)
    CronPods, Jobs, LockTTL, MaxTime,                            (* Cron       *)
    Impatient, Patient, MaxId, MaxNotes, PipeCap,                (* PluginHost *)
    Servers, ServerTools, Prefix, Tasks, MaxRequests, MaxOwn,    (* McpClients *)
    AccountUsers, AccountAgents, ApiKeys, AccountRequests,
    MaxAccountRequests,                                          (* Accounts   *)
    RemoteCalls, MaxSandboxes, MaxExecutors,                     (* E2B        *)
    MaxEvents, ChunkCap,                                         (* ModelStream *)
    SkillPods, SkillNames, SkillFiles, Manifest, Bundles, SizeOf, MaxOps,
    MaxOpen,                                                     (* Skills     *)
    FileUsers, Chats, OwnerOf, Identity, Artifacts, Local, MaxWrites, (* AgentFiles *)
    Processes, Owned, Orphans, MaxDeaths,                        (* Migrations *)
    MaxPids, MaxCommands, MaxRestarts, MaxBackoff,               (* Daemon     *)
    ToolSettings, MaxSaves,                                      (* ToolChain  *)
    LayerNames, Extra, Manifests, Machine, LayerConfigs, Commands,
    MaxChanges                                                   (* SkillLayers *)

VARIABLES part, posts, copies, seen, lapsed, config, injected, submitted, todo,
          channels, state, chatPosts, feed, inbound, outbound, said, sending,
          systemRows, userRows, update, configRows, rowCall, overtaken, raced,
          clock, jobs, poller, messages, doubted, alive, running, mutex, nextID,
          pending, channel, caller, stdin, working, stdout, reader, notes, host,
          process, wantsId, lock, requests, lines, own, boot, kept, route, call,
          accounts, owner, accountRows, request, begun, erased, cloud, executor,
          e2bPool, remote, closing, leaked, api, phase, sent, wire, connection,
          cancelled, blocks, content, result, chunks, streaming, full, out,
          relaying, shown, last, reading, stored, store, disk, ops, opsBegun,
          filePool, bound, fileRows, home, blobs, boxes, turn, contents,
          lastRead, dialect, table, rebuilt, shared, owners, legacy, configs, at,
          toMove, deaths, given, wish, torn, pidFile, proc, command, crashes,
          strayed, saved, saves, chain, chainCall, layers, settings, prompt, changes,
          fresh, ran

routingVars == <<posts, copies, seen, lapsed, config, injected, submitted>>
channelsVars == <<todo, channels, state, chatPosts, feed, inbound, outbound, said,
    sending>>
settingsVars == <<systemRows, userRows, update>>
rowsVars == <<configRows, rowCall, overtaken, raced>>
cronVars == <<clock, jobs, poller, messages, doubted>>
pluginVars == <<alive, running, mutex, nextID, pending, channel, caller, stdin,
    working, stdout, reader, notes, host>>
mcpVars == <<process, wantsId, lock, requests, lines, own, boot, kept, route, call>>
accountsVars == <<accounts, owner, accountRows, request, begun, erased>>
e2bVars == <<cloud, executor, e2bPool, remote, closing, leaked>>
streamVars == <<api, phase, sent, wire, connection, cancelled, blocks, content,
    result, chunks, streaming, full, out, relaying, shown, last, reading, stored>>
skillsVars == <<store, disk, ops, opsBegun>>
filesVars == <<filePool, bound, fileRows, home, blobs, boxes, turn, contents,
    lastRead>>
migrationsVars == <<dialect, table, rebuilt, shared, owners, legacy, configs, at,
    toMove, deaths, given, wish, torn>>
daemonVars == <<pidFile, proc, command, crashes, strayed>>
toolVars == <<saved, saves, chain, chainCall>>
layersVars == <<layers, settings, prompt, changes, fresh, ran>>

RoutingPart == INSTANCE Routing WITH
    Accounts <- RoutingAccounts, Agents <- RoutingAgents, Nobody <- NoBot, MaxPosts <- MaxWritten

ChannelsPart == INSTANCE Channels WITH
    Rows <- ChannelRows, Kinds <- PostKinds, MaxPosts <- MaxChatPosts,
    posts <- chatPosts

SettingsPart == INSTANCE Settings WITH
    Users <- SettingUsers, Admins <- SettingAdmins, Agent <- SettingAgent

RowsPart == INSTANCE ConfigRows WITH
    Keys <- RowKeys, Owner <- RowOwner, Admins <- RowAdmins, Calls <- RowCalls, None <- NoValue,
    rows <- configRows, call <- rowCall

CronPart == INSTANCE Cron WITH Pods <- CronPods

PluginPart == INSTANCE PluginHost

MCPPart == INSTANCE McpClients WITH Tools <- ServerTools

AccountsPart == INSTANCE Accounts WITH
    Users <- AccountUsers, Agents <- AccountAgents, Keys <- ApiKeys, Requests <- AccountRequests,
    MaxBegun <- MaxAccountRequests,
    rows <- accountRows

E2BPart == INSTANCE E2B WITH Calls <- RemoteCalls, pool <- e2bPool

StreamPart == INSTANCE ModelStream

SkillsPart == INSTANCE Skills WITH
    Pods <- SkillPods, Skills <- SkillNames, Files <- SkillFiles, MaxBegun <- MaxOps,
    begun <- opsBegun

FilesPart == INSTANCE AgentFiles WITH
    Users <- FileUsers,
    rows <- fileRows, pool <- filePool, registry <- bound, written <- contents, last <- lastRead

MigrationsPart == INSTANCE Migrations WITH todo <- toMove

DaemonPart == INSTANCE Daemon

ToolPart == INSTANCE ToolChain WITH Settings <- ToolSettings, call <- chainCall

LayersPart == INSTANCE SkillLayers WITH
    Names <- LayerNames, Configs <- LayerConfigs, None <- NoValue, disk <- layers, config <- settings

----------------------------------------------------------------------------------
(***************************************************************************)
(* What the proofs need of the parameters.  Bounds are numbers, what one   *)
(* module calls nobody or nothing is not one of the others, and the inputs *)
(* are of the kind the code can be given.                                  *)
(***************************************************************************)
E2BAssumed == MaxSandboxes \in Nat /\ MaxExecutors \in Nat

\* No route leads to an agent that is not there.
RoutingAssumed ==
    /\ MaxWritten \in Nat /\ Writable \subseteq RoutingPart!Post
    /\ DefaultAgent \in RoutingAgents \cup {NoBot}
    /\ \A c \in Configurations : Len(c.bindings) \in Nat

MCPAssumed == MaxRequests \in Nat /\ MCPPart!Nobody \notin Tasks

\* The mask is shown for rows that exist: nobody creates one with it.
RowsAssumed ==
    /\ IsChannel \subseteq RowKeys /\ NoValue \notin RowKeys /\ Masked # NoValue
    /\ \A i \in DOMAIN RowCalls : /\ RowCalls[i].key \in RowKeys
                                  /\ RowCalls[i].op = "create" => RowCalls[i].secret # Masked

\* A request sets fields to something; the values are numbers.
SettingsAssumed ==
    /\ Namespaces \in Seq(SUBSET SettingsPart!Fields) /\ Namespaces # <<>>
    /\ By \in [Updates -> SettingUsers]
    /\ \A p \in Updates : \A f \in DOMAIN Patch[p] : Patch[p][f] \in Nat
    /\ Unset \notin Nat
    /\ \A f \in SettingsPart!Fields :
        /\ Env[f] \in Nat \cup {Unset} /\ Default[f] \in Nat \cup {Unset}
        /\ \A u \in SettingUsers : File[SettingAgent[u]][f] \in Nat \cup {Unset}

PluginAssumed ==
    /\ MaxId \in Nat \ {0} /\ MaxNotes \in Nat
    /\ PluginPart!Free \notin PluginPart!Caller /\ "sweep" \notin PluginPart!Caller

\* Settings are of one of the three tools, and the references of a chain form a sequence.
ToolAssumed ==
    /\ MaxSaves \in Nat
    /\ \A s \in ToolSettings : s.category \in {"web_search", "image_gen", "tts"}
    /\ \A s \in ToolSettings \cup {ToolPart!None} : ToolPart!Refs(s) \in Seq(STRING)

\* A path is of one kind, and every chat is served in some user's space.
FilesAssumed ==
    /\ MaxWrites \in Nat /\ FilesPart!NoOne \notin Chats /\ OwnerOf \in [Chats -> FileUsers]
    /\ Identity \cap Artifacts = {} /\ Identity \cap Local = {} /\ Artifacts \cap Local = {}

\* A bundle consists of files, and the manifest is one; there is a skill to speak of.
SkillsAssumed ==
    /\ SkillNames # {} /\ Manifest \in SkillFiles
    /\ \A v \in SkillsPart!Versions : Bundles[v] \subseteq SkillFiles
    /\ MaxOps \in Nat /\ MaxOpen \in Nat

\* The variables a command gets from settings with a key.
Given(r, var) == [x \in DOMAIN r.env \cup {var} |-> IF x = var THEN r.apiKey ELSE r.env[x]]

\* The directories differ, an absent skill is no SKILL.md and no settings are none of the
\* settings; a command mentions skills where they are kept.
LayersAssumed ==
    /\ MaxChanges \in Nat /\ Extra \in Seq(LayersPart!Extras)
    /\ \A i, j \in DOMAIN LayersPart!Layers : LayersPart!Layers[i] = LayersPart!Layers[j] => i = j
    /\ NoValue \notin Manifests
    /\ \A d \in LayersPart!Dirs, m \in Manifests : [dir |-> d, manifest |-> m] # NoValue
    /\ \A c \in LayerConfigs :
        \A r \in {c.entries[n] : n \in DOMAIN c.entries} \cup {c.own[n] : n \in DOMAIN c.own} :
            r.env # NoValue /\ \A m \in Manifests : Given(r, m.primary) # NoValue
    /\ \A cmd \in Commands :
        /\ DOMAIN cmd = 1..Len(cmd) /\ Len(cmd) \in Nat
        /\ \A i \in DOMAIN cmd : cmd[i].dir \in LayersPart!Dirs \cup {LayersPart!Mount}

\* No agent is owned and not, and none has the name that stands for a dropped table.
MigrationsAssumed ==
    MaxDeaths \in Nat /\ Owned \cap Orphans = {} /\ "gone" \notin MigrationsPart!Agents

\* A daemon gives up at some time, and sleeps for a second or more.
DaemonAssumed ==
    MaxPids \in Nat /\ MaxCommands \in Nat /\ MaxRestarts \in Nat \ {0} /\ MaxBackoff \in Nat \ {0}

\* The channels are those the code has, their limits leave room for text, and a text has a length.
ChannelsAssumed ==
    /\ DOMAIN ChannelRows = 1..Len(ChannelRows) /\ Len(ChannelRows) \in Nat
    /\ \A i \in DOMAIN ChannelRows : ChannelRows[i].type \in {"telegram", "discord", "slack"}
    /\ Limit["telegram"] \in Nat \ {0} /\ Limit["discord"] \in Nat \ {0}
    /\ \A t \in DOMAIN Texts : Texts[t].len \in Nat

ASSUME ServicesAssumption ==
    /\ E2BAssumed /\ RoutingAssumed /\ MCPAssumed /\ RowsAssumed /\ SettingsAssumed /\ PluginAssumed
    /\ ToolAssumed /\ FilesAssumed /\ SkillsAssumed /\ LayersAssumed
    /\ MigrationsAssumed /\ DaemonAssumed /\ ChannelsAssumed
    /\ MaxAccountRequests \in Nat /\ MaxTime \in Nat /\ ChunkCap \in Nat

----------------------------------------------------------------------------------

AllInit ==
    /\ part \in {"routing", "channels", "spaces", "settings", "rows", "cron", "plugin", "mcp",
                "accounts", "e2b", "stream", "skills", "files", "migrations", "daemon", "tool", "layers"}
    /\ RoutingPart!Init
    /\ ChannelsPart!Init
    /\ Init
    /\ SettingsPart!Init
    /\ RowsPart!Init
    /\ CronPart!Init
    /\ PluginPart!Init
    /\ MCPPart!Init
    /\ AccountsPart!Init
    /\ E2BPart!Init
    /\ StreamPart!Init
    /\ SkillsPart!Init
    /\ FilesPart!Init
    /\ MigrationsPart!Init
    /\ DaemonPart!Init
    /\ ToolPart!Init
    /\ LayersPart!Init
    /\ part # "stream" => api = "openai"
    /\ part # "tool" => saved = CHOOSE s \in ToolSettings : TRUE
    /\ part # "layers" => settings = CHOOSE c \in LayerConfigs : TRUE
    /\ part # "files" => filePool = [u \in FileUsers |-> FALSE]
    /\ part # "migrations" => /\ dialect = "sqlite" /\ table = "wide" /\ given = {}
                              /\ owners = [a \in Owned |-> {}] /\ legacy = [k \in DOMAIN legacy |-> {}]

\* The other parts rest.
Only(p) ==
    /\ part = p /\ UNCHANGED part
    /\ p # "routing" => UNCHANGED routingVars
    /\ p # "channels" => UNCHANGED channelsVars
    /\ p # "spaces" => UNCHANGED vars
    /\ p # "settings" => UNCHANGED settingsVars
    /\ p # "rows" => UNCHANGED rowsVars
    /\ p # "cron" => UNCHANGED cronVars
    /\ p # "plugin" => UNCHANGED pluginVars
    /\ p # "mcp" => UNCHANGED mcpVars
    /\ p # "accounts" => UNCHANGED accountsVars
    /\ p # "e2b" => UNCHANGED e2bVars
    /\ p # "stream" => UNCHANGED streamVars
    /\ p # "skills" => UNCHANGED skillsVars
    /\ p # "files" => UNCHANGED filesVars
    /\ p # "migrations" => UNCHANGED migrationsVars
    /\ p # "daemon" => UNCHANGED daemonVars
    /\ p # "tool" => UNCHANGED toolVars
    /\ p # "layers" => UNCHANGED layersVars

AllNext ==
    \/ Only("routing") /\ RoutingPart!Next
    \/ Only("channels") /\ ChannelsPart!Next
    \/ Only("spaces") /\ Next
    \/ Only("settings") /\ SettingsPart!Next
    \/ Only("rows") /\ RowsPart!Next
    \/ Only("cron") /\ CronPart!Next
    \/ Only("plugin") /\ PluginPart!Next
    \/ Only("mcp") /\ MCPPart!Next
    \/ Only("accounts") /\ AccountsPart!Next
    \/ Only("e2b") /\ E2BPart!Next
    \/ Only("stream") /\ StreamPart!Next
    \/ Only("skills") /\ SkillsPart!Next
    \/ Only("files") /\ FilesPart!Next
    \/ Only("migrations") /\ MigrationsPart!Next
    \/ Only("daemon") /\ DaemonPart!Next
    \/ Only("tool") /\ ToolPart!Next
    \/ Only("layers") /\ LayersPart!Next

allVars == <<part, routingVars, channelsVars, vars, settingsVars, rowsVars, cronVars, pluginVars,
             mcpVars, accountsVars, e2bVars, streamVars, skillsVars, filesVars, migrationsVars,
             daemonVars, toolVars, layersVars>>

AllSpec == AllInit /\ [][AllNext]_allVars

----------------------------------------------------------------------------------
(***************************************************************************)
(* What the modules promise, put together where they promise the same kind *)
(* of thing.                                                               *)
(***************************************************************************)
\* Types and ranges of the variables of the part that runs.
TypesOK ==
    /\ part = "routing" => RoutingPart!TypeOK
    /\ part = "channels" => ChannelsPart!TypeOK
    /\ part = "spaces" => TypeOK
    /\ part = "settings" => SettingsPart!TypeOK
    /\ part = "rows" => RowsPart!TypeOK
    /\ part = "cron" => CronPart!TypeOK
    /\ part = "plugin" => PluginPart!TypeOK
    /\ part = "mcp" => MCPPart!TypeOK
    /\ part = "accounts" => AccountsPart!TypeOK
    /\ part = "e2b" => E2BPart!TypeOK
    /\ part = "stream" => StreamPart!TypeOK
    /\ part = "skills" => SkillsPart!TypeOK
    /\ part = "files" => FilesPart!TypeOK
    /\ part = "migrations" => MigrationsPart!TypeOK
    /\ part = "daemon" => DaemonPart!TypeOK
    /\ part = "tool" => ToolPart!TypeOK
    /\ part = "layers" => LayersPart!TypeOK

\* An agent meets a message once however many bots saw it (Routing), and a cron job fires once
\* a minute however many processes poll (Cron), with the exceptions the modules name.
TriggeredOnce == RoutingPart!MessagesMetOnce /\ CronPart!FiredOnce

\* Answers arrive whole and in order, and no bot answers itself (Channels).
ChannelsDeliver == ChannelsPart!ChannelsDeliver

\* A saved setting is what the next reader gets (Settings), and the rows of one owner's channels
\* are neither another's nor shared (ConfigRows).
ConfigurationSound == SettingsPart!PatchTakesEffect /\ RowsPart!RowsSound

\* Whoever calls a plugin or an MCP server gets the answer to that call, and calls end as far as
\* the code bounds them (PluginHost, McpClients); a tool with a chain of providers asks those it
\* has, in order, until the first answer (ToolChain).
CallersAnswered ==
    /\ PluginPart!PluginCallsEnd
    /\ MCPPart!AnswersMatched /\ MCPPart!OneCallAtATime
    /\ ToolPart!ChainSound

\* Nothing of a deleted account comes back or goes on working (Accounts).
AccountDeletionIsFinal == AccountsPart!AccountDeletionIsFinal

\* A remote tool call runs at most once where it must, and sandboxes are let go (E2B).
RemoteCallsSound == E2BPart!RemoteCallsSound

\* What the client sees and the session stores is what the model sent (ModelStream).
StreamsWhole == StreamPart!StreamsWhole

\* Replicas agree on the installed skills (Skills), of several skills of a name the one that is
\* shown is the one that gets the key (SkillLayers), and a file tool acts on the session's own
\* files (AgentFiles).
FilesAndSkills ==
    /\ SkillsPart!ReplicasAgree
    /\ LayersPart!KeyWhereShown /\ LayersPart!ShownRanksFirst
    /\ FilesPart!FilesSound

\* What dies comes back right: migrations that were killed and run again (Migrations), the
\* gateway under its wrapper (Daemon).
RestartsSound == MigrationsPart!MigrationSound /\ DaemonPart!DaemonKept

==================================================================================
