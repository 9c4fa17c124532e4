-------------------------------- MODULE MCServices --------------------------------
(***************************************************************************)
(* Services for TLC: the values of its parameters that a configuration     *)
(* file cannot write down, by part.                                        *)
(***************************************************************************)
EXTENDS Services

CONSTANTS b1, b2, a1, a2

\* Routing: two bots, two agents, with bindings and either two teams or none.
Post(kind, text, bot, mention) == [kind |-> kind, text |-> text, bot |-> bot, mention |-> mention]
MCWritable == {Post("dm", 0, FALSE, NoBot), Post("group", 1, FALSE, NoBot),
               Post("group", 1, FALSE, b2), Post("group", 2, TRUE, b2)}
MCBindings == <<[agent |-> a1, account |-> b1, kind |-> AnyValue],
                [agent |-> a2, account |-> AnyValue, kind |-> "group"],
                [agent |-> a2, account |-> b2, kind |-> AnyValue]>>
MCTeams == {[members |-> {a1, a2}, behavior |-> "default-agent", default |-> a2],
            [members |-> {a1, a2}, behavior |-> "mention-only", default |-> NoBot]}
MCConfigurations == {[bindings |-> MCBindings, teams |-> MCTeams], [bindings |-> MCBindings, teams |-> {}]}

\* Channels: one row of each type, of which one is the owner's and thus not listed.
Row(type, system, keys) == [type |-> type, system |-> system, enabled |-> TRUE, accounts |-> keys]
MCChannelRows == <<Row("telegram", TRUE, {"m"}), Row("discord", TRUE, {}),
                   Row("slack", FALSE, {}), Row("slack", TRUE, {})>>
MCLimit == [telegram |-> 3, discord |-> 2]
MCTexts == <<[len |-> 4, lines |-> {2}], [len |-> 0, lines |-> {}]>>

\* UserSpaces: one user, two requests of which one is for a foreign agent, two writes.
MCOwn    == [u |-> {"a"}]
MCWanted == [r1 |-> <<"u", "a">>, r2 |-> <<"u", "foreign">>]
MCScopes == <<{"u"}, {"u"}>>

\* Settings: two updates of a user and one of the admin, two namespaces.
NothingSet   == [f \in {"f1", "f2", "f3", "f4"} |-> Unset]
MCBy         == [p |-> "u", q |-> "u", s |-> "admin"]
MCPatch      == [p |-> [f1 |-> 1], q |-> [f3 |-> 2], s |-> [f1 |-> 3, f2 |-> 1]]
MCNamespaces == <<{"f1", "f2"}, {"f3", "f4"}>>
MCAgent      == [u |-> "a", admin |-> "b"]
MCEnv        == [NothingSet EXCEPT !.f4 = 9]
MCDefault    == [NothingSet EXCEPT !.f2 = 7]
MCFile       == [a |-> NothingSet, b |-> [NothingSet EXCEPT !.f1 = 8]]

\* ConfigRows: two channels and a provider, and requests of two users and an admin.
MCRowOwner == [cu |-> "u", cv |-> "v", pu |-> "u"]
Request(op, by, key, secret, cred) == [op |-> op, by |-> by, key |-> key, secret |-> secret, cred |-> cred]
MCRowCalls == <<Request("create", "u", "cu", "t1", NoValue), Request("create", "admin", "cv", "t2", NoValue),
                Request("update", "u", "cv", "t1", NoValue), Request("update", "v", "cv", "t1", NoValue),
                Request("update", "u", "cu", Masked, NoValue), Request("update", "u", "pu", Masked, NoValue),
                Request("create", "u", "pu", "t1", NoValue), Request("delete", "u", "cu", NoValue, NoValue)>>
MCEnding   == [x \in {"t1", "t2", Masked, NoValue} |-> x]

\* McpClients: prefixes that differ.
MCPrefix == [a |-> "x", b |-> "y"]

\* Skills: two versions of a bundle, of different size.
MCBundles == <<{"md"}, {"md"}>>
MCSizeOf  == <<1, 2>>

\* AgentFiles: a chat in each of two spaces.
MCOwnerOf == [c |-> "u", d |-> "v"]

\* ToolChain: settings of each category, complete and with gaps.
Tool(category, primary, fallbacks, auto, keys) ==
    [category |-> category, primary |-> primary, fallbacks |-> fallbacks, autoFallback |-> auto,
     given |-> keys]
WebKeys == [brave |-> {"key"}, exa |-> {"endpoint"}, searxng |-> {"endpoint"}]
MCToolSettings == {Tool("web_search", "exa", <<"brave", "", "searxng">>, "unset", WebKeys),
                   Tool("web_search", "brave", <<"typo", "searxng">>, "on", WebKeys),
                   Tool("web_search", "", <<"brave", "searxng">>, "off", WebKeys),
                   Tool("web_search", "typo", <<"brave">>, "on", [brave |-> {}]),
                   Tool("tts", "minimax", <<"openai">>, "unset", [minimax |-> {"key"}, openai |-> {"key"}]),
                   Tool("image_gen", "openai", <<"fal">>, "unset", [openai |-> {"key"}, fal |-> {"key"}])}

\* SkillLayers: two names, two extra directories, what a SKILL.md and the settings may say.
Skill(always, os, bins, anyBins, primary) ==
    [always |-> always, os |-> os, bins |-> bins, anyBins |-> anyBins, env |-> {}, primary |-> primary]
MCManifests == {Skill(FALSE, {}, {}, {}, "FAL_KEY"), Skill(TRUE, {"darwin"}, {"ffmpeg"}, {}, "API_KEY"),
                Skill(FALSE, {"linux"}, {}, {"node"}, "")}
Nothing == [x \in {} |-> ""]
Entry(enabled, key, env) == [enabled |-> enabled, apiKey |-> key, env |-> env]
MCLayerConfigs ==
    {[disabled |-> {}, entries |-> [s |-> Entry(TRUE, "all", [FAL_KEY |-> "old"])], own |-> Nothing],
     [disabled |-> {"t"}, entries |-> [s |-> Entry(TRUE, "all", Nothing), t |-> Entry(TRUE, "all", Nothing)],
      own |-> [s |-> [apiKey |-> "own", env |-> Nothing]]],
     [disabled |-> {}, entries |-> [t |-> Entry(FALSE, "all", Nothing)],
      own |-> [s |-> [apiKey |-> "", env |-> Nothing]]]}
MCExtra == <<"x", "y">>
At(dir, name) == [dir |-> dir, name |-> name]
MCCommands == {<<At("agent", "s")>>, <<At("/skills", "s"), At("/skills", "t")>>,
               <<At("x", "t"), At("managed", "s")>>, <<At("managed", "s"), At("/skills", "s")>>}

==================================================================================
