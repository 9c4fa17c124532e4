----------------------------- MODULE SkillLayers -----------------------------
(***************************************************************************)
(* One skill name in several places: what the system prompt shows of it    *)
(* and what a command that runs it gets in its environment                 *)
(* (agent/skills.go, agent/tools/exec.go).  Every turn scans the           *)
(* directories again (LoadSkills), later layers replacing earlier ones,    *)
(* and then leaves out what the machine cannot run; an exec looks the      *)
(* skill up a second time, by the directory its command mentions, and      *)
(* turns the configured API key into the variable that some SKILL.md of    *)
(* that name asks for.  Two walks over the same directories, in opposite   *)
(* directions and at different times, have to agree.                       *)
(*                                                                         *)
(* A SKILL.md is abstracted to its metadata; a command to the skills whose *)
(* directories it mentions.  A team directory is never configured.         *)
(***************************************************************************)
EXTENDS Naturals, Sequences, FiniteSets

CONSTANTS
  Names,         \* names of skills
  Extra,         \* directories configured as skills.load.extraDirs, in order
  Manifests,     \* what a SKILL.md may say: always, os, bins, anyBins, env, primary
  Machine,       \* the operating system, programs and variables there are
  Configs,       \* settings an agent may be built with: disabled, entries, own
  Commands,      \* sequences of [dir, name]: skills a command runs, as it names them
  None,          \* no skill, no settings
  MaxChanges     \* bound: how often a skill is installed or removed

VARIABLES
  disk,          \* directory -> name -> its SKILL.md, None when absent
  config,        \* the settings the agent was built with
  prompt,        \* name -> [dir, manifest] as the turn's system prompt shows it
  changes,       \* how often the disk changed
  fresh,         \* whether the disk is as it was when the prompt was built
  ran            \* the last command, its environment and the prompt it was written from

vars == <<disk, config, prompt, changes, fresh, ran>>

Mount == "/skills"     \* where a sandbox has every skill
NoEnv == [x \in {} |-> ""]
Nothing == [n \in Names |-> None]

\* LoadSkills goes up from the extra directories; allSkillDirs goes down from the agent's.
Layers == Extra \o <<"managed", "user", "agent">>
AllSkillDirs == <<"agent", "user", "managed">> \o Extra
Dirs == {Layers[i] : i \in DOMAIN Layers}

MeetsOS(m) == m.os = {} \/ m.os \cap Machine # {}
MeetsBins(m) == m.bins \subseteq Machine /\ (m.anyBins = {} \/ m.anyBins \cap Machine # {})
Gated(m) == ~m.always /\ ~(MeetsOS(m) /\ MeetsBins(m) /\ m.env \subseteq Machine)

Disabled == config.disabled \cup {n \in DOMAIN config.entries : ~config.entries[n].enabled}

\* Each layer's skills replace those of the same name found before.
Discover(found, dir) ==
  [n \in Names |-> IF disk[dir][n] # None /\ n \notin Disabled
                   THEN [dir |-> dir, manifest |-> disk[dir][n]] ELSE found[n]]
Merged[i \in 0..Len(Layers)] ==
  IF i = 0 THEN Nothing ELSE Discover(Merged[i - 1], Layers[i])

\* A skill the machine cannot run is left out after the merge: it still hides the one below.
LoadSkills ==
  LET all == Merged[Len(Layers)] IN
  [n \in Names |-> IF all[n] # None /\ Gated(all[n].manifest) THEN None ELSE all[n]]

\* The agent's own entry counts if it says anything, else the one of the whole space.
Entry(n) ==
  IF n \in DOMAIN config.own /\ (config.own[n].apiKey # "" \/ config.own[n].env # NoEnv)
  THEN config.own[n]
  ELSE IF n \in DOMAIN config.entries THEN config.entries[n] ELSE [apiKey |-> "", env |-> None]

\* The first SKILL.md of that name that has a primaryEnv says where the key goes.
Naming(n) == {i \in DOMAIN AllSkillDirs : /\ disk[AllSkillDirs[i]][n] # None
                                          /\ disk[AllSkillDirs[i]][n].primary # ""}
PrimaryEnv(n) == disk[AllSkillDirs[CHOOSE i \in Naming(n) : \A j \in Naming(n) : i <= j]][n].primary

SkillEnvVars(n) ==
  LET e == Entry(n) IN
  IF e.env = None THEN None
  ELSE IF e.apiKey = "" \/ Naming(n) = {} THEN e.env
  ELSE [x \in DOMAIN e.env \cup {PrimaryEnv(n)} |-> IF x = PrimaryEnv(n) THEN e.apiKey ELSE e.env[x]]

\* The first directory, in the order of AllSkillDirs and the mount last, whose first mention in
\* the command belongs to a skill with an entry.
Mentions(cmd, dir) == {i \in DOMAIN cmd : cmd[i].dir = dir}
First(cmd, dir) == cmd[CHOOSE i \in Mentions(cmd, dir) : \A j \in Mentions(cmd, dir) : i <= j].name
Resolving(cmd) ==
  LET dirs == Append(AllSkillDirs, Mount) IN
  {i \in DOMAIN dirs : Mentions(cmd, dirs[i]) # {} /\ SkillEnvVars(First(cmd, dirs[i])) # None}
ResolveSkillEnv(cmd) ==
  IF Resolving(cmd) = {} THEN NoEnv
  ELSE SkillEnvVars(First(cmd, Append(AllSkillDirs, Mount)[
           CHOOSE i \in Resolving(cmd) : \A j \in Resolving(cmd) : i <= j]))

TypeOK ==
  /\ disk \in [Dirs -> [Names -> Manifests \cup {None}]]
  /\ config \in Configs /\ changes \in 0..MaxChanges /\ fresh \in BOOLEAN
  /\ DOMAIN prompt = Names
  /\ \A n \in Names : prompt[n] # None => prompt[n].dir \in Dirs /\ prompt[n].manifest \in Manifests
  /\ ran.command \in Commands \cup {<<>>}

Init ==
  /\ disk = [d \in Dirs |-> [n \in Names |-> None]]
  /\ config \in Configs /\ changes = 0 /\ fresh = TRUE
  /\ prompt = Nothing
  /\ ran = [command |-> <<>>, env |-> NoEnv, shown |-> Nothing]

\* Skills come and go while the agent lives: installs, removals, hydrates of other replicas.
Change(dir, n, m) ==
  /\ changes < MaxChanges /\ disk[dir][n] # m
  /\ disk' = [disk EXCEPT ![dir][n] = m]
  /\ changes' = changes + 1 /\ fresh' = FALSE
  /\ UNCHANGED <<config, prompt, ran>>

\* refreshSkillsFromStore and ReloadWorkspaceFiles, at the top of a turn.
Refresh ==
  /\ prompt' = LoadSkills /\ fresh' = TRUE
  /\ UNCHANGED <<disk, config, changes, ran>>

Exec(cmd) ==
  /\ ran' = [command |-> cmd, env |-> ResolveSkillEnv(cmd),
              shown |-> IF fresh THEN prompt ELSE Nothing]
  /\ UNCHANGED <<disk, config, prompt, changes, fresh>>

Next ==
  \/ \E d \in Dirs, n \in Names, m \in Manifests \cup {None} : Change(d, n, m)
  \/ Refresh
  \/ \E cmd \in Commands : Exec(cmd)

Spec == Init /\ [][Next]_vars

------------------------------------------------------------------------------
Runs(cmd, n) == cmd # <<>> /\ \A i \in DOMAIN cmd : cmd[i].name = n
\* An agent's own key wins; overriding anything else also gives up the key of the whole space.
Key(n) ==
  CASE n \in DOMAIN config.own /\ config.own[n].apiKey # "" -> config.own[n].apiKey
    [] n \in DOMAIN config.entries /\ (n \in DOMAIN config.own => config.own[n] = [apiKey |-> "", env |-> NoEnv])
         -> config.entries[n].apiKey
    [] OTHER -> ""
Extras == {Extra[i] : i \in DOMAIN Extra}

\* Whoever runs a skill the prompt shows, and only that one, gets its key in the variable the
\* shown SKILL.md names, as long as no directory changed since the prompt was built.
\* Extra directories are the exception: the two walks meet them in the same order, so the prompt
\* shows the last one and the key follows the first.
KeyWhereShown ==
  \A n \in Names :
    LET shown == ran.shown[n] IN
    Runs(ran.command, n) /\ shown # None /\ Key(n) # "" =>
      \/ shown.manifest.primary = ""
      \/ shown.dir \in Extras /\ Len(Extra) > 1
      \/ /\ shown.manifest.primary \in DOMAIN ran.env
         /\ ran.env[shown.manifest.primary] = Key(n)

\* The prompt shows of every name the SKILL.md in the place that ranks first, or none at all:
\* never one that a disabled, hidden or unusable one stands in front of.
Hides(d, n) == \E i, j \in DOMAIN Layers :
                  i < j /\ Layers[i] = d /\ disk[Layers[j]][n] # None
ShownRanksFirst ==
  fresh => \A n \in Names : prompt[n] # None =>
             /\ disk[prompt[n].dir][n] = prompt[n].manifest /\ ~Hides(prompt[n].dir, n)
             /\ n \notin Disabled /\ ~Gated(prompt[n].manifest)

==============================================================================
