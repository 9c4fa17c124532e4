------------------------------- MODULE Skills -------------------------------
(***************************************************************************)
(* Skill bundles shared by the replicas ("pods") of one deployment.  A     *)
(* bundle is a directory of files below a pod's skills directory; an       *)
(* install mirrors it into the object store (skills/objectstore.go), a     *)
(* delete removes it from both, and every turn, listing and load of a user *)
(* space first reconciles the pod's directory with the store               *)
(* (HydrateSkillsDown) before it scans it (agent/skills.go LoadSkills).    *)
(*                                                                         *)
(* Every step on the store is one call of it (a List, a Get, a Put, a      *)
(* Delete), so operations of one pod and of several interleave between     *)
(* files.  One owner is modelled (an agent, or _global); the build bundles *)
(* no skill, so nothing is shielded from pruning.  A file is abstracted    *)
(* to the version of the bundle it came from, 0 when absent.               *)
(***************************************************************************)
EXTENDS Naturals, FiniteSets

CONSTANTS
  Pods,          \* replicas, each with a skills directory of its own
  Skills,        \* names of skills
  Files,         \* names of files in a bundle, with the manifest among them
  Manifest,      \* SKILL.md: a directory without it is no skill to the loader
  Bundles,       \* version -> the files of that version of a bundle
  SizeOf,        \* version -> the size of its files
  MaxBegun,      \* bound: operations begun in a behaviour
  MaxOpen        \* bound: operations under way at once

VARIABLES
  store,         \* object -> version of the file the object store keeps
  disk,          \* pod -> object -> version of the file on the pod's disk
  ops,           \* operations under way or just done, by number
  begun          \* operations begun so far

vars == <<store, disk, ops, begun>>

Versions == DOMAIN Bundles
Objects == Skills \X Files
Kinds == {"install", "delete", "hydrate"}
Phases == {"extract", "walk", "upload", "remove", "list", "erase", "fetch",
           "done"}

Keys(tree) == {o \in Objects : tree[o] # 0}
Names(tree) == {o[1] : o \in Keys(tree)}
Bundle(s, v) == {s} \X Bundles[v]

\* What an install puts there and a delete removes, per file or at once.
PutFile(tree, o, v) == [tree EXCEPT ![o] = v]
Without(tree, gone) == [o \in Objects |-> IF o[1] \in gone THEN 0 ELSE tree[o]]

TypeOK ==
  /\ store \in [Objects -> Versions \cup {0}]
  /\ disk \in [Pods -> [Objects -> Versions \cup {0}]]
  /\ begun \in 0..MaxBegun
  /\ DOMAIN ops \subseteq 1..MaxOpen
  /\ \A n \in DOMAIN ops :
       /\ ops[n].kind \in Kinds /\ ops[n].phase \in Phases
       /\ ops[n].todo \subseteq Objects /\ ops[n].shown \subseteq Skills

Init ==
  /\ store = [o \in Objects |-> 0]
  /\ disk = [p \in Pods |-> [o \in Objects |-> 0]]
  /\ ops = <<>> /\ begun = 0

-----------------------------------------------------------------------------
(* Which operations meet on the same files, for the properties.  Two       *)
(* hydrates meet on a pod's directory; an install or a delete meets every  *)
(* hydrate (the store), except that an upload is not harmed by a hydrate   *)
(* of another pod, and writers meet when they are about the same skill.    *)

Harms(a, b) ==   \* a may change what b has seen or is building
  IF b.kind = "hydrate" THEN a.kind # "hydrate" \/ a.pod = b.pod
  ELSE IF a.kind = "hydrate" THEN a.pod = b.pod
  ELSE a.skill = b.skill

Begin(op) ==
  /\ begun < MaxBegun /\ Cardinality(DOMAIN ops) < MaxOpen
  /\ begun' = begun + 1
  /\ ops' = LET new == CHOOSE n \in 1..MaxOpen : n \notin DOMAIN ops IN
       [n \in DOMAIN ops \cup {new} |->
       IF n = new
       THEN [op EXCEPT !.harmed = \E m \in DOMAIN ops :
                                     ops[m].phase # "done" /\ Harms(ops[m], op)]
       ELSE [ops[n] EXCEPT !.harmed = @ \/ Harms(op, ops[n])]]

Op(kind, p, s, v, phase) ==
  [kind |-> kind, pod |-> p, skill |-> s, version |-> v, phase |-> phase,
   todo |-> {}, listed |-> [o \in Objects |-> 0], shown |-> {}, harmed |-> FALSE]

Ends(n) == [m \in DOMAIN ops \ {n} |-> ops[m]]
Become(n, phase, todo) == [ops EXCEPT ![n].phase = phase, ![n].todo = todo]

-----------------------------------------------------------------------------
(* Install: extract the archive over the directory file by file            *)
(* (extractZipToDir, extractSubpath), then walk it and put every file.     *)

Install(p, s, v) ==
  /\ Begin([Op("install", p, s, v, "extract") EXCEPT !.todo = Bundle(s, v)])
  /\ UNCHANGED <<store, disk>>

\* Nothing of an earlier version is cleared first.
Extract(n) ==
  /\ ops[n].phase = "extract"
  /\ \E o \in ops[n].todo :
       /\ disk' = [disk EXCEPT ![ops[n].pod] = PutFile(@, o, ops[n].version)]
       /\ ops' = Become(n, IF ops[n].todo = {o} THEN "walk" ELSE "extract",
                        ops[n].todo \ {o})
  /\ UNCHANGED <<store, begun>>

\* SyncSkillUp: stat the directory, and list it.  If a hydrate has pruned it
\* meanwhile the upload fails, which the handler only logs.
Walk(n) ==
  LET own == {o \in Keys(disk[ops[n].pod]) : o[1] = ops[n].skill} IN
  /\ ops[n].phase = "walk"
  /\ ops' = IF own = {} THEN Ends(n) ELSE Become(n, "upload", own)
  /\ UNCHANGED <<store, disk, begun>>

Upload(n) ==
  /\ ops[n].phase = "upload"
  /\ \E o \in ops[n].todo : LET v == disk[ops[n].pod][o] IN
       IF v = 0   \* the file went away under the walk: the rest is not put
       THEN ops' = Ends(n) /\ UNCHANGED store
       ELSE /\ store' = PutFile(store, o, v)
            /\ ops' = Become(n, IF ops[n].todo = {o} THEN "done" ELSE "upload",
                             ops[n].todo \ {o})
  /\ UNCHANGED <<disk, begun>>

-----------------------------------------------------------------------------
(* handleDeleteSkill, handleDeleteAgentSkill: the directory, then the keys *)

Delete(p, s) ==
  /\ s \in Names(disk[p])
  /\ Begin(Op("delete", p, s, 1, "remove"))
  /\ UNCHANGED <<store, disk>>

Remove(n) ==
  /\ ops[n].phase = "remove"
  /\ disk' = [disk EXCEPT ![ops[n].pod] = Without(@, {ops[n].skill})]
  /\ ops' = Become(n, "list", {})
  /\ UNCHANGED <<store, begun>>

\* DeleteSkillUp
ListForDelete(n) ==
  LET keys == {o \in Keys(store) : o[1] = ops[n].skill} IN
  /\ ops[n].phase = "list" /\ ops[n].kind = "delete"
  /\ ops' = Become(n, IF keys = {} THEN "done" ELSE "erase", keys)
  /\ UNCHANGED <<store, disk, begun>>

Erase(n) ==
  /\ ops[n].phase = "erase"
  /\ \E o \in ops[n].todo :
       /\ store' = PutFile(store, o, 0)
       /\ ops' = Become(n, IF ops[n].todo = {o} THEN "done" ELSE "erase",
                        ops[n].todo \ {o})
  /\ UNCHANGED <<disk, begun>>

-----------------------------------------------------------------------------
(* HydrateSkillsDown, and the scan that follows it                         *)

Hydrate(p) ==
  /\ \A n \in DOMAIN ops : ~ (ops[n].kind = "hydrate" /\ ops[n].phase = "list")
  /\ Begin(Op("hydrate", p, CHOOSE s \in Skills : TRUE, 1, "list"))
  /\ UNCHANGED <<store, disk>>

ListForHydrate(n) ==
  /\ ops[n].phase = "list" /\ ops[n].kind = "hydrate"
  /\ ops' = [Become(n, "fetch", Keys(store)) EXCEPT ![n].listed = store]
  /\ UNCHANGED <<store, disk, begun>>

\* A faulty variant: whatever is there already counts as fetched.
FetchedBefore(v, w) == v # 0

SameSize(v, w) == v # 0 /\ SizeOf[v] = SizeOf[w]

\* One listed file: kept when its size is right, fetched when it is still there.
Fetch(n) ==
  LET p == ops[n].pod IN
  /\ ops[n].phase = "fetch"
  /\ \E o \in ops[n].todo :
       /\ disk' = IF store[o] = 0 \/ SameSize(disk[p][o], ops[n].listed[o])
                  THEN disk
                  ELSE [disk EXCEPT ![p] = PutFile(@, o, store[o])]
       /\ ops' = Become(n, "fetch", ops[n].todo \ {o})
  /\ UNCHANGED <<store, begun>>

\* Local skills the listing lacks were deleted elsewhere: they go too, unless
\* the listing is empty, which says nothing.
Stale(listed, tree) ==
  IF Names(listed) = {} THEN {} ELSE Names(tree) \ Names(listed)

\* discoverSkillsEnhanced: the directories with a manifest.
Discovered(tree) == {s \in Skills : tree[<<s, Manifest>>] # 0}

\* Prunes, then scans: what the turn's prompt shows.
Prune(n) ==
  LET p == ops[n].pod
      left == Without(disk[p], Stale(ops[n].listed, disk[p])) IN
  /\ ops[n].phase = "fetch" /\ ops[n].todo = {}
  /\ disk' = [disk EXCEPT ![p] = left]
  /\ ops' = [ops EXCEPT ![n].phase = "done", ![n].shown = Discovered(left)]
  /\ UNCHANGED <<store, begun>>

-----------------------------------------------------------------------------
\* A call of the store, a write, or the archive fails: the operation stops
\* where it is, and what it did stays.
StopsShort(n) ==
  /\ ops[n].phase \notin {"done", "remove", "walk"}
  /\ ops' = Ends(n)
  /\ UNCHANGED <<store, disk, begun>>

Forget(n) ==
  /\ ops[n].phase = "done"
  /\ ops' = Ends(n)
  /\ UNCHANGED <<store, disk, begun>>

\* The pod is replaced: its disk is empty and its operations are gone.
Restart(p) ==
  /\ disk' = [disk EXCEPT ![p] = [o \in Objects |-> 0]]
  /\ ops' = [n \in {m \in DOMAIN ops : ops[m].pod # p} |-> ops[n]]
  /\ UNCHANGED <<store, begun>>

Next ==
  \/ \E p \in Pods, s \in Skills, v \in Versions : Install(p, s, v)
  \/ \E p \in Pods, s \in Skills : Delete(p, s)
  \/ \E p \in Pods : Hydrate(p) \/ Restart(p)
  \/ \E n \in DOMAIN ops :
       \/ Extract(n) \/ Walk(n) \/ Upload(n)
       \/ Remove(n) \/ ListForDelete(n) \/ Erase(n)
       \/ ListForHydrate(n) \/ Fetch(n) \/ Prune(n)
       \/ StopsShort(n) \/ Forget(n)

Spec == Init /\ [][Next]_vars

-----------------------------------------------------------------------------
Settled(n, kind) ==
  ops[n].kind = kind /\ ops[n].phase = "done" /\ ~ ops[n].harmed

\* A hydrate that no install, no delete and no other hydrate of its pod
\* overlapped leaves the pod with what the store has: each stored file at its
\* size, no skill the store lacks (unless it has none at all), and the turn
\* sees just the skills the store has a manifest of.
HydratedPodMatches ==
  \A n \in DOMAIN ops : Settled(n, "hydrate") =>
    LET tree == disk[ops[n].pod] IN
    /\ \A o \in Keys(store) : tree[o] # 0 /\ SizeOf[tree[o]] = SizeOf[store[o]]
    /\ Keys(store) # {} => Names(tree) = Names(store)
    /\ Keys(store) # {} => Discovered(store) \subseteq ops[n].shown

\* An install no hydrate of its pod and no other writer of the skill overlapped
\* leaves every file of the skill in the store as it is on the installing pod,
\* whatever the other pods hydrate meanwhile.
InstallMirrored ==
  \A n \in DOMAIN ops : Settled(n, "install") =>
    \A f \in Files : LET o == <<ops[n].skill, f>> IN
      disk[ops[n].pod][o] # 0 => store[o] = disk[ops[n].pod][o]

\* A delete nobody overlapped leaves neither key nor file of the skill, so that
\* no later hydrate brings it back.
DeleteComplete ==
  \A n \in DOMAIN ops : Settled(n, "delete") =>
    ops[n].skill \notin Names(store) \cup Names(disk[ops[n].pod])

\* The replicas end up with the same skills (skills/objectstore.go:133-150).
ReplicasAgree == HydratedPodMatches /\ InstallMirrored /\ DeleteComplete
=============================================================================
