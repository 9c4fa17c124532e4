--------------------------------- MODULE Settings ---------------------------------
(***************************************************************************)
(* Settings in the configs table: internal/scope (Setting, SaveSetting),   *)
(* handleUpdateConfig with loadUserConfig and saveUserConfig of            *)
(* internal/setup/handlers.go, and what the loading of a space makes of    *)
(* the rows (assembleConfig, LoadEnv.ApplyToConfig, ApplyDefaults,         *)
(* MergedAgentConfig).                                                     *)
(*                                                                         *)
(* A row holds the fields of one namespace in one scope.  A field that is  *)
(* not in the row, or has Go's zero value there, is Unset.  An update is   *)
(* a request with some fields; it reads all namespaces one by one, merges  *)
(* the fields into what it read, and writes all namespaces one by one.     *)
(***************************************************************************)
EXTENDS Integers, Sequences

CONSTANTS
    Users, Admins,
    Updates,        (* update requests                                       *)
    By,             (* update -> user                                        *)
    Patch,          (* update -> the fields it sets                          *)
    Namespaces,     (* settingNamespaces, a sequence of sets of fields       *)
    Agent,          (* user -> an agent of that user                         *)
    Env,            (* field -> value the environment gives it               *)
    Default,        (* field -> value of ApplyDefaults                       *)
    File,           (* agent -> field -> value in the agents.config column   *)
    Unset

VARIABLES
    systemRows,     (* field -> value in the system scope                    *)
    userRows,       (* user -> field -> value in the user's scope            *)
    update          (* update -> its progress                                *)

vars == <<systemRows, userRows, update>>

Fields  == UNION {Namespaces[i] : i \in DOMAIN Namespaces}
NoField == [f \in Fields |-> Unset]

OrElse(a, b) == IF a # Unset THEN a ELSE b

----------------------------------------------------------------------------------
(***************************************************************************)
(* What the rows mean.                                                     *)
(***************************************************************************)
Setting(u, f) == OrElse(userRows[u][f], systemRows[f])

\* What the environment sets wins.
ApplyToConfig(values) == [f \in Fields |-> OrElse(Env[f], values[f])]

ApplyDefaults(values) == [f \in Fields |-> OrElse(values[f], Default[f])]

Complete(values) == ApplyDefaults(ApplyToConfig(values))

AssembleConfig(u) == Complete([f \in Fields |-> Setting(u, f)])

\* The agent's own column wins over the user's view.
MergedAgentConfig(u) == [f \in Fields |-> OrElse(File[Agent[u]][f], AssembleConfig(u)[f])]

----------------------------------------------------------------------------------
(***************************************************************************)
(* handleUpdateConfig.                                                     *)
(***************************************************************************)
Init ==
    /\ systemRows = NoField
    /\ userRows = [u \in Users |-> NoField]
    /\ update = [p \in Updates |-> [pc |-> "new", at |-> 1, read |-> NoField,
                                    before |-> NoField, lone |-> TRUE]]

Active(p) == update[p].pc \in {"read", "save"}

Begin(p) ==
    /\ update[p].pc = "new"
    /\ update' = [q \in Updates |->
                    IF q = p THEN [update[p] EXCEPT !.pc = "read",
                                      !.before = MergedAgentConfig(By[p]),
                                      !.lone = \A o \in Updates : ~Active(o)]
                    ELSE [update[q] EXCEPT !.lone = FALSE]]
    /\ UNCHANGED <<systemRows, userRows>>

\* Faulty variant: the request is saved as it came, over the whole table.
MergePatchOnly(p, values) == [f \in Fields |-> IF f \in DOMAIN Patch[p] THEN Patch[p][f] ELSE Unset]

\* json.Unmarshal of the request into the configuration that was read.
MergePatch(p, values) == [f \in Fields |-> IF f \in DOMAIN Patch[p] THEN Patch[p][f] ELSE values[f]]

\* loadUserConfig reads the next namespace of the caller's merged view.
Read(p) ==
    LET n    == update[p].at
        read == [f \in Fields |-> IF f \in Namespaces[n] THEN Setting(By[p], f) ELSE update[p].read[f]]
    IN  /\ update[p].pc = "read"
        /\ update' = [update EXCEPT ![p] =
                        IF n < Len(Namespaces) THEN [@ EXCEPT !.at = n + 1, !.read = read]
                        ELSE [@ EXCEPT !.pc = "save", !.at = 1, !.read = MergePatch(p, Complete(read))]]
        /\ UNCHANGED <<systemRows, userRows>>

Write(rows, n, values) == [f \in Fields |-> IF f \in Namespaces[n] THEN values[f] ELSE rows[f]]

\* saveUserConfig replaces the row of the next namespace: in the system scope if
\* the caller is a super admin.  After the last one the spaces are invalidated.
Save(p) ==
    LET n == update[p].at
    IN  /\ update[p].pc = "save"
        /\ IF By[p] \in Admins
           THEN /\ systemRows' = Write(systemRows, n, update[p].read)
                /\ UNCHANGED userRows
           ELSE /\ userRows' = [userRows EXCEPT ![By[p]] = Write(@, n, update[p].read)]
                /\ UNCHANGED systemRows
        /\ update' = [update EXCEPT ![p] = IF n < Len(Namespaces) THEN [@ EXCEPT !.at = n + 1]
                                            ELSE [@ EXCEPT !.pc = "done"]]

\* The database fails: what was saved stays, and no space is invalidated.
Fail(p) ==
    /\ Active(p)
    /\ update' = [update EXCEPT ![p].pc = "failed"]
    /\ UNCHANGED <<systemRows, userRows>>

Next == \E p \in Updates : Begin(p) \/ Read(p) \/ Save(p) \/ Fail(p)

Spec == Init /\ [][Next]_vars

----------------------------------------------------------------------------------

TypeOK ==
    /\ \A p \in Updates : update[p].pc \in {"new", "read", "save", "done", "failed"}
                          /\ update[p].at \in 1 .. Len(Namespaces)
    /\ \A f \in Fields : \A u \in Users : Setting(u, f) \in Nat \cup {Unset}

\* An update that no other one overlapped gives the caller's agent the fields of
\* the request, as far as neither environment nor agent fix them, and leaves all
\* others as they were, whatever layer they came from and even if it fails half
\* way.  A super admin's update does so unless the admin has rows of their own.
PatchTakesEffect ==
    \A p \in Updates :
        LET u   == By[p]
            now == MergedAgentConfig(u)
            new == MergePatch(p, update[p].before)
        IN  update[p].lone /\ (u \in Admins => userRows[u] = NoField) =>
                \A f \in Fields :
                    \/ update[p].pc = "new"
                    \/ now[f] = OrElse(File[Agent[u]][f], OrElse(Env[f], new[f]))
                    \/ update[p].pc # "done" /\ now[f] = update[p].before[f]

==================================================================================
