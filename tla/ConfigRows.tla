-------------------------------- MODULE ConfigRows --------------------------------
(***************************************************************************)
(* Provider and channel rows of the configs table and the handlers that    *)
(* create, change and delete them: internal/setup/handlers_scoped.go,      *)
(* SaveProvider and SaveChannel of internal/scope, and the statements of   *)
(* internal/store/database.go.                                             *)
(*                                                                         *)
(* A row is found by kind, scope and name, of which its id is a hash.  The *)
(* handlers read, check and write in separate statements, and nothing      *)
(* keeps two of them apart.  A channel's credential key is what incoming   *)
(* messages are looked up by; the table has no constraint on it.           *)
(***************************************************************************)
EXTENDS FiniteSets

CONSTANTS
    Keys,           (* kind, scope and name of the rows that may exist       *)
    IsChannel,      (* the keys of kind channel; one channel type is modelled *)
    Owner,          (* key -> the user the scope belongs to, or System       *)
    Admins, System,
    Calls,          (* requests: op, by, key, secret, cred                   *)
    Ending,         (* secret -> its last twelve characters                  *)
    Masked,         (* a secret as the list handlers show it                 *)
    None

VARIABLES
    rows,           (* key -> row or NoRow                                   *)
    call,           (* request -> where it is and the row it read            *)
    overtaken,      (* history variable: calls during which another one wrote *)
    raced           (* history variable: such a call has written             *)

vars == <<rows, call, overtaken, raced>>

NoRow    == [secret |-> None, cred |-> None]
Exists(k) == rows[k] # NoRow
Ids      == DOMAIN Calls

Init ==
    /\ rows = [k \in Keys |-> NoRow]
    /\ call = [i \in Ids |-> [pc |-> "new", row |-> NoRow]]
    /\ overtaken = {} /\ raced = FALSE

----------------------------------------------------------------------------------

AuthorizeScope(i) == Calls[i].by \in Admins \/ Calls[i].by = Owner[Calls[i].key]

\* The caller's key, or what the token ends with.
CredentialKeyFor(secret, given) == IF given # None THEN given ELSE Ending[secret]

\* Any one of the rows that match (LIMIT 1), if there is one.
LookupChannelByCredential(c) ==
    LET match == {k \in IsChannel : c # None /\ Exists(k) /\ rows[k].cred = c}
    IN  IF match = {} THEN {None} ELSE match

\* Faulty variant: a row that exists is allowed to take any key.
UniqueForNew(found, exclude) == found = None \/ exclude # {}

\* Nothing was found, or the very row that is changed.
AssertChannelCredentialUnique(found, exclude) == found \in {None} \cup exclude

To(i, pc, row) == call' = [call EXCEPT ![i] = [pc |-> pc, row |-> row]]

Reject(i) ==
    /\ call[i].pc = "new"
    /\ \/ ~AuthorizeScope(i)
       \/ Calls[i].op # "create" /\ ~Exists(Calls[i].key)
       \/ /\ Calls[i].key \in IsChannel /\ Calls[i].op = "create"
          /\ \E found \in LookupChannelByCredential(CredentialKeyFor(Calls[i].secret, Calls[i].cred)) :
                ~AssertChannelCredentialUnique(found, {})
    /\ To(i, "rejected", NoRow)
    /\ UNCHANGED <<rows, overtaken, raced>>

\* handleCreateProvider and handleCreateScopedChannel up to the write.
CheckCreate(i) ==
    LET c == IF Calls[i].key \in IsChannel THEN CredentialKeyFor(Calls[i].secret, Calls[i].cred) ELSE None
    IN  /\ call[i].pc = "new" /\ Calls[i].op = "create" /\ AuthorizeScope(i)
        /\ \E found \in LookupChannelByCredential(c) : AssertChannelCredentialUnique(found, {})
        /\ To(i, "save", [secret |-> Calls[i].secret, cred |-> c])
        /\ UNCHANGED <<rows, overtaken, raced>>

\* The row as handleUpdateProvider and handleUpdateScopedChannel want it: a mask
\* or an empty secret leaves the one that was read.
Changed(row, i) ==
    LET secret == IF Calls[i].secret \in {Masked, None} THEN row.secret ELSE Calls[i].secret
    IN  [secret |-> secret,
         cred   |-> IF Calls[i].key \in IsChannel THEN CredentialKeyFor(secret, Calls[i].cred) ELSE None]

ReadForUpdate(i) ==
    /\ call[i].pc = "new" /\ Calls[i].op = "update" /\ AuthorizeScope(i)
    /\ Exists(Calls[i].key)
    /\ To(i, "read", rows[Calls[i].key])
    /\ UNCHANGED <<rows, overtaken, raced>>

\* A key that changes must be free.
CheckUpdate(i) ==
    LET new == Changed(call[i].row, i)
    IN  /\ call[i].pc = "read"
        /\ \E found \in LookupChannelByCredential(new.cred) :
            IF new.cred = call[i].row.cred \/ AssertChannelCredentialUnique(found, {Calls[i].key})
            THEN To(i, "save", new)
            ELSE To(i, "rejected", NoRow)
        /\ UNCHANGED <<rows, overtaken, raced>>

\* SaveConfig: insert, or overwrite the row with the id, whether or not it is the
\* row that was read.
SaveConfig(i) ==
    /\ call[i].pc = "save"
    /\ rows' = [rows EXCEPT ![Calls[i].key] = call[i].row]
    /\ overtaken' = overtaken \cup {j \in Ids \ {i} : call[j].pc \in {"read", "save"}}
    /\ raced' = (raced \/ i \in overtaken)
    /\ To(i, "done", NoRow)

Delete(i) ==
    /\ call[i].pc = "new" /\ Calls[i].op = "delete" /\ AuthorizeScope(i)
    /\ Exists(Calls[i].key)
    /\ To(i, "delete", NoRow)
    /\ UNCHANGED <<rows, overtaken, raced>>

DeleteConfig(i) ==
    /\ call[i].pc = "delete"
    /\ rows' = [rows EXCEPT ![Calls[i].key] = NoRow]
    /\ To(i, "done", NoRow)
    /\ UNCHANGED <<overtaken, raced>>

Next ==
    \E i \in Ids :
        \/ Reject(i) \/ CheckCreate(i) \/ ReadForUpdate(i) \/ CheckUpdate(i)
        \/ SaveConfig(i) \/ Delete(i) \/ DeleteConfig(i)

Spec == Init /\ [][Next]_vars

----------------------------------------------------------------------------------

TypeOK ==
    /\ \A k \in Keys \ IsChannel : rows[k].cred = None
    /\ \A i \in Ids : call[i].pc \in {"new", "read", "save", "delete", "rejected", "done"}
    /\ overtaken \subseteq Ids /\ raced \in BOOLEAN

\* Two channel rows share a credential key, so that an incoming message may reach
\* the wrong user, only if a handler wrote what it had checked or read before
\* another one wrote.
CredentialsUnique ==
    \A k, l \in IsChannel :
        k # l /\ Exists(k) /\ rows[k].cred # None /\ rows[k].cred = rows[l].cred => raced

\* The mask the list handlers show is never stored as a secret.
SecretsReal == \A k \in Keys : rows[k].secret # Masked

RowsSound == CredentialsUnique /\ SecretsReal

==================================================================================
