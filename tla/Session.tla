--------------------------------- MODULE Session ---------------------------------
(***************************************************************************)
(* internal/session/manager.go and its users in internal/agent: the        *)
(* message history of one (channel, chat) session.                         *)
(*                                                                         *)
(* Every pod (a gateway process, or an agent object that outlived its user *)
(* space) has a Manager with a cache of Session objects.  The history      *)
(* itself is a JSONL file (mode "file", one process) or a database row     *)
(* that is read and written whole (mode "store").  Manager.mu is held      *)
(* through Get, Session.mu through each method of Session, so an action is *)
(* one such section; in store mode Get reads the row before it takes       *)
(* Session.mu and is two actions.                                          *)
(*                                                                         *)
(* An actor is a goroutine with one operation on the session: a turn       *)
(* (HandleMessage), a message injected from a group chat, a slash command, *)
(* a history poll of the web UI, or a deletion from the web UI.  Tool      *)
(* calls and their results are left out: they are further appends of a     *)
(* turn.  Writes that fail are left out.                                   *)
(***************************************************************************)
EXTENDS Integers, Sequences, FiniteSets

CONSTANTS
    Pods,
    Actors,
    Objects,        (* names for Session objects                             *)
    NoPod,
    NoObject,
    NoRow,          (* ErrNotFound from the store                            *)
    NoSnapshot,
    Modes,          (* the kinds of persistence considered                   *)
    MaxMessages,    (* bound on the messages appended                        *)
    Overlap,        (* operations on the session may overlap in time         *)
    CrossPodClear   (* a history may be cleared or deleted while another pod *)
                    (* still caches it                                       *)

ASSUME SessionAssumption ==
    /\ NoPod \notin Pods
    /\ NoObject \notin Objects
    /\ Modes \subseteq {"file", "store"}
    /\ MaxMessages \in Nat
    /\ Overlap \in BOOLEAN
    /\ CrossPodClear \in BOOLEAN

\* A new Session object is one nobody has: at most one per other pod and one
\* per other actor is in use.
ASSUME ObjectsSuffice ==
    /\ IsFiniteSet(Pods) /\ IsFiniteSet(Actors) /\ IsFiniteSet(Objects)
    /\ Cardinality(Pods) + Cardinality(Actors) <= Cardinality(Objects) + 1

VARIABLES
    mode,       (* never changes: is Manager.store set?                      *)
    exists,     (* the file or row exists                                    *)
    durable,    (* the messages in it                                        *)
    cached,     (* Manager.sessions[key] of each pod                         *)
    mem,        (* Session.Messages of each object                           *)
    snap,       (* Session.snapshot of each object                           *)
    pc,         (* where each actor is                                       *)
    op,         (* its operation                                             *)
    pod,        (* the pod it runs on                                        *)
    obj,        (* the *Session it holds                                     *)
    got,        (* what GetSession returned to it                            *)
    read,       (* its copy from GetMessages                                 *)
    count       (* messages appended so far                                  *)

vars == <<mode, exists, durable, cached, mem, snap, pc, op, pod, obj, got, read, count>>

history == <<exists, durable>>
objects == <<cached, mem, snap>>

Ops     == {"turn", "inject", "poll", "clear", "retry", "undo", "compact", "delete"}
Loc     == {"idle", "reload", "append", "read", "compact", "reply", "clear",
            "snapshot", "trim", "undo", "remove"}
Message == [n : 1 .. MaxMessages, role : {"user", "assistant"}]

\* "No row" is an answer of its own, not an empty list.
ASSUME NoRowAssumption == NoRow \notin Seq(Message)

Init ==
    /\ mode \in Modes
    /\ exists = FALSE
    /\ durable = <<>>
    /\ cached = [p \in Pods |-> NoObject]
    /\ mem = [o \in Objects |-> <<>>]
    /\ snap = [o \in Objects |-> NoSnapshot]
    /\ pc = [a \in Actors |-> "idle"]
    /\ op = [a \in Actors |-> "poll"]
    /\ pod = [a \in Actors |-> NoPod]
    /\ obj = [a \in Actors |-> NoObject]
    /\ got = [a \in Actors |-> NoRow]
    /\ read = [a \in Actors |-> <<>>]
    /\ count = 0

\* What an actor holds is of no interest once its operation is over.
Done(a) ==
    /\ pc' = [pc EXCEPT ![a] = "idle"]
    /\ op' = [op EXCEPT ![a] = "poll"]
    /\ pod' = [pod EXCEPT ![a] = NoPod]
    /\ obj' = [obj EXCEPT ![a] = NoObject]
    /\ got' = [got EXCEPT ![a] = NoRow]
    /\ read' = [read EXCEPT ![a] = <<>>]

Goto(a, loc) == pc' = [pc EXCEPT ![a] = loc] /\ UNCHANGED <<op, pod, obj, got, read>>

---------------------------------------------------------------------------------
(***************************************************************************)
(* What is written where.                                                  *)
(***************************************************************************)
Write(list) == exists' = TRUE /\ durable' = list

\* Faulty variant: the row is only marked as deleted.
SoftRemove == exists' = FALSE /\ UNCHANGED durable

Remove == exists' = FALSE /\ durable' = <<>>

\* SaveSession writes the object's whole list; appendToFile adds one line.
Persist(o, m) ==
    IF mode = "store" THEN Write(Append(mem[o], m)) ELSE Write(Append(durable, m))

AppendMessage(a, role) ==
    LET m == [n |-> count + 1, role |-> role]
    IN  /\ count < MaxMessages
        /\ count' = count + 1
        /\ mem' = [mem EXCEPT ![obj[a]] = Append(@, m)]
        /\ Persist(obj[a], m)

\* ReplaceMessages: SaveSession or rewriteFile.
ReplaceMessages(a, list) ==
    /\ mem' = [mem EXCEPT ![obj[a]] = list]
    /\ Write(list)

---------------------------------------------------------------------------------
(***************************************************************************)
(* Manager.Get, the first step of every operation but a deletion.          *)
(***************************************************************************)
First(k) ==
    CASE k \in {"turn", "inject"} -> "append"
      [] k = "poll"               -> "idle"
      [] k = "clear"              -> "clear"
      [] k \in {"retry", "compact"} -> "read"
      [] k = "undo"               -> "undo"

\* The chat queue runs a session's operations one after the other; Overlap
\* lets those that bypass it (web, API, group injection) interfere.  A poll
\* in file mode is a single section and may come at any time but in the middle
\* of a deletion.
MayBegin(a, p, k) ==
    /\ pc[a] = "idle"
    /\ \A b \in Actors : pc[b] = "reload" => pod[b] # p
    /\ \/ Overlap
       \/ mode = "file" /\ k = "poll" /\ \A b \in Actors : pc[b] # "remove"
       \/ \A b \in Actors : pc[b] = "idle"
    /\ k \in {"clear", "delete"} =>
        CrossPodClear \/ \A q \in Pods \ {p} : cached[q] = NoObject
    /\ mode = "file" => \A q \in Pods \ {p} : cached[q] = NoObject

InUse  == {cached[p] : p \in Pods} \cup {obj[a] : a \in Actors}
Fresh  == CHOOSE o \in Objects \ InUse : TRUE
Target(p) == IF cached[p] = NoObject THEN Fresh ELSE cached[p]

\* The actor proceeds with the object Get returned.
Proceed(a, p, k) ==
    IF k = "poll" THEN Done(a)
    ELSE /\ pc' = [pc EXCEPT ![a] = First(k)]
         /\ op' = [op EXCEPT ![a] = k]
         /\ pod' = [pod EXCEPT ![a] = p]
         /\ obj' = [obj EXCEPT ![a] = Target(p)]
         /\ got' = [got EXCEPT ![a] = NoRow]
         /\ UNCHANGED read

\* A new Session object with the given messages, entered in the cache.
NewSession(p, list) ==
    /\ cached' = [cached EXCEPT ![p] = Fresh]
    /\ mem' = [mem EXCEPT ![Fresh] = list]
    /\ snap' = [snap EXCEPT ![Fresh] = NoSnapshot]

\* File mode is cache-first: the file is only read for a new object.
GetFile(a, p, k) ==
    /\ mode = "file"
    /\ MayBegin(a, p, k)
    /\ IF cached[p] = NoObject THEN NewSession(p, durable) ELSE UNCHANGED objects
    /\ Proceed(a, p, k)
    /\ UNCHANGED <<mode, history, count>>

\* Store mode: the row is read with Manager.mu held but not Session.mu.
GetRow(a, p, k) ==
    /\ mode = "store"
    /\ MayBegin(a, p, k)
    /\ got' = [got EXCEPT ![a] = IF exists THEN durable ELSE NoRow]
    /\ pc' = [pc EXCEPT ![a] = "reload"]
    /\ op' = [op EXCEPT ![a] = k]
    /\ pod' = [pod EXCEPT ![a] = p]
    /\ UNCHANGED <<mode, history, objects, obj, read, count>>

\* Faulty variant: store mode is cache-first as well.
ReloadCacheFirst(a) ==
    LET p == pod[a]
    IN  /\ pc[a] = "reload"
        /\ IF cached[p] = NoObject
           THEN NewSession(p, IF got[a] = NoRow THEN <<>> ELSE got[a])
           ELSE UNCHANGED objects
        /\ Proceed(a, p, op[a])
        /\ UNCHANGED <<mode, history, count>>

\* A row that is not there (or cannot be read) leaves a cached object alone.
Reload(a) ==
    LET p == pod[a]
    IN  /\ pc[a] = "reload"
        /\ IF cached[p] = NoObject
           THEN NewSession(p, IF got[a] = NoRow THEN <<>> ELSE got[a])
           ELSE /\ mem' = IF got[a] = NoRow THEN mem
                          ELSE [mem EXCEPT ![cached[p]] = got[a]]
                /\ UNCHANGED <<cached, snap>>
        /\ Proceed(a, p, op[a])
        /\ UNCHANGED <<mode, history, count>>

---------------------------------------------------------------------------------
(***************************************************************************)
(* Turns and injected messages.                                            *)
(***************************************************************************)
AppendUser(a) ==
    /\ pc[a] = "append"
    /\ AppendMessage(a, "user")
    /\ IF op[a] = "turn" THEN Goto(a, "read") ELSE Done(a)
    /\ UNCHANGED <<mode, cached, snap>>

\* GetMessages, the basis of a turn's prompt or of a command's new list.
Read(a) ==
    /\ pc[a] = "read"
    /\ read' = [read EXCEPT ![a] = mem[obj[a]]]
    /\ pc' = [pc EXCEPT ![a] = IF op[a] = "retry" THEN "snapshot" ELSE "compact"]
    /\ UNCHANGED <<mode, history, objects, op, pod, obj, got, count>>

\* CompactMessages: over the token threshold old tool results are blanked and
\* the list is replaced.  No message goes: the summary of the second stage is
\* requested with a nil context, which every provider refuses.
Compact(a) ==
    /\ pc[a] = "compact"
    /\ ReplaceMessages(a, read[a])
    /\ IF op[a] = "turn" THEN Goto(a, "reply") ELSE Done(a)
    /\ UNCHANGED <<mode, cached, snap, count>>

\* Below the threshold nothing is replaced.
NoCompaction(a) ==
    /\ pc[a] = "compact"
    /\ IF op[a] = "turn" THEN Goto(a, "reply") ELSE Done(a)
    /\ UNCHANGED <<mode, history, objects, count>>

Reply(a) ==
    /\ pc[a] = "reply"
    /\ AppendMessage(a, "assistant")
    /\ Done(a)
    /\ UNCHANGED <<mode, cached, snap>>

\* The provider fails: the turn ends without an assistant message.
ProviderFails(a) ==
    /\ pc[a] = "reply"
    /\ Done(a)
    /\ UNCHANGED <<mode, history, objects, count>>

---------------------------------------------------------------------------------
(***************************************************************************)
(* Slash commands and the web UI's deletion.                               *)
(***************************************************************************)
LastUser(s) ==
    LET users == {i \in 1 .. Len(s) : s[i].role = "user"}
    IN  IF users = {} THEN 0 ELSE CHOOSE i \in users : \A j \in users : j <= i

\* slashRetry: everything from the last user message on goes.
RetryCut(s) == SubSeq(s, 1, LastUser(s) - 1)

\* slashUndo without a snapshot: trailing assistant messages go, then the user
\* message before them.  With these two roles that is the same cut.
UndoCut(s) == RetryCut(s)

NothingToRetry(a) ==
    /\ pc[a] = "snapshot"
    /\ LastUser(read[a]) = 0
    /\ Done(a)
    /\ UNCHANGED <<mode, history, objects, count>>

Snapshot(a) ==
    /\ pc[a] = "snapshot"
    /\ LastUser(read[a]) # 0
    /\ snap' = [snap EXCEPT ![obj[a]] = mem[obj[a]]]
    /\ Goto(a, "trim")
    /\ UNCHANGED <<mode, history, cached, mem, count>>

RetryTrims(a) ==
    /\ pc[a] = "trim"
    /\ op[a] = "retry"
    /\ ReplaceMessages(a, RetryCut(read[a]))
    /\ Done(a)
    /\ UNCHANGED <<mode, cached, snap, count>>

\* slashUndo with no snapshot reads the list...
UndoByHand(a) ==
    /\ pc[a] = "undo"
    /\ snap[obj[a]] = NoSnapshot
    /\ read' = [read EXCEPT ![a] = mem[obj[a]]]
    /\ pc' = [pc EXCEPT ![a] = "trim"]
    /\ UNCHANGED <<mode, history, objects, op, pod, obj, got, count>>

\* ... and replaces it, unless there is next to nothing to undo.
UndoTrims(a) ==
    /\ pc[a] = "trim"
    /\ op[a] = "undo"
    /\ IF Len(read[a]) < 2 THEN UNCHANGED <<history, mem>>
       ELSE ReplaceMessages(a, UndoCut(read[a]))
    /\ Done(a)
    /\ UNCHANGED <<mode, cached, snap, count>>

\* Faulty variant: Undo restores the object and forgets the file.
UndoInMemory(a) ==
    /\ pc[a] = "undo"
    /\ snap[obj[a]] # NoSnapshot
    /\ mem' = [mem EXCEPT ![obj[a]] = snap[obj[a]]]
    /\ snap' = [snap EXCEPT ![obj[a]] = NoSnapshot]
    /\ Done(a)
    /\ UNCHANGED <<mode, cached, history, count>>

\* Session.Undo always rewrites the file, which store mode never reads.
Undo(a) ==
    /\ pc[a] = "undo"
    /\ snap[obj[a]] # NoSnapshot
    /\ mem' = [mem EXCEPT ![obj[a]] = snap[obj[a]]]
    /\ snap' = [snap EXCEPT ![obj[a]] = NoSnapshot]
    /\ IF mode = "file" THEN Write(snap[obj[a]]) ELSE UNCHANGED history
    /\ Done(a)
    /\ UNCHANGED <<mode, cached, count>>

Clear(a) ==
    /\ pc[a] = "clear"
    /\ mem' = [mem EXCEPT ![obj[a]] = <<>>]
    /\ Remove
    /\ Done(a)
    /\ UNCHANGED <<mode, cached, snap, count>>

\* DeleteWebSession: out of the cache under Manager.mu, then out of the store.
BeginDelete(a, p) ==
    /\ MayBegin(a, p, "delete")
    /\ cached' = [cached EXCEPT ![p] = NoObject]
    /\ op' = [op EXCEPT ![a] = "delete"]
    /\ pod' = [pod EXCEPT ![a] = p]
    /\ pc' = [pc EXCEPT ![a] = "remove"]
    /\ UNCHANGED <<mode, history, mem, snap, obj, got, read, count>>

EndDelete(a) ==
    /\ pc[a] = "remove"
    /\ Remove
    /\ Done(a)
    /\ UNCHANGED <<mode, objects, count>>

\* A pod dies with its cache and its operations.
Crash(p) ==
    /\ cached' = [cached EXCEPT ![p] = NoObject]
    /\ pc' = [a \in Actors |-> IF pod[a] = p THEN "idle" ELSE pc[a]]
    /\ op' = [a \in Actors |-> IF pod[a] = p THEN "poll" ELSE op[a]]
    /\ pod' = [a \in Actors |-> IF pod[a] = p THEN NoPod ELSE pod[a]]
    /\ obj' = [a \in Actors |-> IF pod[a] = p THEN NoObject ELSE obj[a]]
    /\ got' = [a \in Actors |-> IF pod[a] = p THEN NoRow ELSE got[a]]
    /\ read' = [a \in Actors |-> IF pod[a] = p THEN <<>> ELSE read[a]]
    /\ UNCHANGED <<mode, history, mem, snap, count>>

---------------------------------------------------------------------------------
TurnStep(a) ==
    \/ AppendUser(a)
    \/ Read(a)
    \/ Compact(a)
    \/ NoCompaction(a)
    \/ Reply(a)
    \/ ProviderFails(a)

CommandStep(a) ==
    \/ NothingToRetry(a)
    \/ Snapshot(a)
    \/ RetryTrims(a)
    \/ UndoByHand(a)
    \/ UndoTrims(a)
    \/ Undo(a)
    \/ Clear(a)
    \/ EndDelete(a)

Next ==
    \/ \E a \in Actors :
        \/ \E p \in Pods, k \in Ops \ {"delete"} : GetFile(a, p, k) \/ GetRow(a, p, k)
        \/ \E p \in Pods : BeginDelete(a, p)
        \/ Reload(a)
        \/ TurnStep(a)
        \/ CommandStep(a)
    \/ \E p \in Pods : Crash(p)

Spec == Init /\ [][Next]_vars

---------------------------------------------------------------------------------
(***************************************************************************)
(* Properties.                                                             *)
(***************************************************************************)

\* Types; a history that does not exist has no messages, an actor holds a
\* session object exactly while it works on it.
TypeOK ==
    /\ mode \in Modes
    /\ exists \in BOOLEAN
    /\ durable \in Seq(Message)
    /\ ~exists => durable = <<>>
    /\ cached \in [Pods -> Objects \cup {NoObject}]
    /\ mem \in [Objects -> Seq(Message)]
    /\ \A o \in Objects : snap[o] # NoSnapshot => snap[o] \in Seq(Message)
    /\ pc \in [Actors -> Loc]
    /\ op \in [Actors -> Ops]
    /\ pod \in [Actors -> Pods \cup {NoPod}]
    /\ obj \in [Actors -> Objects \cup {NoObject}]
    /\ \A a \in Actors :
        /\ obj[a] = NoObject <=> pc[a] \in {"idle", "reload", "remove"}
        /\ got[a] # NoRow => got[a] \in Seq(Message)
        /\ read[a] \in Seq(Message)
    /\ count \in 0 .. MaxMessages

\* A message is added to the history there is, whichever pod adds it: no append
\* drops what another pod or an earlier turn has written.
AppendExtendsHistory ==
    [][exists /\ count' # count =>
        /\ durable' # <<>>
        /\ SubSeq(durable', 1, Len(durable') - 1) = durable]_vars

\* A list that is about to replace the history was made from the history as it
\* is, through compaction, /retry, /undo and crashes.
RewriteFromCurrent ==
    \A a \in Actors :
        pc[a] \in {"compact", "snapshot", "trim"} /\ exists => read[a] = durable

\* Right after Get a request works on what the store holds ("a request served
\* by pod B sees writes made by pod A", manager.go:103), for writes that leave a
\* row.
AfterGet == {"append", "read", "undo", "clear"}
GetSeesWrites ==
    \A a \in Actors : pc[a] \in AfterGet /\ exists => mem[obj[a]] = durable

\* In file mode the cache and the file agree at every moment, so that a restart
\* loses nothing and changes nothing.
FileMirrorsCache ==
    mode = "file" =>
        \A p \in Pods : cached[p] # NoObject => mem[cached[p]] = durable

\* The same as GetSeesWrites for every write, clearing included.
GetSeesClear ==
    \A a \in Actors : pc[a] \in AfterGet => mem[obj[a]] = durable

\* /undo takes back the last turn and nothing before it ("slashUndo reverts the
\* last assistant response", slash.go:131).
Undoing(a) == op[a] = "undo" /\ pc[a] \in {"undo", "trim"}
UndoKeepsEarlierTurns ==
    [][\A a \in Actors : Undoing(a) /\ durable' # durable =>
        \A i \in 1 .. Len(UndoCut(durable)) :
            \E j \in 1 .. Len(durable') : durable'[j] = durable[i]]_vars

==================================================================================
