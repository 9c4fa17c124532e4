----------------------------- MODULE AgentFiles -----------------------------
(***************************************************************************)
(* Where the tools of an agent read and write (agent/tools/file.go,        *)
(* exec.go, registry.go).  One agent id may be loaded in several user      *)
(* spaces, its owner's and those of administrators it was injected into    *)
(* (gateway/userspace.go): each has an Agent object with its own tool      *)
(* registry, and all share the agent's home directory on the pod.  A path  *)
(* is an identity file (a row per user, mirrored into the home when no     *)
(* sandbox is bound), an artifact (the object store, under the chat's      *)
(* session), or local (skills/..., absolute: the home, or the sandbox).    *)
(*                                                                         *)
(* bindSession points the registry at the chat of the turn that begins;    *)
(* the task queue serialises turns per chat only, so turns of two chats of *)
(* one registry overlap.                                                   *)
(***************************************************************************)
EXTENDS Naturals

CONSTANTS
  Users,         \* users whose space holds an object of this agent
  Chats,         \* chats with the agent
  OwnerOf,       \* chat -> the user whose space serves it
  Identity, Artifacts, Local,   \* paths of the three kinds
  MaxWrites      \* bound: contents written

VARIABLES
  pool,          \* user -> whether the space wired a sandbox pool to the agent
  registry,      \* user -> session and executor the registry is bound to
  rows,          \* agent_files: user -> identity file -> content
  home,          \* the agent's home directory: path -> content
  blobs,         \* object store: session -> artifact -> content
  boxes,         \* sandboxes: session -> path -> content
  turn,          \* chat -> the turn under way
  written,       \* contents written so far: they are numbered
  last           \* what the call that just ended returned

files == <<rows, home, blobs, boxes>>
vars == <<pool, registry, files, turn, written, last>>

Paths == Identity \cup Artifacts \cup Local
Contents == 0..MaxWrites           \* 0: no such file
NoOne == "none"

Idle == [on |-> FALSE, alone |-> TRUE, own |-> [p \in Paths |-> 0],
         mirror |-> <<>>]
Nothing == [of |-> NoOne]

TypeOK ==
  /\ pool \in [Users -> BOOLEAN]
  /\ registry \in [Users -> [session : Chats \cup {NoOne},
                             executor : Chats \cup {NoOne}]]
  /\ rows \in [Users -> [Identity -> Contents]]
  /\ home \in [Identity \cup Local -> Contents]
  /\ blobs \in [Chats -> [Artifacts -> Contents]]
  /\ boxes \in [Chats -> [Artifacts \cup Local -> Contents]]
  /\ written \in Contents
  /\ \A c \in Chats : turn[c].own \in [Paths -> Contents]

Init ==
  /\ pool \in [Users -> BOOLEAN]
  /\ registry = [u \in Users |-> [session |-> NoOne, executor |-> NoOne]]
  /\ rows = [u \in Users |-> [p \in Identity |-> 0]]
  /\ home = [p \in Identity \cup Local |-> 0]
  /\ blobs = [c \in Chats |-> [p \in Artifacts |-> 0]]
  /\ boxes = [c \in Chats |-> [p \in Artifacts \cup Local |-> 0]]
  /\ turn = [c \in Chats |-> Idle]
  /\ written = 0 /\ last = Nothing

\* registerSandboxedFile and registerSandboxedExec replaced the host's tools.
Executor(c) == registry[OwnerOf[c]].executor
Session(c) == registry[OwnerOf[c]].session
Boxed(c) == Executor(c) # NoOne

-----------------------------------------------------------------------------
(* Turns.                                                                  *)

\* bindSession: without a pool only the session; when the pool has no executor
\* to give, the one bound before stays.
Bind(c, gives) ==
  [registry EXCEPT ![OwnerOf[c]] =
     [session |-> c,
      executor |-> IF pool[OwnerOf[c]] /\ gives THEN c ELSE @.executor]]

Begin(c, gives) ==
  LET others == {d \in Chats \ {c} : OwnerOf[d] = OwnerOf[c] /\ turn[d].on} IN
  /\ ~ turn[c].on
  /\ registry' = Bind(c, gives)
  /\ turn' = [d \in Chats |->
       IF d = c THEN [Idle EXCEPT !.on = TRUE, !.alone = others = {}]
       ELSE IF d \in others THEN [turn[d] EXCEPT !.alone = FALSE] ELSE turn[d]]
  /\ last' = Nothing /\ UNCHANGED <<pool, files, written>>

End(c) ==
  /\ turn[c].on /\ turn[c].mirror = <<>>
  /\ turn' = [turn EXCEPT ![c] = Idle]
  /\ last' = Nothing /\ UNCHANGED <<pool, registry, files, written>>

-----------------------------------------------------------------------------
(* write_file.  Contents are numbered in the order they are written.       *)

New == written + 1
Writes == written < MaxWrites /\ written' = New /\ last' = Nothing

\* For the property: who still has its own write of p there, after c's.
Rewritten(p, c, shared) ==
  [d \in Chats |-> IF d = c THEN [turn[d].own EXCEPT ![p] = New]
                   ELSE IF d \in shared THEN [turn[d].own EXCEPT ![p] = 0]
                   ELSE turn[d].own]
Now(owns) == [d \in Chats |-> [turn[d] EXCEPT !.own = owns[d]]]
ChatsOf(u) == {c \in Chats : OwnerOf[c] = u}

SaveAgentFile(u, p, content) == [rows EXCEPT ![u][p] = content]

\* The row first; on the host a copy in the home comes after it.
WriteIdentity(c, p) ==
  LET u == OwnerOf[c] IN
  /\ turn[c].on /\ turn[c].mirror = <<>>
  /\ Writes
  /\ rows' = SaveAgentFile(u, p, New)
  /\ turn' = [Now(Rewritten(p, c, ChatsOf(u))) EXCEPT ![c].mirror =
                IF Boxed(c) THEN <<>> ELSE <<p, New>>]
  /\ UNCHANGED <<pool, registry, home, blobs, boxes>>

\* The copy's failure is ignored.
Mirror(c, copied) ==
  /\ turn[c].mirror # <<>>
  /\ home' = IF copied
             THEN [home EXCEPT ![turn[c].mirror[1]] = turn[c].mirror[2]] ELSE home
  /\ turn' = [turn EXCEPT ![c].mirror = <<>>]
  /\ last' = Nothing /\ UNCHANGED <<pool, registry, rows, blobs, boxes, written>>

WriteArtifact(c, p) ==
  /\ turn[c].on /\ Writes
  /\ blobs' = [blobs EXCEPT ![Session(c)][p] = New]
  /\ turn' = Now(Rewritten(p, c, {}))
  /\ UNCHANGED <<pool, registry, rows, home, boxes>>

WriteLocal(c, p) ==
  /\ turn[c].on /\ Writes
  /\ IF Boxed(c)
     THEN /\ boxes' = [boxes EXCEPT ![Executor(c)][p] = New]
          /\ turn' = Now(Rewritten(p, c, {})) /\ UNCHANGED home
     ELSE /\ home' = [home EXCEPT ![p] = New]
          /\ turn' = Now(Rewritten(p, c, Chats)) /\ UNCHANGED boxes
  /\ UNCHANGED <<pool, registry, rows, blobs>>

-----------------------------------------------------------------------------
(* read_file and exec.                                                     *)

\* A missing row: on the host the file in the home, else blank.
ReadIdentity(c, p) ==
  LET row == rows[OwnerOf[c]][p] IN
  IF row # 0 \/ Boxed(c) THEN row ELSE home[p]

\* A missing artifact is an error on the host; else the sandbox is asked.
ReadArtifact(c, p) ==
  LET blob == blobs[Session(c)][p] IN
  IF blob # 0 \/ ~ Boxed(c) THEN blob ELSE boxes[Executor(c)][p]

ReadLocal(c, p) == IF Boxed(c) THEN boxes[Executor(c)][p] ELSE home[p]

ReadFile(c, p) ==
  IF p \in Identity THEN ReadIdentity(c, p)
  ELSE IF p \in Artifacts THEN ReadArtifact(c, p) ELSE ReadLocal(c, p)

Read(c, p) ==
  /\ turn[c].on
  /\ last' = [of |-> c, got |-> ReadFile(c, p), own |-> turn[c].own[p],
              alone |-> turn[c].alone]
  /\ UNCHANGED <<pool, registry, files, turn, written>>

\* A faulty variant: without an executor the command runs on the host.
FallsThrough(c) == IF Boxed(c) THEN Executor(c) ELSE "host"

\* The executor bound last; without one a required sandbox is refused.
ExecRuns(c) ==
  IF Boxed(c) THEN Executor(c)
  ELSE IF pool[OwnerOf[c]] THEN "refused" ELSE "host"

Exec(c) ==
  /\ turn[c].on
  /\ last' = [of |-> c, ran |-> ExecRuns(c)]
  /\ UNCHANGED <<pool, registry, files, turn, written>>

-----------------------------------------------------------------------------
(* The Customize page writes and deletes the caller's row, never the home; *)
(* the upload endpoint puts into a session.                                *)

Customize(u, p) ==
  /\ Writes
  /\ rows' = SaveAgentFile(u, p, New)
  /\ turn' = Now(Rewritten(p, NoOne, ChatsOf(u)))
  /\ UNCHANGED <<pool, registry, home, blobs, boxes>>

DeleteAgentFile(u, p) ==
  /\ rows[u][p] # 0
  /\ rows' = [rows EXCEPT ![u][p] = 0]
  /\ turn' = Now(Rewritten(p, NoOne, ChatsOf(u)))
  /\ last' = Nothing /\ UNCHANGED <<pool, registry, home, blobs, boxes, written>>

HandleAgentFileUpload(c, p) ==
  /\ Writes
  /\ blobs' = [blobs EXCEPT ![c][p] = New]
  /\ turn' = Now(Rewritten(p, NoOne, {c}))
  /\ UNCHANGED <<pool, registry, rows, home, boxes>>

Next ==
  \/ \E c \in Chats :
       \/ \E gives \in BOOLEAN : Begin(c, gives) \/ Mirror(c, gives)
       \/ End(c) \/ Exec(c)
       \/ \E p \in Identity : WriteIdentity(c, p)
       \/ \E p \in Artifacts : WriteArtifact(c, p) \/ HandleAgentFileUpload(c, p)
       \/ \E p \in Local : WriteLocal(c, p)
       \/ \E p \in Paths : Read(c, p)
  \/ \E u \in Users, p \in Identity : Customize(u, p) \/ DeleteAgentFile(u, p)

Spec == Init /\ [][Next]_vars

-----------------------------------------------------------------------------
\* A turn no other chat of its registry overlapped reads back what it wrote,
\* until somebody with a right to that file writes it: chats of another user,
\* or other sessions of the same path, do not count.
ReadBack ==
  "got" \in DOMAIN last /\ last.alone => last.own \in {0, last.got}

\* An agent with a sandbox pool never runs a command on the host, whatever
\* binding failed, and its sandbox is one of its own user's.
ExecContained ==
  "ran" \in DOMAIN last /\ pool[OwnerOf[last.of]] =>
    last.ran \in {"refused"} \cup ChatsOf(OwnerOf[last.of])

\* What the file and exec tools promise (tools/file.go, tools/exec.go:98-161).
FilesSound == ReadBack /\ ExecContained
=============================================================================
