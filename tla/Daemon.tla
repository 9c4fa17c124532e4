---------------------------------- MODULE Daemon ----------------------------------
(***************************************************************************)
(* internal/daemon/daemon.go with the part of cmd/fastclaw/main.go that    *)
(* writes the pid file.  "daemon start" launches a wrapper (daemon __run), *)
(* the wrapper runs a gateway and starts it again when it crashes, "daemon *)
(* stop" and "daemon restart" signal the process whose pid is in the file. *)
(* The wrapper, the gateway and the start command all write that file, and *)
(* the commands, the gateway and the wrapper all remove it, with no lock.  *)
(*                                                                         *)
(* A pid is never used again.  The gateway may crash at any time and may   *)
(* need more than the five seconds stop grants it.                         *)
(***************************************************************************)
EXTENDS Integers, Sequences, FiniteSets

CONSTANTS
    MaxPids,        (* bound on the processes                                *)
    MaxCommands,    (* bound on the commands                                 *)
    MaxRestarts,    (* maxRestarts, 10                                       *)
    MaxBackoff      (* maxBackoff in seconds, 30                             *)

VARIABLES
    pidFile,        (* what the file says, or 0                              *)
    proc,           (* the processes started so far: a pid is an index       *)
    command,        (* the commands begun so far                             *)
    crashes,        (* history variable: wrapper -> the crashes it has seen, *)
                    (* TRUE when the gateway had been up for a minute        *)
    strayed         (* history variable: see Calm                            *)

vars == <<pidFile, proc, command, crashes, strayed>>

NoFile == 0
Pids   == 1 .. Len(proc)

Wrapper         == [at |-> "boot", parent |-> 0, child |-> 0, count |-> 0, backoff |-> 1, old |-> FALSE]
Gateway(parent) == [Wrapper EXCEPT !.at = "new", !.parent = parent]

IsWrapper(p) == proc[p].parent = 0
Alive(p)     == p \in Pids /\ proc[p].at \notin {"clean", "signal", "crash", "gone", "gave up"}
Gateways     == {p \in Pids : ~IsWrapper(p) /\ Alive(p)}
Wrappers     == {p \in Pids : IsWrapper(p) /\ Alive(p)}
Goes(p, at)  == proc' = [proc EXCEPT ![p].at = at]
UnderWay     == {c \in DOMAIN command : command[c].at # "done"}

Init ==
    /\ pidFile = NoFile /\ proc = <<>> /\ command = <<>>
    /\ crashes = [p \in 1 .. MaxPids |-> <<>>] /\ strayed = FALSE

-----------------------------------------------------------------------------------
(***************************************************************************)
(* RunLoop, in the wrapper.                                                *)
(***************************************************************************)
WritesOwn(w) ==
    /\ IsWrapper(w) /\ proc[w].at = "boot"
    /\ pidFile' = w /\ Goes(w, "launch")
    /\ UNCHANGED <<command, crashes, strayed>>

RunsGateway(w) ==
    /\ IsWrapper(w) /\ proc[w].at = "launch" /\ Len(proc) < MaxPids
    /\ proc' = Append([proc EXCEPT ![w].at = "wait", ![w].child = Len(proc) + 1], Gateway(w))
    /\ UNCHANGED <<pidFile, command, crashes, strayed>>

IsCleanShutdown(end) == end \in {"clean", "signal"}

\* Faulty variant: a long life does not reset the count.
CountedOn(w, old) == [count |-> proc[w].count + 1, backoff |-> proc[w].backoff]

\* What the loop keeps of a crash: how many in a row, and how long to sleep next time.
Counted(w, old) ==
    LET before == IF old THEN [count |-> 0, backoff |-> 1]
                         ELSE [count |-> proc[w].count, backoff |-> proc[w].backoff]
    IN  [before EXCEPT !.count = @ + 1]

\* cmd.Run returns.
Reaps(w) ==
    LET child == proc[proc[w].child]
        seen  == Counted(w, child.old)
    IN  /\ IsWrapper(w) /\ proc[w].at = "wait" /\ ~Alive(proc[w].child)
        /\ IF IsCleanShutdown(child.at)
           THEN Goes(w, "leave") /\ UNCHANGED crashes
           ELSE /\ proc' = [proc EXCEPT ![w].at = IF seen.count >= MaxRestarts THEN "give up" ELSE "sleep",
                                        ![w].count = seen.count, ![w].backoff = seen.backoff]
                /\ crashes' = [crashes EXCEPT ![w] = Append(@, child.old)]
        /\ UNCHANGED <<pidFile, command, strayed>>

\* Faulty variant: the sleep is doubled without a limit.
WakesUncapped(w) ==
    /\ IsWrapper(w) /\ proc[w].at = "sleep"
    /\ proc' = [proc EXCEPT ![w].at = "launch", ![w].backoff = 2 * @]
    /\ UNCHANGED <<pidFile, command, crashes, strayed>>

\* time.Sleep is over.
Wakes(w) ==
    LET twice == 2 * proc[w].backoff
    IN  /\ IsWrapper(w) /\ proc[w].at = "sleep"
        /\ proc' = [proc EXCEPT ![w].at = "launch",
                                ![w].backoff = IF twice > MaxBackoff THEN MaxBackoff ELSE twice]
        /\ UNCHANGED <<pidFile, command, crashes, strayed>>

\* The deferred removal, whoever's pid the file holds.
LeavesLoop(w) ==
    /\ IsWrapper(w) /\ proc[w].at \in {"leave", "give up"}
    /\ pidFile' = NoFile
    /\ Goes(w, IF proc[w].at = "leave" THEN "gone" ELSE "gave up")
    /\ UNCHANGED <<command, crashes, strayed>>

-----------------------------------------------------------------------------------
(***************************************************************************)
(* runGateway.  Up to Run a SIGTERM kills it; Run handles the signal.      *)
(***************************************************************************)
WritePIDFile(g) ==
    /\ ~IsWrapper(g) /\ proc[g].at = "new"
    /\ pidFile' = g /\ Goes(g, "starting")
    /\ UNCHANGED <<command, crashes, strayed>>

ComesUp(g) ==
    /\ ~IsWrapper(g) /\ proc[g].at = "starting"
    /\ Goes(g, "up")
    /\ UNCHANGED <<pidFile, command, crashes, strayed>>

\* gateway.New or NewResolver fails: an error exit with the deferred removal.
FailsToStart(g) ==
    /\ ~IsWrapper(g) /\ proc[g].at = "starting"
    /\ pidFile' = NoFile /\ Goes(g, "crash")
    /\ strayed' = (strayed \/ UnderWay # {})
    /\ UNCHANGED <<command, crashes>>

\* It has been up for stableThreshold.
Settles(g) ==
    /\ ~IsWrapper(g) /\ proc[g].at = "up" /\ ~proc[g].old
    /\ proc' = [proc EXCEPT ![g].old = TRUE]
    /\ UNCHANGED <<pidFile, command, crashes, strayed>>

\* Run has returned after a signal: RemovePIDFile.
RemovePIDFile(g) ==
    /\ ~IsWrapper(g) /\ proc[g].at = "stopping"
    /\ pidFile' = NoFile /\ Goes(g, "clean")
    /\ UNCHANGED <<command, crashes, strayed>>

Crashes(g) ==
    /\ g \in Gateways
    /\ Goes(g, "crash")
    /\ strayed' = (strayed \/ UnderWay # {})
    /\ UNCHANGED <<pidFile, command, crashes>>

-----------------------------------------------------------------------------------
(***************************************************************************)
(* The commands.  A restart is a stop and a start.                         *)
(***************************************************************************)
\* Nothing of the daemon is half done, and the file names the gateway if there is one.  What
\* begins otherwise may stray: it signals a process that is not the one meant, takes a daemon
\* between two gateways for none, or starts a second one.
Calm ==
    /\ UnderWay = {}
    /\ \A w \in Wrappers : proc[w].at = "wait"
    /\ \A g \in Gateways : proc[g].at = "up" /\ pidFile = g
    /\ Cardinality(Wrappers) = Cardinality(Gateways)

Begin(kind) ==
    /\ Len(command) < MaxCommands
    /\ command' = Append(command, [kind |-> kind, at |-> IF kind = "start" THEN "status" ELSE "look", pid |-> 0])
    /\ strayed' = (strayed \/ ~Calm)
    /\ UNCHANGED <<pidFile, proc, crashes>>

StepsTo(c, at, p) == command' = [command EXCEPT ![c].at = at, ![c].pid = p]
Over(c)           == IF command[c].kind = "restart" THEN "status" ELSE "done"

\* GetStatus in Start: a file that names no live process will be removed.
GetStatus(c) ==
    /\ command[c].at = "status"
    /\ StepsTo(c, IF Alive(pidFile) THEN "done" ELSE IF pidFile = NoFile THEN "launch" ELSE "sweep", pidFile)
    /\ UNCHANGED <<pidFile, proc, crashes, strayed>>

\* os.Remove of a file found stale.
Sweep(c) ==
    /\ command[c].at \in {"sweep", "stale"}
    /\ pidFile' = NoFile
    /\ StepsTo(c, IF command[c].at = "sweep" THEN "launch" ELSE Over(c), 0)
    /\ UNCHANGED <<proc, crashes, strayed>>

Launch(c) ==
    /\ command[c].at = "launch" /\ Len(proc) < MaxPids
    /\ proc' = Append(proc, Wrapper)
    /\ StepsTo(c, "note", Len(proc) + 1)
    /\ strayed' = (strayed \/ Wrappers # {})     \* a restart's half second was too short
    /\ UNCHANGED <<pidFile, crashes>>

\* writePID, after the wrapper has been started.
NotePid(c) ==
    /\ command[c].at = "note"
    /\ pidFile' = command[c].pid
    /\ StepsTo(c, "done", 0)
    /\ UNCHANGED <<proc, crashes, strayed>>

\* A wrapper has no handler for the signal.
Signalled(p) == IF IsWrapper(p) THEN "gone"
                ELSE IF proc[p].at \in {"new", "starting"} THEN "signal" ELSE "stopping"

\* Stop reads the file and signals.
Stop(c) ==
    /\ command[c].at = "look"
    /\ \/ pidFile = NoFile /\ StepsTo(c, Over(c), 0) /\ UNCHANGED proc
       \/ pidFile # NoFile /\ ~Alive(pidFile) /\ StepsTo(c, "stale", 0) /\ UNCHANGED proc
       \/ Alive(pidFile) /\ StepsTo(c, "watch", pidFile) /\ Goes(pidFile, Signalled(pidFile))
    /\ UNCHANGED <<pidFile, crashes, strayed>>

SeesItDead(c) ==
    /\ command[c].at = "watch" /\ ~Alive(command[c].pid)
    /\ pidFile' = NoFile /\ StepsTo(c, Over(c), 0)
    /\ UNCHANGED <<proc, crashes, strayed>>

\* Five seconds are over: to the wrapper a killed gateway is a crashed one.
ForceKill(c) ==
    /\ command[c].at = "watch" /\ Alive(command[c].pid)
    /\ Goes(command[c].pid, "crash")
    /\ pidFile' = NoFile /\ StepsTo(c, Over(c), 0)
    /\ strayed' = TRUE
    /\ UNCHANGED crashes

-----------------------------------------------------------------------------------

Next ==
    \/ \E p \in Pids :
          \/ WritesOwn(p) \/ RunsGateway(p) \/ Reaps(p) \/ Wakes(p) \/ LeavesLoop(p)
          \/ WritePIDFile(p) \/ ComesUp(p) \/ FailsToStart(p) \/ Settles(p)
          \/ RemovePIDFile(p) \/ Crashes(p)
    \/ \E kind \in {"start", "stop", "restart"} : Begin(kind)
    \/ \E c \in DOMAIN command :
          \/ GetStatus(c) \/ Sweep(c) \/ Launch(c) \/ NotePid(c)
          \/ Stop(c) \/ SeesItDead(c) \/ ForceKill(c)

Spec == Init /\ [][Next]_vars

-----------------------------------------------------------------------------------

TypeOK ==
    /\ pidFile \in 0 .. MaxPids /\ Len(proc) \in 0 .. MaxPids
    /\ \A p \in Pids : proc[p].count \in 0 .. MaxRestarts /\ proc[p].backoff \in 1 .. MaxBackoff
    /\ \A c \in DOMAIN command :
          command[c].at \in {"status", "look", "sweep", "stale", "launch", "note", "watch", "done"}
    /\ strayed \in BOOLEAN

\* The crashes that count: those since the last gateway that had been up for a minute, that one
\* included.
Streak(w) ==
    LET n == Len(crashes[w])
    IN  Cardinality({i \in 1 .. n : \A j \in i + 1 .. n : ~crashes[w][j]})

Power == [n \in 0 .. MaxRestarts |-> IF 2 ^ n > MaxBackoff THEN MaxBackoff ELSE 2 ^ n]

\* RunLoop gives up exactly on the MaxRestarts-th crash in a row, and before the n-th restart of
\* a row it sleeps 2^(n-1) seconds, at most MaxBackoff: the two counters it keeps, one reset and
\* incremented before the sleep and one doubled after it, stay in step.
GivesUpInTime ==
    \A p \in Pids : IsWrapper(p) =>
        /\ proc[p].at = "sleep" => /\ Streak(p) < MaxRestarts
                                   /\ proc[p].backoff = Power[Streak(p) - 1]
        /\ proc[p].at = "gave up" => Streak(p) = MaxRestarts

\* Three writers and four removers of one file, no lock: as long as every command begins when
\* the daemon is calm, nothing crashes while one is under way, no gateway outlives its five
\* seconds and no wrapper the half second of a restart, there is one wrapper and one gateway at
\* most, the file names one of them whenever the gateway is up, and a stop that has ended leaves
\* neither process nor file.
OneDaemon ==
    ~strayed =>
        /\ Cardinality(Wrappers) <= 1 /\ Cardinality(Gateways) <= 1
        /\ UnderWay = {} /\ (\E g \in Gateways : proc[g].at = "up") => pidFile \in Gateways \cup Wrappers
        /\ \A c \in DOMAIN command :
              /\ command[c].kind = "stop" /\ command[c].at = "done" /\ c = Len(command)
              => /\ Gateways = {} /\ pidFile = NoFile
                 /\ \A w \in Wrappers : proc[w].at \in {"wait", "leave"}

DaemonKept == GivesUpInTime /\ OneDaemon
====
