------------------------------- MODULE McpClients -------------------------------
(***************************************************************************)
(* internal/mcp: the tools of one agent that come from MCP servers over    *)
(* standard input and output.  An agent that is built starts its servers,  *)
(* asks each for its tools and registers them; a tool call writes a        *)
(* request and reads lines until one has its id, with the client's mutex   *)
(* held from the write to the answer and no deadline.  Nobody closes a     *)
(* manager, so an agent that is dropped leaves its servers running.        *)
(*                                                                         *)
(* The servers are external: one takes a request or does not, answers it,  *)
(* sends a request of its own (whose id is its own count) or a             *)
(* notification, and may die.  An HTTP client has one exchange per call    *)
(* and shares nothing but its counter; only the stdio client is modelled.  *)
(***************************************************************************)
EXTENDS Integers, Sequences, FiniteSets

CONSTANTS
    Servers,        (* configured servers                                    *)
    Tools,          (* names a server may give its tools                     *)
    Prefix,         (* server -> its sanitised name                          *)
    Tasks,          (* tool calls                                            *)
    MaxRequests,    (* bound on the ids of a client                          *)
    MaxOwn          (* bound on a server's own requests and notifications    *)

VARIABLES
    process,        (* server -> unstarted, up, dead                         *)
    wantsId,        (* server -> nextID of its client                        *)
    lock,           (* server -> who holds the client's mutex, or nobody     *)
    requests,       (* server -> its stdin                                   *)
    lines,          (* server -> its stdout                                  *)
    own,            (* server -> requests of its own it has sent             *)
    boot,           (* the constructor's place: a server it works on         *)
    kept,           (* servers in the manager                                *)
    route,          (* prefixed tool name -> its server                      *)
    call            (* task -> what it calls, where it is, what it got       *)

vars == <<process, wantsId, lock, requests, lines, own, boot, kept, route, call>>

Nobody == "nobody"
Booting == "manager"          \* NewManager's own calls
NoLine == [id |-> 0, method |-> "none", by |-> Nobody, tool |-> Nobody]
Unstarted == {s \in Servers : process[s] = "unstarted"}

\* prefixToolName: characters other than letters, digits and _ become _, so two servers may share
\* their prefix.
prefixToolName(s, t) == <<Prefix[s], t>>

Init ==
    /\ process = [s \in Servers |-> "unstarted"]
    /\ wantsId = [s \in Servers |-> 1]
    /\ lock = [s \in Servers |-> Nobody]
    /\ requests = [s \in Servers |-> <<>>]
    /\ lines = [s \in Servers |-> <<>>]
    /\ own = [s \in Servers |-> 0]
    /\ boot = [at |-> "next", on |-> Nobody]
    /\ kept = {}
    /\ route = <<>>
    /\ call = [t \in Tasks |-> [at |-> "idle", on |-> Nobody, tool |-> Nobody, id |-> 0, got |-> NoLine]]

----------------------------------------------------------------------------------
\* sendRequest

Request(s, method, who, tool) == [id |-> wantsId[s], method |-> method, by |-> who, tool |-> tool]

\* The mutex, the next id, and the line written to stdin (lost when the process is gone).
Sends(s, method, who, tool) ==
    /\ wantsId[s] <= MaxRequests
    /\ lock' = [lock EXCEPT ![s] = who]
    /\ wantsId' = [wantsId EXCEPT ![s] = @ + 1]
    /\ requests' = IF process[s] = "dead" THEN requests
                   ELSE [requests EXCEPT ![s] = Append(@, Request(s, method, who, tool))]

\* Faulty variant: the next line is the answer, whatever its id.
NextLine(line, id) == TRUE

\* A line is the answer if its id is the request's.  Lines with another id, and notifications, which
\* have none, are passed over.
Matches(line, id) == line.id = id

\* What the holder of the mutex finds next: its answer, a line of no interest, or the end of the
\* output.
Found(s, id)  == lines[s] # <<>> /\ Matches(Head(lines[s]), id)
Other(s, id)  == lines[s] # <<>> /\ ~Matches(Head(lines[s]), id)
AtEnd(s)      == lines[s] = <<>> /\ process[s] = "dead"
TakesLine(s)  == lines' = [lines EXCEPT ![s] = Tail(@)]
Unlocks(s)    == lock' = [lock EXCEPT ![s] = Nobody]

\* A server's own request and a notification have no result to read.
HasResult(line) == line.method \notin {"own", "note"}

----------------------------------------------------------------------------------
\* NewManager, in the goroutine that builds the agent: one server after the other.

booted == boot.on
lastId == wantsId[boot.on] - 1

Connect ==
    /\ boot.at = "next"
    /\ \E s \in Unstarted :
        /\ process' = [process EXCEPT ![s] = "up"]
        /\ boot' = [at |-> "connect", on |-> s]
        /\ Sends(s, "initialize", Booting, Nobody)
    /\ UNCHANGED <<lines, own, kept, route, call>>

\* initialize was answered, by whatever line has its id (nobody looks into the result): tools/list.
ListTools ==
    /\ boot.at = "connect" /\ Found(booted, lastId)
    /\ TakesLine(booted)
    /\ Sends(booted, "list", Booting, Nobody)
    /\ boot' = [boot EXCEPT !.at = "list"]
    /\ UNCHANGED <<process, own, kept, route, call>>

\* The tools are routed by their prefixed name, the last server with a name winning.
Registers ==
    /\ boot.at = "list" /\ Found(booted, lastId) /\ HasResult(Head(lines[booted]))
    /\ TakesLine(booted) /\ Unlocks(booted)
    /\ \E ts \in SUBSET Tools :
        LET names == {prefixToolName(booted, t) : t \in ts}
        IN  route' = [n \in DOMAIN route \cup names |-> IF n \in names THEN booted ELSE route[n]]
    /\ kept' = kept \cup {booted}
    /\ boot' = [at |-> "next", on |-> Nobody]
    /\ UNCHANGED <<process, wantsId, requests, own, call>>

\* A server that dies, answers with an error, or has no tools to parse, is left out; only after
\* tools/list is its process closed.
LeftOut ==
    /\ boot.at \in {"connect", "list"}
    /\ \/ AtEnd(booted) /\ UNCHANGED <<lines, process>>
       \/ /\ Found(booted, lastId) /\ TakesLine(booted)
          /\ process' = [process EXCEPT ![booted] = IF boot.at = "list" THEN "dead" ELSE @]
    /\ Unlocks(booted)
    /\ boot' = [at |-> "next", on |-> Nobody]
    /\ UNCHANGED <<wantsId, requests, own, kept, route, call>>

BootPassesOver ==
    /\ boot.at \in {"connect", "list"} /\ Other(booted, lastId)
    /\ TakesLine(booted)
    /\ UNCHANGED <<process, wantsId, lock, requests, own, boot, kept, route, call>>

----------------------------------------------------------------------------------
\* CallTool, from any number of tool goroutines once the agent is built.

CallTool(t) ==
    /\ Unstarted = {} /\ boot.at = "next" /\ call[t].at = "idle"
    /\ \E n \in DOMAIN route :
        /\ route[n] \in kept /\ lock[route[n]] = Nobody
        /\ Sends(route[n], "call", t, n[2])
        /\ call' = [call EXCEPT ![t] = [at |-> "waits", on |-> route[n], tool |-> n,
                                        id |-> wantsId[route[n]], got |-> NoLine]]
    /\ UNCHANGED <<process, lines, own, boot, kept, route>>

Returns(t) ==
    LET s == call[t].on
    IN  /\ call[t].at = "waits" /\ Found(s, call[t].id)
        /\ TakesLine(s) /\ Unlocks(s)
        /\ call' = [call EXCEPT ![t].at = IF HasResult(Head(lines[s])) THEN "done" ELSE "failed",
                                ![t].got = Head(lines[s])]
        /\ UNCHANGED <<process, wantsId, requests, own, boot, kept, route>>

PassesOver(t) ==
    /\ call[t].at = "waits" /\ Other(call[t].on, call[t].id)
    /\ TakesLine(call[t].on)
    /\ UNCHANGED <<process, wantsId, lock, requests, own, boot, kept, route, call>>

\* "process exited without response", or the write failed.
Fails(t) ==
    /\ call[t].at = "waits" /\ AtEnd(call[t].on)
    /\ call' = [call EXCEPT ![t].at = "failed"]
    /\ Unlocks(call[t].on)
    /\ UNCHANGED <<process, wantsId, requests, lines, own, boot, kept, route>>

----------------------------------------------------------------------------------
\* The servers (external).

Serves(s) ==
    /\ process[s] = "up" /\ requests[s] # <<>>
    /\ requests' = [requests EXCEPT ![s] = Tail(@)]
    /\ lines' = [lines EXCEPT ![s] = Append(@, Head(requests[s]))]
    /\ UNCHANGED <<process, wantsId, lock, own, boot, kept, route, call>>

\* A server numbers its requests by itself; a notification has no id, which reads as 0.
Speaks(s) ==
    /\ process[s] = "up" /\ own[s] < MaxOwn
    /\ own' = [own EXCEPT ![s] = @ + 1]
    /\ \E line \in {[NoLine EXCEPT !.id = i, !.method = "own"] : i \in 1 .. MaxRequests}
                   \cup {[NoLine EXCEPT !.method = "note"]} :
        lines' = [lines EXCEPT ![s] = Append(@, line)]
    /\ UNCHANGED <<process, wantsId, lock, requests, boot, kept, route, call>>

Dies(s) ==
    /\ process[s] = "up"
    /\ process' = [process EXCEPT ![s] = "dead"]
    /\ requests' = [requests EXCEPT ![s] = <<>>]
    /\ UNCHANGED <<wantsId, lock, lines, own, boot, kept, route, call>>

Next ==
    \/ Connect \/ ListTools \/ Registers \/ LeftOut \/ BootPassesOver
    \/ \E t \in Tasks : CallTool(t) \/ Returns(t) \/ PassesOver(t) \/ Fails(t)
    \/ \E s \in Servers : Serves(s) \/ Speaks(s) \/ Dies(s)

Spec == Init /\ [][Next]_vars

----------------------------------------------------------------------------------

TypeOK ==
    /\ process \in [Servers -> {"unstarted", "up", "dead"}]
    /\ wantsId \in [Servers -> 1 .. MaxRequests + 1]
    /\ lock \in [Servers -> Tasks \cup {Nobody, Booting}]
    /\ kept \subseteq Servers

\* The answer a call returns is the one its server gave to that very call, though other calls, late
\* lines, notifications and the server's own requests share its output (stdio.go:101-118), and the
\* server is one that has the tool (manager.go:87-98).
AnswersMatched ==
    \A t \in Tasks : call[t].at = "done" =>
        /\ call[t].got.by = t /\ call[t].got.tool = call[t].tool[2]
        /\ Prefix[call[t].on] = call[t].tool[1]

\* One call at a time uses a client, and a call that waits has the mutex.
OneCallAtATime ==
    \A t \in Tasks : call[t].at = "waits" => lock[call[t].on] = t

==================================================================================
