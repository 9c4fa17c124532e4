--------------------------------- MODULE Gateway ---------------------------------
(***************************************************************************)
(* internal/gateway/gateway.go with internal/bus and internal/channels/    *)
(* manager.go: the goroutines between a message and its reply, and how Run *)
(* ends them.                                                              *)
(*                                                                         *)
(* Readers put messages on the Inbound channel, one dispatcher makes tasks *)
(* of them, the task queue runs the tasks of a chat one after the other    *)
(* and a bounded number in all (TaskQueue has the details), a handler puts *)
(* its reply on the Outbound channel while it still holds its slot, and    *)
(* one router takes it to the adapter.  Cancelling the context ends        *)
(* reader, dispatcher and router each on its own; Run then stops the       *)
(* queue.  Which agent gets a message is in Routing; here a message is a   *)
(* number and goes to the chat ChatOf says.                                *)
(***************************************************************************)
EXTENDS Integers, Sequences, FiniteSets

CONSTANTS
    Chats,
    ChatOf,         (* message -> chat                                       *)
    MaxMessages,    (* bound on the messages that come in                    *)
    InCap, OutCap,  (* capacities of the bus, 100 each in the code           *)
    QueueCap,       (* capacity of a chat's channel, 100                     *)
    SlotCount       (* maxConcurrent                                         *)

\* Messages are numbered and each has a chat; capacities are numbers.
ASSUME GatewayAssumption ==
    /\ IsFiniteSet(Chats)
    /\ MaxMessages \in Nat /\ ChatOf \in [1 .. MaxMessages -> Chats]
    /\ {InCap, OutCap, QueueCap, SlotCount} \subseteq Nat

VARIABLES
    read,           (* messages read so far                                  *)
    reading,        (* whether the reader is at its send on Inbound          *)
    inbound,        (* bus.Inbound                                           *)
    submitting,     (* the message the dispatcher is sending to the queue    *)
    chatQ,          (* tasks waiting, per chat                               *)
    handling,       (* the task whose handler runs, per chat                 *)
    replying,       (* chats whose handler is at its send on Outbound        *)
    outbound,       (* bus.Outbound                                          *)
    delivered,      (* history variable: messages whose reply was sent       *)
    failed,         (* history variable: messages that will have no reply    *)
    shut,           (* goroutines of the wait group that have returned       *)
    runState        (* Gateway.Run: "up", "cancelled", "returned"            *)

intake  == <<read, reading, inbound>>
serving == <<submitting, chatQ, handling, replying>>
sending == <<outbound, delivered, failed>>
process == <<shut, runState>>
vars    == <<intake, serving, sending, process>>

Message    == 1 .. MaxMessages
None       == 0
Goroutines == {"reader", "dispatcher", "router"}

Init ==
    /\ read = 0 /\ reading = FALSE /\ inbound = <<>>
    /\ submitting = None
    /\ chatQ = [c \in Chats |-> <<>>]
    /\ handling = [c \in Chats |-> None]
    /\ replying = {}
    /\ outbound = <<>> /\ delivered = <<>> /\ failed = {}
    /\ shut = {} /\ runState = "up"

----------------------------------------------------------------------------------

\* A channel's reader has a message and blocks until Inbound has room.
Read ==
    /\ "reader" \notin shut /\ ~reading
    /\ read < MaxMessages
    /\ read' = read + 1
    /\ reading' = TRUE
    /\ UNCHANGED <<inbound, serving, sending, process>>

PutInbound ==
    /\ reading
    /\ Len(inbound) < InCap
    /\ inbound' = Append(inbound, read)
    /\ reading' = FALSE
    /\ UNCHANGED <<read, serving, sending, process>>

\* processInbound takes a message that it will submit, or that it drops because
\* nobody owns it, it is a duplicate, or no space or agent is found.
Dispatch ==
    /\ "dispatcher" \notin shut /\ submitting = None
    /\ inbound # <<>>
    /\ inbound' = Tail(inbound)
    /\ \/ submitting' = Head(inbound) /\ UNCHANGED failed
       \/ failed' = failed \cup {Head(inbound)} /\ UNCHANGED submitting
    /\ UNCHANGED <<read, reading, chatQ, handling, replying, outbound, delivered, process>>

\* cq.ch <- task
Enqueue ==
    /\ submitting # None
    /\ Len(chatQ[ChatOf[submitting]]) < QueueCap
    /\ chatQ' = [chatQ EXCEPT ![ChatOf[submitting]] = Append(@, submitting)]
    /\ submitting' = None
    /\ UNCHANGED <<intake, handling, replying, sending, process>>

SlotsTaken == Cardinality({c \in Chats : handling[c] # None})

StartTask(c) ==
    /\ chatQ[c] # <<>> /\ handling[c] = None
    /\ SlotsTaken < SlotCount
    /\ handling' = [handling EXCEPT ![c] = Head(chatQ[c])]
    /\ chatQ' = [chatQ EXCEPT ![c] = Tail(@)]
    /\ UNCHANGED <<intake, submitting, replying, sending, process>>

\* The space does not load or the agent is gone: the task fails, without reply.
HandlerFails(c) ==
    /\ handling[c] # None /\ c \notin replying
    /\ failed' = failed \cup {handling[c]}
    /\ handling' = [handling EXCEPT ![c] = None]
    /\ UNCHANGED <<intake, submitting, chatQ, replying, outbound, delivered, process>>

HandleMessage(c) ==
    /\ handling[c] # None /\ c \notin replying
    /\ replying' = replying \cup {c}
    /\ UNCHANGED <<intake, submitting, chatQ, handling, sending, process>>

\* Faulty variant: the reply is left to a goroutine of its own, which may be
\* overtaken by that of the chat's next task (outbound counts those that wait).
ReplyInBackground(c) ==
    /\ c \in replying
    /\ outbound' \in {Append(outbound, handling[c]), <<handling[c]>> \o outbound}
    /\ handling' = [handling EXCEPT ![c] = None]
    /\ replying' = replying \ {c}
    /\ UNCHANGED <<intake, submitting, chatQ, delivered, failed, process>>

\* Faulty variant: a reply the bus has no room for is dropped.
ReplyOrDrop(c) ==
    /\ c \in replying
    /\ outbound' = IF Len(outbound) < OutCap THEN Append(outbound, handling[c]) ELSE outbound
    /\ handling' = [handling EXCEPT ![c] = None]
    /\ replying' = replying \ {c}
    /\ UNCHANGED <<intake, submitting, chatQ, delivered, failed, process>>

\* mb.Outbound <- reply, whatever became of the context; then the slot is free.
Reply(c) ==
    /\ c \in replying
    /\ Len(outbound) < OutCap
    /\ outbound' = Append(outbound, handling[c])
    /\ handling' = [handling EXCEPT ![c] = None]
    /\ replying' = replying \ {c}
    /\ UNCHANGED <<intake, submitting, chatQ, delivered, failed, process>>

\* routeOutbound: a reply for an unknown account is dropped, one the platform
\* refuses is logged.
RouteOutbound ==
    /\ "router" \notin shut
    /\ outbound # <<>>
    /\ outbound' = Tail(outbound)
    /\ \/ delivered' = Append(delivered, Head(outbound)) /\ UNCHANGED failed
       \/ failed' = failed \cup {Head(outbound)} /\ UNCHANGED delivered
    /\ UNCHANGED <<intake, serving, process>>

----------------------------------------------------------------------------------
(***************************************************************************)
(* Run.                                                                    *)
(***************************************************************************)
\* SIGINT or SIGTERM.
Cancel ==
    /\ runState = "up"
    /\ runState' = "cancelled"
    /\ UNCHANGED <<intake, serving, sending, shut>>

\* A goroutine sees the cancelled context at its select, not while it blocks on
\* a send.
AtSelect(g) ==
    /\ g = "reader" => ~reading
    /\ g = "dispatcher" => submitting = None

Leave(g) ==
    /\ runState = "cancelled" /\ g \notin shut
    /\ AtSelect(g)
    /\ shut' = shut \cup {g}
    /\ UNCHANGED <<intake, serving, sending, runState>>

\* wg.Wait() is over: the queue is stopped and the process ends.
Return ==
    /\ runState = "cancelled" /\ shut = Goroutines
    /\ runState' = "returned"
    /\ UNCHANGED <<intake, serving, sending, shut>>

\* What the process does by itself; people write and signals come from outside.
Runs ==
    \/ PutInbound \/ Dispatch \/ Enqueue
    \/ \E c \in Chats : StartTask(c) \/ HandlerFails(c) \/ HandleMessage(c) \/ Reply(c)
    \/ RouteOutbound
    \/ \E g \in Goroutines : Leave(g)
    \/ Return

Next ==
    /\ runState # "returned"
    /\ \/ Read
       \/ Cancel
       \/ Runs

(***************************************************************************)
(* Go never stops while a goroutine can run, a handler returns because its *)
(* context has a deadline, and a select with a cancelled context takes     *)
(* that branch at some time.  As the messages are bounded this one         *)
(* condition is enough: no goroutine can be passed over for ever.          *)
(***************************************************************************)
Fairness == WF_vars(runState # "returned" /\ Runs)

Spec == Init /\ [][Next]_vars /\ Fairness

----------------------------------------------------------------------------------

\* Types and ranges: no channel holds more than it has room for, and no more
\* handlers are at work or at their send than there are slots.
TypeOK ==
    /\ read \in 0 .. MaxMessages /\ reading \in BOOLEAN
    /\ inbound \in Seq(Message) /\ Len(inbound) <= InCap
    /\ submitting \in Message \cup {None}
    /\ \A c \in Chats : chatQ[c] \in Seq(Message) /\ Len(chatQ[c]) <= QueueCap
    /\ handling \in [Chats -> Message \cup {None}] /\ replying \subseteq Chats
    /\ SlotsTaken <= SlotCount
    /\ outbound \in Seq(Message) /\ Len(outbound) <= OutCap
    /\ delivered \in Seq(Message) /\ failed \subseteq Message
    /\ shut \subseteq Goroutines /\ runState \in {"up", "cancelled", "returned"}

\* Replies reach a chat in the order of the messages they answer, and none comes
\* twice: chat queue, slot held until the reply is handed over and the one
\* router together keep the order.
RepliesInOrder ==
    \A i, j \in 1 .. Len(delivered) :
        i < j /\ ChatOf[delivered[i]] = ChatOf[delivered[j]] => delivered[i] < delivered[j]

\* While the gateway is up every message that was read is answered, or nothing
\* can be: bounded channels and slots never leave reader, dispatcher, handlers
\* and router waiting for each other.
Settled(m) == m \in failed \/ \E i \in 1 .. Len(delivered) : delivered[i] = m
MessagesSettled == []<>(runState # "up" \/ \A m \in 1 .. read : Settled(m))

\* The two ways in which Run hangs after the signal.  The router has left, a
\* handler has no room for its reply, its chat's queue is full, and the
\* dispatcher blocks on it; or the dispatcher has left and a reader has no room
\* on Inbound.
StuckOnOutbound ==
    "router" \in shut /\ Len(outbound) = OutCap /\ replying # {} /\ submitting # None
StuckOnInbound  == "dispatcher" \in shut /\ Len(inbound) = InCap /\ reading

\* After the signal Run returns, or hangs in one of these ways and no other.
RunReturnsOrHangs ==
    runState = "cancelled" ~> runState = "returned" \/ StuckOnOutbound \/ StuckOnInbound

GatewayProgress == MessagesSettled /\ RunReturnsOrHangs

==================================================================================
