--------------------------------- MODULE MCLive ---------------------------------
(***************************************************************************)
(* Gateway and TaskQueue for TLC, under fairness.  A behaviour is one of   *)
(* the gateway or one of the queue: part says which, and the other rests   *)
(* in its initial state, where none of its fair actions is enabled.        *)
(***************************************************************************)
EXTENDS Gateway

CONSTANTS g1, g2, c1, c2, NoChat

VARIABLES part, seq, chatOf, status, listed, queueOf, chan, closed, age, wpc, wtask,
          runAge, sem, sender, stopped, panicked

queueVars == <<seq, chatOf, status, listed, queueOf, chan, closed, age, wpc, wtask,
               runAge, sem, sender, stopped, panicked>>

\* A message of another chat, then three of one: the chat's channel, the slot and
\* both channels of the bus are full with one each.
MessageChats == <<g2, g1, g1, g1>>

\* One slot for two chats.
Queue == INSTANCE TaskQueue WITH
    Chats <- {c1, c2}, MaxTasks <- 3, MaxConcurrent <- 1, ChanCap <- 1, Keep <- 3,
    IdleTimeout <- 1, RunBound <- 1, Prompt <- TRUE

LiveInit ==
    /\ part \in {"queue", "gateway"}
    /\ Init
    /\ Queue!Init

LiveNext ==
    /\ UNCHANGED part
    /\ \/ part = "gateway" /\ Next /\ UNCHANGED queueVars
       \/ part = "queue" /\ Queue!Next /\ UNCHANGED vars

LiveSpec ==
    /\ LiveInit /\ [][LiveNext]_<<part, vars, queueVars>>
    /\ Fairness
    /\ Queue!Fairness

EveryTaskCompletes == Queue!EveryTaskCompletes
StopEndsWorkers    == Queue!StopEndsWorkers

==================================================================================
