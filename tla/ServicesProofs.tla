------------------------------ MODULE ServicesProofs ------------------------------
(***************************************************************************)
(* What the components around queue, session and turn promise, for all     *)
(* values of their constants: the sandboxes of remote tool calls (E2B),    *)
(* deleted accounts (Accounts), what an agent meets and when a job fires   *)
(* (Routing, Cron), and settings and channel rows (Settings, ConfigRows).  *)
(* The promises to callers are proved in CallersProofs, the registry of    *)
(* user spaces in SpacesProofs.                                            *)
(*                                                                         *)
(* Each part has an inductive invariant of its own, and the last section   *)
(* puts them together: what a component does among the others is what it   *)
(* does alone.                                                             *)
(***************************************************************************)
EXTENDS Services, FiniteSetTheorems, SequenceTheorems, WellFoundedInduction, TLAPS

--------------------------------------------------------------------------------
(***************************************************************************)
(* E2B.  No call runs twice in one sandbox, however often calls on the     *)
(* same executor replace it under one another, and every sandbox that is   *)
(* up is somebody's to close or was let go of knowingly.  The              *)
(* strengthening of OncePerSandbox says, for each place of a call, where   *)
(* it may have run: nowhere before its first attempt, and not in the       *)
(* sandbox its executor points to once the replacement is made (NotYet).   *)
(***************************************************************************)
Zero == [c \in RemoteCalls |-> 0]
E2BBox  == [up : BOOLEAN, used : BOOLEAN, ran : [RemoteCalls -> 0 .. 2]]
E2BCall == [at : {"idle", "first", "recreate", "hydrate", "again", "done"}, on : {E2BPart!None} \cup E2BPart!Executors]

\* A sandbox nobody created is not up and has run nothing.
Untouched ==
    \A s \in E2BPart!Sandboxes :
        ~cloud[s].used => ~cloud[s].up /\ cloud[s].ran = Zero

\* Before its first attempt a call has run nowhere; after a replacement, not here.
NotYet ==
    \A c \in RemoteCalls :
        /\ remote[c].at \in {"idle", "first"} => \A s \in E2BPart!Sandboxes : cloud[s].ran[c] = 0
        /\ remote[c].at \in {"hydrate", "again"} => cloud[E2BPart!Pointed(c)].ran[c] = 0

\* The executors that somebody has were made.
Made ==
    /\ e2bPool # E2BPart!None => executor[e2bPool] # E2BPart!None
    /\ \A e \in closing : executor[e] # E2BPart!None
    /\ \A c \in RemoteCalls : remote[c].at # "idle" =>
                            remote[c].on \in E2BPart!Executors /\ executor[remote[c].on] # E2BPart!None

E2BInv == E2BPart!TypeOK /\ Untouched /\ NotYet /\ Made /\ E2BPart!OncePerSandbox /\ E2BPart!EverySandboxAccounted

--------------------------------------------------------------------------------
LEMMA FreshBox == E2BPart!Fresh \in E2BBox /\ E2BPart!Fresh.up /\ E2BPart!Fresh.used /\ E2BPart!Fresh.ran = Zero
<1>1. Zero \in [RemoteCalls -> 0 .. 2]
    BY DEF Zero
<1>2. E2BPart!Unused = [up |-> FALSE, used |-> FALSE, ran |-> Zero]
    BY DEF E2BPart!Unused, Zero
<1> DEFINE up == [E2BPart!Unused EXCEPT !.up = TRUE]
<1>3. E2BPart!Unused \in E2BBox /\ E2BPart!Unused.ran = Zero
    BY <1>1, <1>2 DEF E2BBox
<1> HIDE DEF E2BPart!Unused
<1>4. up \in E2BBox /\ up.up /\ up.ran = Zero
    BY <1>3 DEF E2BBox
<1> HIDE DEF up
<1>5. E2BPart!Fresh = [up EXCEPT !.used = TRUE]
    BY DEF E2BPart!Fresh, up
<1> QED
    BY <1>4, <1>5 DEF E2BBox

\* What Goes does to a call.
LEMMA GoesTo ==
    ASSUME E2BPart!TypeOK, NEW c \in RemoteCalls, NEW where \in {"first", "recreate", "hydrate", "again", "done"},
           E2BPart!Goes(c, where)
    PROVE  /\ remote' = [remote EXCEPT ![c] = [at |-> where, on |-> remote[c].on]]
           /\ remote' \in [RemoteCalls -> E2BCall]
           /\ remote'[c].at = where /\ remote'[c].on = remote[c].on
           /\ \A d \in RemoteCalls : d # c => remote'[d] = remote[d]
<1> DEFINE x == [remote[c] EXCEPT !.at = where]
<1>1. remote \in [RemoteCalls -> E2BCall] /\ remote[c] \in E2BCall
    BY DEF E2BPart!TypeOK, E2BCall
<1>2. x = [at |-> where, on |-> remote[c].on] /\ x \in E2BCall
    BY <1>1 DEF E2BCall
<1>3. remote' = [remote EXCEPT ![c] = x]
    BY DEF E2BPart!Goes
<1> HIDE DEF x
<1> QED
    BY <1>1, <1>2, <1>3

LEMMA E2BInit == ASSUME E2BAssumed PROVE E2BPart!Init => E2BInv
<1> SUFFICES ASSUME E2BPart!Init PROVE E2BInv
    OBVIOUS
<1>1. \A s \in E2BPart!Sandboxes : /\ cloud[s] = E2BPart!Unused /\ ~cloud[s].up /\ ~cloud[s].used
                                   /\ cloud[s].ran = Zero
    BY DEF E2BPart!Init, E2BPart!Unused, Zero
<1>2. E2BPart!TypeOK
    <2>1. E2BPart!Unused \in E2BBox
        BY DEF E2BPart!Unused, E2BBox
    <2> QED
        BY <2>1 DEF E2BPart!Init, E2BPart!TypeOK, E2BBox
<1>3. Untouched /\ NotYet /\ E2BPart!OncePerSandbox /\ E2BPart!EverySandboxAccounted
    BY <1>1 DEF E2BPart!Init, Untouched, NotYet, E2BPart!OncePerSandbox, E2BPart!EverySandboxAccounted, E2BPart!Up, Zero
<1>4. Made
    BY DEF E2BPart!Init, Made
<1> QED
    BY <1>2, <1>3, <1>4 DEF E2BInv

\* A step in which the calls stay where they are, nothing runs and sandboxes at most go down.
LEMMA PoolOnly ==
    ASSUME E2BAssumed, E2BInv, UNCHANGED remote, E2BPart!TypeOK', Made',
           \A s \in E2BPart!Sandboxes : \/ /\ cloud'[s].ran = cloud[s].ran
                                           /\ cloud'[s].used = cloud[s].used
                                           /\ cloud'[s].up => cloud[s].up
                                        \/ cloud'[s] = E2BPart!Fresh /\ ~cloud[s].used,
           \A c \in RemoteCalls : remote[c].at # "idle" =>
               executor'[remote[c].on] = executor[remote[c].on],
           E2BPart!EverySandboxAccounted'
    PROVE  E2BInv'
<1>1. E2BPart!Fresh.used /\ E2BPart!Fresh.ran = Zero
    BY FreshBox
<1>2. \A s \in E2BPart!Sandboxes : cloud'[s].ran = cloud[s].ran
    BY <1>1 DEF E2BInv, Untouched
<1>3. Untouched' /\ E2BPart!OncePerSandbox'
    BY <1>1, <1>2 DEF E2BInv, Untouched, E2BPart!OncePerSandbox
<1>4. NotYet'
    <2> SUFFICES ASSUME NEW c \in RemoteCalls
                 PROVE  /\ remote[c].at \in {"idle", "first"} =>
                               \A s \in E2BPart!Sandboxes : cloud'[s].ran[c] = 0
                        /\ remote[c].at \in {"hydrate", "again"} => cloud'[E2BPart!Pointed(c)'].ran[c] = 0
        BY DEF NotYet
    <2>1. CASE remote[c].at \in {"hydrate", "again"}
        <3>1. E2BPart!Pointed(c)' = E2BPart!Pointed(c) /\ E2BPart!Pointed(c) \in E2BPart!Sandboxes
            BY <2>1 DEF E2BInv, Made, E2BPart!TypeOK, E2BPart!Pointed
        <3> QED
            BY <2>1, <3>1, <1>2 DEF E2BInv, NotYet
    <2>2. CASE remote[c].at \in {"idle", "first"}
        BY <2>2, <1>2 DEF E2BInv, NotYet
    <2> QED
        BY <2>1, <2>2
<1> QED
    BY <1>3, <1>4 DEF E2BInv

--------------------------------------------------------------------------------
(***************************************************************************)
(* The pool.                                                               *)
(***************************************************************************)

LEMMA PoolStep ==
    ASSUME E2BAssumed, E2BInv, E2BPart!Get \/ E2BPart!Release \/ E2BPart!Close \/ E2BPart!CloseAll \/ E2BPart!Expire
    PROVE  E2BInv'
<1>0. /\ E2BPart!Fresh \in E2BBox /\ E2BPart!Fresh.used /\ E2BPart!None \notin E2BPart!Sandboxes \cup E2BPart!Executors
      /\ \A s \in E2BPart!Sandboxes : cloud[s] \in E2BBox
    <2>1. E2BPart!None \notin E2BPart!Sandboxes \cup E2BPart!Executors
        BY DEF E2BPart!None, E2BPart!Sandboxes, E2BPart!Executors, E2BAssumed
    <2> QED
        BY <2>1, FreshBox DEF E2BInv, E2BPart!TypeOK, E2BBox
<1>1. CASE E2BPart!Get
    <2>1. PICK e \in E2BPart!Executors, s \in E2BPart!Sandboxes :
              /\ e2bPool = E2BPart!None /\ executor[e] = E2BPart!None /\ ~cloud[s].used
              /\ cloud' = [cloud EXCEPT ![s] = E2BPart!Fresh]
              /\ executor' = [executor EXCEPT ![e] = s]
              /\ e2bPool' = e /\ UNCHANGED <<remote, closing, leaked>>
        BY <1>1 DEF E2BPart!Get, E2BPart!Creates
    <2>2. E2BPart!TypeOK'
        BY <2>1, <1>0 DEF E2BInv, E2BPart!TypeOK, E2BBox
    <2>3. executor'[e] = s /\ \A f \in E2BPart!Executors : f # e => executor'[f] = executor[f]
        BY <2>1 DEF E2BInv, E2BPart!TypeOK
    <2>4. Made'
        BY <2>1, <2>3, <1>0 DEF E2BInv, E2BPart!TypeOK, Made
    <2>5. E2BPart!EverySandboxAccounted'
        BY <2>1, <2>3, <1>0 DEF E2BInv, E2BPart!TypeOK, Made, E2BPart!EverySandboxAccounted, E2BPart!Up
    <2>6. \A c \in RemoteCalls : remote[c].at # "idle" => executor'[remote[c].on] = executor[remote[c].on]
        BY <2>1, <2>3 DEF E2BInv, Made
    <2>7. \A t \in E2BPart!Sandboxes : cloud'[t] = cloud[t] \/ (cloud'[t] = E2BPart!Fresh /\ ~cloud[t].used)
        BY <2>1 DEF E2BInv, E2BPart!TypeOK
    <2> QED
        BY <2>1, <2>2, <2>4, <2>5, <2>6, <2>7, PoolOnly
<1>2. CASE E2BPart!Release
    <2>1. /\ e2bPool # E2BPart!None /\ e2bPool' = E2BPart!None /\ closing' = closing \cup {e2bPool}
          /\ UNCHANGED <<cloud, executor, remote, leaked>>
        BY <1>2 DEF E2BPart!Release
    <2>2. E2BPart!TypeOK' /\ Made'
        BY <2>1 DEF E2BInv, E2BPart!TypeOK, Made
    <2>3. E2BPart!EverySandboxAccounted'
        BY <2>1 DEF E2BInv, E2BPart!EverySandboxAccounted, E2BPart!Up
    <2> QED
        BY <2>1, <2>2, <2>3, PoolOnly
<1>3. ASSUME NEW d \in E2BPart!Sandboxes, cloud' = [cloud EXCEPT ![d].up = FALSE]
      PROVE  /\ cloud' \in [E2BPart!Sandboxes -> E2BBox]
             /\ ~cloud'[d].up
             /\ \A t \in E2BPart!Sandboxes : /\ cloud'[t].ran = cloud[t].ran
                                             /\ cloud'[t].used = cloud[t].used
                                             /\ cloud'[t].up => cloud[t].up /\ t # d
    <2> DEFINE x == [cloud[d] EXCEPT !.up = FALSE]
    <2>1. x \in E2BBox /\ ~x.up /\ x.ran = cloud[d].ran /\ x.used = cloud[d].used
        BY <1>0 DEF E2BBox
    <2>2. cloud' = [cloud EXCEPT ![d] = x]
        BY <1>3
    <2> HIDE DEF x
    <2> QED
        BY <2>1, <2>2, <1>0 DEF E2BInv, E2BPart!TypeOK, E2BBox
<1>4. CASE E2BPart!Close
    <2>1. PICK e \in closing :
              /\ closing' = closing \ {e}
              /\ \/ cloud' = [cloud EXCEPT ![executor[e]].up = FALSE] /\ leaked' = leaked
                 \/ cloud' = cloud /\ leaked' = leaked \cup {executor[e]}
        BY <1>4 DEF E2BPart!Close
    <2>2. UNCHANGED <<executor, e2bPool, remote>>
        BY <1>4 DEF E2BPart!Close
    <2>3. executor[e] \in E2BPart!Sandboxes
        BY DEF E2BInv, E2BPart!TypeOK, Made
    <2>4. CASE cloud' = [cloud EXCEPT ![executor[e]].up = FALSE] /\ leaked' = leaked
        <3>1. E2BPart!TypeOK' /\ Made'
            BY <2>1, <2>2, <2>3, <2>4, <1>3 DEF E2BInv, E2BPart!TypeOK, Made, E2BBox
        <3>2. E2BPart!EverySandboxAccounted'
            BY <2>1, <2>2, <2>3, <2>4, <1>3 DEF E2BInv, E2BPart!EverySandboxAccounted, E2BPart!Up
        <3> QED
            BY <2>2, <2>3, <2>4, <3>1, <3>2, <1>3, PoolOnly
    <2>5. CASE cloud' = cloud /\ leaked' = leaked \cup {executor[e]}
        <3>1. E2BPart!TypeOK' /\ Made'
            BY <2>1, <2>2, <2>3, <2>5 DEF E2BInv, E2BPart!TypeOK, Made
        <3>2. E2BPart!EverySandboxAccounted'
            BY <2>1, <2>2, <2>5 DEF E2BInv, E2BPart!EverySandboxAccounted, E2BPart!Up
        <3> QED
            BY <2>2, <2>5, <3>1, <3>2, PoolOnly
    <2> QED
        BY <2>1, <2>4, <2>5
<1>5. CASE E2BPart!CloseAll
    <2>1. /\ e2bPool # E2BPart!None /\ e2bPool' = E2BPart!None
          /\ cloud' = [cloud EXCEPT ![executor[e2bPool]].up = FALSE]
          /\ UNCHANGED <<executor, remote, closing, leaked>>
        BY <1>5 DEF E2BPart!CloseAll
    <2>2. executor[e2bPool] \in E2BPart!Sandboxes
        BY <2>1 DEF E2BInv, E2BPart!TypeOK, Made
    <2>3. E2BPart!TypeOK' /\ Made'
        BY <2>1, <2>2, <1>3 DEF E2BInv, E2BPart!TypeOK, Made, E2BBox
    <2>4. E2BPart!EverySandboxAccounted'
        BY <2>1, <2>2, <1>3 DEF E2BInv, E2BPart!EverySandboxAccounted, E2BPart!Up
    <2> QED
        BY <2>1, <2>2, <2>3, <2>4, <1>3, PoolOnly
<1>6. CASE E2BPart!Expire
    <2>1. PICK s \in E2BPart!Sandboxes : cloud' = [cloud EXCEPT ![s].up = FALSE]
        BY <1>6 DEF E2BPart!Expire
    <2>2. UNCHANGED <<executor, e2bPool, remote, closing, leaked>>
        BY <1>6 DEF E2BPart!Expire
    <2>3. E2BPart!TypeOK' /\ Made'
        BY <2>1, <2>2, <1>3 DEF E2BInv, E2BPart!TypeOK, Made, E2BBox
    <2>4. E2BPart!EverySandboxAccounted'
        BY <2>1, <2>2, <1>3 DEF E2BInv, E2BPart!EverySandboxAccounted, E2BPart!Up
    <2> QED
        BY <2>1, <2>2, <2>3, <2>4, <1>3, PoolOnly
<1> QED
    BY <1>1, <1>2, <1>4, <1>5, <1>6

--------------------------------------------------------------------------------
(***************************************************************************)
(* The calls.                                                              *)
(***************************************************************************)

\* A call moves on, and what runs and who points where stays.
LEMMA CallMoves ==
    ASSUME E2BAssumed, E2BInv, NEW c \in RemoteCalls, UNCHANGED <<cloud, executor, e2bPool, closing, leaked>>,
           NEW where \in {"first", "hydrate", "again", "done"}, NEW on \in E2BPart!Executors,
           remote' = [remote EXCEPT ![c] = [at |-> where, on |-> on]],
           executor[on] # E2BPart!None,
           where = "first" => \A s \in E2BPart!Sandboxes : cloud[s].ran[c] = 0,
           where \in {"hydrate", "again"} => cloud[executor[on]].ran[c] = 0
    PROVE  E2BInv'
<1>1. /\ remote'[c].at = where /\ remote'[c].on = on
      /\ \A d \in RemoteCalls : d # c => remote'[d] = remote[d]
    BY DEF E2BInv, E2BPart!TypeOK
<1>2. E2BPart!TypeOK'
    BY DEF E2BInv, E2BPart!TypeOK
<1>3. Untouched' /\ E2BPart!OncePerSandbox' /\ E2BPart!EverySandboxAccounted'
    BY DEF E2BInv, Untouched, E2BPart!OncePerSandbox, E2BPart!EverySandboxAccounted, E2BPart!Up
<1>4. NotYet' /\ Made'
    BY <1>1 DEF E2BInv, NotYet, Made, E2BPart!Pointed
<1> QED
    BY <1>2, <1>3, <1>4 DEF E2BInv

\* An attempt runs the call where it had not run, and leaves it needing a replacement or nothing.
LEMMA AttemptStep ==
    ASSUME E2BAssumed, E2BInv, NEW c \in RemoteCalls, NEW then \in {"recreate", "done"},
           remote[c].at \in {"first", "again"}, E2BPart!Attempt(c, then),
           UNCHANGED <<executor, e2bPool, closing, leaked>>
    PROVE  E2BInv'
<1> DEFINE s == E2BPart!Pointed(c)
<1>1. s \in E2BPart!Sandboxes /\ cloud[s].ran[c] = 0
    BY DEF E2BInv, E2BPart!TypeOK, Made, NotYet, E2BPart!Pointed
<1>2. PICK where \in {"recreate", "done"} : E2BPart!Goes(c, where)
    BY DEF E2BPart!Attempt
<1>3. /\ remote'[c].at = where /\ remote'[c].on = remote[c].on
      /\ \A d \in RemoteCalls : d # c => remote'[d] = remote[d]
      /\ remote' \in [RemoteCalls -> E2BCall]
    BY <1>2, GoesTo DEF E2BInv
<1>4. cloud' = cloud \/ (E2BPart!Up(s) /\ cloud' = [cloud EXCEPT ![s].ran[c] = 1])
    BY <1>1 DEF E2BPart!Attempt, E2BPart!Ran
<1> HIDE DEF s
<1>5. /\ cloud' \in [E2BPart!Sandboxes -> E2BBox]
      /\ \A t \in E2BPart!Sandboxes : /\ cloud'[t].up = cloud[t].up /\ cloud'[t].used = cloud[t].used
                                      /\ \A d \in RemoteCalls : d # c => cloud'[t].ran[d] = cloud[t].ran[d]
                                      /\ cloud'[t].ran[c] <= 1
                                      /\ ~cloud[t].used => cloud'[t] = cloud[t]
    <2>1. CASE cloud' = cloud
        BY <2>1 DEF E2BInv, E2BPart!TypeOK, E2BPart!OncePerSandbox, E2BBox
    <2>2. CASE E2BPart!Up(s) /\ cloud' = [cloud EXCEPT ![s].ran[c] = 1]
        <3> DEFINE done == [cloud[s].ran EXCEPT ![c] = 1]
                   x == [up |-> cloud[s].up, used |-> cloud[s].used, ran |-> done]
        <3>1. cloud \in [E2BPart!Sandboxes -> E2BBox] /\ cloud[s] \in E2BBox /\ cloud[s].ran \in [RemoteCalls -> 0 .. 2]
            BY <1>1 DEF E2BInv, E2BPart!TypeOK, E2BBox
        <3>2. done \in [RemoteCalls -> 0 .. 2] /\ done[c] = 1 /\ \A d \in RemoteCalls : d # c => done[d] = cloud[s].ran[d]
            BY <3>1
        <3>3. cloud' = [cloud EXCEPT ![s] = [cloud[s] EXCEPT !.ran = done]]
            BY <2>2
        <3> HIDE DEF done
        <3>4. x = [cloud[s] EXCEPT !.ran = done]
            BY <3>1 DEF E2BBox
        <3>5. x \in E2BBox /\ x.up = cloud[s].up /\ x.used = cloud[s].used /\ x.ran = done
            BY <3>1, <3>2 DEF E2BBox
        <3> HIDE DEF x
        <3>6. /\ cloud'[s] = x /\ \A t \in E2BPart!Sandboxes : t # s => cloud'[t] = cloud[t]
              /\ cloud' \in [E2BPart!Sandboxes -> E2BBox]
            BY <3>1, <3>3, <3>4, <3>5, <1>1
        <3>7. cloud[s].used
            BY <2>2, <1>1 DEF E2BInv, Untouched, E2BPart!Up
        <3> SUFFICES ASSUME NEW t \in E2BPart!Sandboxes
                     PROVE  /\ cloud'[t].up = cloud[t].up /\ cloud'[t].used = cloud[t].used
                            /\ \A d \in RemoteCalls : d # c => cloud'[t].ran[d] = cloud[t].ran[d]
                            /\ cloud'[t].ran[c] <= 1
                            /\ ~cloud[t].used => cloud'[t] = cloud[t]
            BY <3>6
        <3>8. CASE t = s
            <4>1. /\ cloud'[t] = x /\ cloud[t].used
                  /\ x.up = cloud[t].up /\ x.used = cloud[t].used /\ x.ran = done
                BY <3>5, <3>6, <3>7, <3>8
            <4>2. done[c] <= 1 /\ \A d \in RemoteCalls : d # c => done[d] = cloud[t].ran[d]
                BY <3>2, <3>8
            <4> QED
                BY <4>1, <4>2
        <3>9. CASE t # s
            <4>1. cloud[t].ran[c] <= 1
                BY DEF E2BInv, E2BPart!OncePerSandbox
            <4> QED
                BY <3>6, <3>9, <4>1
        <3> QED
            BY <3>8, <3>9
    <2> QED
        BY <1>4, <2>1, <2>2
<1>6. E2BPart!TypeOK'
    BY <1>3, <1>5 DEF E2BInv, E2BPart!TypeOK, E2BBox, E2BCall
<1>7. Untouched' /\ E2BPart!EverySandboxAccounted'
    BY <1>5 DEF E2BInv, Untouched, E2BPart!EverySandboxAccounted, E2BPart!Up
<1>8. E2BPart!OncePerSandbox'
    BY <1>5 DEF E2BInv, E2BPart!OncePerSandbox
<1>9. Made'
    BY <1>3 DEF E2BInv, Made
<1>10. NotYet'
    <2> SUFFICES ASSUME NEW d \in RemoteCalls
                 PROVE  /\ remote'[d].at \in {"idle", "first"} =>
                               \A t \in E2BPart!Sandboxes : cloud'[t].ran[d] = 0
                        /\ remote'[d].at \in {"hydrate", "again"} => cloud'[E2BPart!Pointed(d)'].ran[d] = 0
        BY DEF NotYet
    <2>1. CASE d = c
        BY <2>1, <1>3
    <2>2. CASE d # c
        <3>1. E2BPart!Pointed(d)' = E2BPart!Pointed(d)
            BY <2>2, <1>3 DEF E2BPart!Pointed
        <3>2. remote[d].at # "idle" => E2BPart!Pointed(d) \in E2BPart!Sandboxes
            BY DEF E2BInv, E2BPart!TypeOK, Made, E2BPart!Pointed
        <3> QED
            BY <2>2, <3>1, <3>2, <1>3, <1>5 DEF E2BInv, NotYet
    <2> QED
        BY <2>1, <2>2
<1> QED
    BY <1>6, <1>7, <1>8, <1>9, <1>10 DEF E2BInv

\* The replacement: a sandbox in which nothing ran, under the same executor.
LEMMA RecreateStep ==
    ASSUME E2BAssumed, E2BInv, NEW c \in RemoteCalls, E2BPart!Recreate(c)
    PROVE  E2BInv'
<1> DEFINE e == remote[c].on
<1>1. e \in E2BPart!Executors /\ executor[e] \in E2BPart!Sandboxes /\ remote[c].at = "recreate"
      /\ UNCHANGED <<e2bPool, closing>>
    BY DEF E2BPart!Recreate, E2BInv, E2BPart!TypeOK, Made
<1>2. CASE E2BPart!Goes(c, "done") /\ UNCHANGED <<cloud, executor, leaked>>
    <2>1. remote' = [remote EXCEPT ![c] = [at |-> "done", on |-> e]]
        BY <1>2, GoesTo DEF E2BInv
    <2>2. executor[e] # E2BPart!None
        BY <1>1 DEF E2BPart!None, E2BPart!Sandboxes, E2BAssumed
    <2> HIDE DEF e
    <2> QED
        BY <2>1, <2>2, <1>1, <1>2, CallMoves
<1>3. ASSUME NEW s \in E2BPart!Sandboxes, E2BPart!Creates(s), cloud' = [cloud EXCEPT ![s] = E2BPart!Fresh],
             executor' = [executor EXCEPT ![e] = s],
             leaked' = leaked \cup {E2BPart!Pointed(c)} \cup (IF e \in {e2bPool} \cup closing THEN {} ELSE {s}),
             E2BPart!Goes(c, "hydrate")
      PROVE  E2BInv'
    <2>1. E2BPart!Fresh \in E2BBox /\ E2BPart!Fresh.used /\ E2BPart!Fresh.ran = Zero
        BY FreshBox
    <2>2. ~cloud[s].used /\ cloud[s].ran = Zero
        BY <1>3 DEF E2BPart!Creates, E2BInv, Untouched
    <2>3. /\ cloud'[s] = E2BPart!Fresh /\ \A t \in E2BPart!Sandboxes : t # s => cloud'[t] = cloud[t]
          /\ executor'[e] = s /\ \A f \in E2BPart!Executors : f # e => executor'[f] = executor[f]
        BY <1>1, <1>3 DEF E2BInv, E2BPart!TypeOK
    <2>4. \A t \in E2BPart!Sandboxes : cloud'[t].ran = cloud[t].ran
        BY <2>1, <2>2, <2>3
    <2>5. /\ remote'[c].at = "hydrate" /\ remote'[c].on = e
          /\ \A d \in RemoteCalls : d # c => remote'[d] = remote[d]
          /\ remote' \in [RemoteCalls -> E2BCall]
        BY <1>3, GoesTo DEF E2BInv
    <2>6. E2BPart!TypeOK'
        <3>1. leaked' \subseteq E2BPart!Sandboxes
            BY <1>1, <1>3 DEF E2BInv, E2BPart!TypeOK, E2BPart!Pointed
        <3> QED
            BY <1>1, <1>3, <2>1, <2>5, <3>1 DEF E2BInv, E2BPart!TypeOK, E2BBox, E2BCall
    <2>7. Untouched' /\ E2BPart!OncePerSandbox'
        BY <2>1, <2>3, <2>4 DEF E2BInv, Untouched, E2BPart!OncePerSandbox
    <2>8. Made'
        <3>1. s # E2BPart!None
            BY DEF E2BPart!None, E2BPart!Sandboxes, E2BAssumed
        <3> QED
            BY <3>1, <1>1, <2>3, <2>5 DEF E2BInv, E2BPart!TypeOK, Made
    <2>9. NotYet'
        <3> SUFFICES ASSUME NEW d \in RemoteCalls
                     PROVE  /\ remote'[d].at \in {"idle", "first"} =>
                                   \A t \in E2BPart!Sandboxes : cloud'[t].ran[d] = 0
                            /\ remote'[d].at \in {"hydrate", "again"} => cloud'[E2BPart!Pointed(d)'].ran[d] = 0
            BY DEF NotYet
        <3>1. CASE remote'[d].at \in {"hydrate", "again"}
            <4>1. remote'[d].on \in E2BPart!Executors /\ E2BPart!Pointed(d)' = executor'[remote'[d].on]
                BY <3>1, <2>8 DEF Made, E2BPart!Pointed
            <4>2. CASE remote'[d].on = e
                <5>1. E2BPart!Pointed(d)' = s
                    BY <4>1, <4>2, <2>3
                <5>2. cloud'[s].ran[d] = 0
                    BY <2>1, <2>3 DEF Zero
                <5> QED
                    BY <3>1, <5>1, <5>2
            <4>3. CASE remote'[d].on # e
                <5>1. d # c /\ E2BPart!Pointed(d)' = E2BPart!Pointed(d) /\ E2BPart!Pointed(d) \in E2BPart!Sandboxes
                    BY <3>1, <4>1, <4>3, <2>3, <2>5 DEF E2BPart!Pointed, E2BInv, E2BPart!TypeOK, Made
                <5> QED
                    BY <3>1, <5>1, <2>4, <2>5 DEF E2BInv, NotYet
            <4> QED
                BY <4>2, <4>3
        <3>2. CASE remote'[d].at \in {"idle", "first"}
            BY <3>2, <2>4, <2>5 DEF E2BInv, NotYet
        <3> QED
            BY <3>1, <3>2
    <2>10. E2BPart!EverySandboxAccounted'
        <3> SUFFICES ASSUME NEW t \in E2BPart!Sandboxes, cloud'[t].up
                     PROVE  \/ \E f \in closing \cup ({e2bPool} \ {E2BPart!None}) : executor'[f] = t
                            \/ t \in leaked'
            BY <1>1 DEF E2BPart!EverySandboxAccounted, E2BPart!Up
        <3>1. CASE t = s
            <4>1. e # E2BPart!None
                BY <1>1 DEF E2BPart!None, E2BPart!Executors, E2BAssumed
            <4> QED
                BY <3>1, <4>1, <1>3, <2>3
        <3>2. CASE t # s
            <4>1. E2BPart!Up(t)
                BY <3>2, <2>3 DEF E2BPart!Up
            <4>2. CASE t \in leaked
                BY <4>2, <1>3
            <4>3. ASSUME NEW f \in closing \cup ({e2bPool} \ {E2BPart!None}), executor[f] = t
                  PROVE  executor'[f] = t \/ t \in leaked'
                BY <4>3, <1>3, <2>3 DEF E2BInv, E2BPart!TypeOK, E2BPart!Pointed
            <4> QED
                BY <4>1, <4>2, <4>3 DEF E2BInv, E2BPart!EverySandboxAccounted
        <3> QED
            BY <3>1, <3>2
    <2> QED
        BY <2>6, <2>7, <2>8, <2>9, <2>10 DEF E2BInv
<1> QED
    BY <1>2, <1>3 DEF E2BPart!Recreate

LEMMA CallStep ==
    ASSUME E2BAssumed, E2BInv, NEW c \in RemoteCalls,
           E2BPart!Begin(c) \/ E2BPart!TryOnce(c) \/ E2BPart!Recreate(c) \/ E2BPart!Hydrate(c) \/ E2BPart!Retry(c)
    PROVE  E2BInv'
<1>1. CASE E2BPart!Begin(c)
    <2>1. /\ remote' = [remote EXCEPT ![c] = [at |-> "first", on |-> e2bPool]]
          /\ UNCHANGED <<cloud, executor, e2bPool, closing, leaked>>
          /\ e2bPool \in E2BPart!Executors /\ executor[e2bPool] # E2BPart!None
          /\ \A s \in E2BPart!Sandboxes : cloud[s].ran[c] = 0
        BY <1>1 DEF E2BPart!Begin, E2BInv, E2BPart!TypeOK, Made, NotYet
    <2> QED
        BY <2>1, CallMoves
<1>2. CASE E2BPart!TryOnce(c)
    BY <1>2, AttemptStep DEF E2BPart!TryOnce
<1>3. CASE E2BPart!Recreate(c)
    BY <1>3, RecreateStep
<1>4. CASE E2BPart!Hydrate(c)
    <2>1. remote' = [remote EXCEPT ![c] = [at |-> "again", on |-> remote[c].on]]
        BY <1>4, GoesTo DEF E2BPart!Hydrate, E2BInv
    <2>2. /\ UNCHANGED <<cloud, executor, e2bPool, closing, leaked>>
          /\ remote[c].on \in E2BPart!Executors /\ executor[remote[c].on] # E2BPart!None
          /\ cloud[executor[remote[c].on]].ran[c] = 0
        BY <1>4 DEF E2BPart!Hydrate, E2BInv, Made, NotYet, E2BPart!Pointed
    <2> QED
        BY <2>1, <2>2, CallMoves
<1>5. CASE E2BPart!Retry(c)
    BY <1>5, AttemptStep DEF E2BPart!Retry
<1> QED
    BY <1>1, <1>2, <1>3, <1>4, <1>5

--------------------------------------------------------------------------------
LEMMA E2BStep == ASSUME E2BAssumed PROVE E2BInv /\ [E2BPart!Next]_(E2BPart!vars) => E2BInv'
<1> SUFFICES ASSUME E2BInv, [E2BPart!Next]_(E2BPart!vars) PROVE E2BInv'
    OBVIOUS
<1>1. CASE UNCHANGED E2BPart!vars
    BY <1>1 DEF E2BPart!vars, E2BInv, E2BPart!TypeOK, Untouched, NotYet, Made, E2BPart!Pointed, E2BPart!OncePerSandbox,
                E2BPart!EverySandboxAccounted, E2BPart!Up
<1> QED
    BY <1>1, PoolStep, CallStep DEF E2BPart!Next

--------------------------------------------------------------------------------
(***************************************************************************)
(* Accounts.  Nothing of a deleted account comes back, for any number of   *)
(* requests that read, wait and write back what they read.  A request      *)
(* writes whole records (ReadsWhole), an update only to an account that is *)
(* there, and a new account takes an id that nobody has or had.            *)
(***************************************************************************)
WholeAccount == [role : {"user", "super_admin"}, status : {"active", "disabled"}, password : {0, 1}]

\* What a request has read is what it writes back: a whole account, or an agent's owner.
ReadsWhole ==
    /\ DOMAIN request = AccountRequests
    /\ \A r \in AccountRequests :
        /\ request[r].op \in {"update", "password"} => request[r].read \in WholeAccount
        /\ request[r].op = "saveAgent" => request[r].on \in AccountAgents

AccountsInv ==
    /\ AccountsPart!TypeOK /\ AccountsPart!DeletedStayDeleted /\ ReadsWhole
    /\ \A u \in DOMAIN accounts : accounts[u] \in WholeAccount

LEMMA AccountsInit == ASSUME MaxAccountRequests \in Nat PROVE AccountsPart!Init => AccountsInv
    BY DEF AccountsPart!Init, AccountsInv, AccountsPart!TypeOK, AccountsPart!DeletedStayDeleted, ReadsWhole, AccountsPart!Idle

\* A request that moves on leaves the others as they are.
LEMMA RequestSet ==
    ASSUME ReadsWhole, NEW r \in AccountRequests, NEW x, AccountsPart!Set(r, x),
           x.op \in {"update", "password"} => x.read \in WholeAccount,
           x.op = "saveAgent" => x.on \in AccountAgents
    PROVE  ReadsWhole'
    BY DEF ReadsWhole, AccountsPart!Set

LEMMA RequestDone ==
    ASSUME ReadsWhole, NEW r \in AccountRequests, AccountsPart!Done(r)
    PROVE  ReadsWhole'
<1>1. AccountsPart!Set(r, AccountsPart!Idle) /\ AccountsPart!Idle.op = "idle"
    BY DEF AccountsPart!Done, AccountsPart!Idle
<1> QED
    BY <1>1, RequestSet

\* An account is made with an id that nobody has or had.
LEMMA AccountMade ==
    ASSUME AccountsInv, NEW u, AccountsPart!New(u), NEW x \in {"user", "super_admin"},
           accounts' = AccountsPart!WithAccount(u, AccountsPart!Account(x)), erased' = erased
    PROVE  /\ AccountsPart!DeletedStayDeleted' /\ DOMAIN accounts' \subseteq AccountUsers
           /\ \A v \in DOMAIN accounts' : accounts'[v] \in WholeAccount
    BY DEF AccountsInv, AccountsPart!TypeOK, AccountsPart!New, AccountsPart!WithAccount, AccountsPart!Account, WholeAccount, AccountsPart!DeletedStayDeleted

\* The row written back is an account, and no account is there that was not.
LEMMA AccountUpdated ==
    ASSUME AccountsInv, NEW u, NEW record \in WholeAccount, AccountsPart!UpdateUser(u, record), erased' = erased
    PROVE  /\ AccountsPart!DeletedStayDeleted' /\ DOMAIN accounts' \subseteq AccountUsers
           /\ \A v \in DOMAIN accounts' : accounts'[v] \in WholeAccount
    BY DEF AccountsInv, AccountsPart!TypeOK, AccountsPart!UpdateUser, AccountsPart!Holds, AccountsPart!DeletedStayDeleted

\* What has to be shown after a step.
AccountsMeant ==
    /\ DOMAIN accounts \subseteq AccountUsers /\ DOMAIN owner \subseteq AccountAgents /\ begun \in 0 .. MaxAccountRequests
    /\ \A v \in DOMAIN accounts : accounts[v] \in WholeAccount
    /\ AccountsPart!DeletedStayDeleted /\ ReadsWhole

LEMMA AccountsTyped == AccountsMeant' => AccountsInv'
    BY DEF AccountsMeant, AccountsInv, AccountsPart!TypeOK, WholeAccount

LEMMA AccountBegins ==
    ASSUME MaxAccountRequests \in Nat, AccountsInv, NEW r \in AccountRequests,
           AccountsPart!CountUsers(r) \/ AccountsPart!Authenticate(r) \/ AccountsPart!Begin(r)
    PROVE  AccountsInv'
<1>1. begun' \in 0 .. MaxAccountRequests /\ UNCHANGED <<accounts, owner, accountRows, erased>>
    <2>1. begun < MaxAccountRequests /\ begun' = begun + 1 /\ UNCHANGED <<accounts, owner, accountRows, erased>>
        BY DEF AccountsPart!CountUsers, AccountsPart!Authenticate, AccountsPart!Begin
    <2> QED
        BY <2>1 DEF AccountsInv, AccountsPart!TypeOK
<1>2. ReadsWhole'
    <2>1. ASSUME NEW w, AccountsPart!Set(r, [AccountsPart!Idle EXCEPT !.op = w]), w \notin {"update", "password", "saveAgent"} PROVE ReadsWhole'
        <3>1. [AccountsPart!Idle EXCEPT !.op = w].op = w
            BY DEF AccountsPart!Idle
        <3> QED
            BY <2>1, <3>1, RequestSet DEF AccountsInv
    <2>2. ASSUME NEW u, AccountsPart!Set(r, [AccountsPart!Idle EXCEPT !.op = "login", !.who = u]) PROVE ReadsWhole'
        <3>1. [AccountsPart!Idle EXCEPT !.op = "login", !.who = u].op = "login"
            BY DEF AccountsPart!Idle
        <3> QED
            BY <2>2, <3>1, RequestSet DEF AccountsInv
    <2>3. CASE AccountsPart!CountUsers(r)
        BY <2>3, <2>1 DEF AccountsPart!CountUsers
    <2>4. CASE AccountsPart!Authenticate(r)
        BY <2>4, <2>2 DEF AccountsPart!Authenticate
    <2>5. CASE AccountsPart!Begin(r)
        <3>1. PICK w, who, x, y : /\ AccountsPart!Set(r, [op |-> w, who |-> who, on |-> x, read |-> y])
                                  /\ w \in {"update", "password"} => y \in WholeAccount
                                  /\ w = "saveAgent" => x \in AccountAgents
            BY <2>5 DEF AccountsPart!Begin, AccountsPart!AdminOps, AccountsPart!AgentOps, AccountsInv, AccountsPart!TypeOK
        <3> DEFINE rec == [op |-> w, who |-> who, on |-> x, read |-> y]
        <3>2. rec.op = w /\ rec.read = y /\ rec.on = x
            OBVIOUS
        <3> HIDE DEF rec
        <3> QED
            BY <3>1, <3>2, RequestSet DEF AccountsInv, rec
    <2> QED
        BY <2>3, <2>4, <2>5
<1> QED
    BY <1>1, <1>2, AccountsTyped DEF AccountsMeant, AccountsInv, AccountsPart!TypeOK, AccountsPart!DeletedStayDeleted

LEMMA AccountStep ==
    ASSUME AccountsInv, NEW r \in AccountRequests,
           AccountsPart!Onboard(r) \/ AccountsPart!Update(r) \/ AccountsPart!SetPassword(r) \/ AccountsPart!DeleteUser(r)
    PROVE  AccountsInv'
<1>1. begun' = begun /\ AccountsPart!Done(r)
    BY DEF AccountsPart!Onboard, AccountsPart!Update, AccountsPart!SetPassword, AccountsPart!DeleteUser
<1>2. ReadsWhole'
    BY <1>1, RequestDone DEF AccountsInv
<1>3. CASE AccountsPart!Onboard(r)
    <2>1. DOMAIN owner' \subseteq AccountAgents
        BY <1>3 DEF AccountsPart!Onboard, AccountsPart!WithOwner, AccountsInv, AccountsPart!TypeOK
    <2>2. /\ AccountsPart!DeletedStayDeleted' /\ DOMAIN accounts' \subseteq AccountUsers
          /\ \A v \in DOMAIN accounts' : accounts'[v] \in WholeAccount
        <3>1. CASE UNCHANGED <<accounts, erased>>
            BY <3>1 DEF AccountsInv, AccountsPart!TypeOK, AccountsPart!DeletedStayDeleted
        <3>2. CASE \E u \in AccountUsers : AccountsPart!New(u) /\ accounts' = AccountsPart!WithAccount(u, AccountsPart!Account("super_admin")) /\ erased' = erased
            BY <3>2, AccountMade
        <3> QED
            BY <1>3, <3>1, <3>2 DEF AccountsPart!Onboard
    <2> QED
        BY <1>1, <1>2, <2>1, <2>2, AccountsTyped DEF AccountsMeant, AccountsInv, AccountsPart!TypeOK
<1>4. CASE AccountsPart!Update(r) \/ AccountsPart!SetPassword(r)
    <2>1. PICK record \in WholeAccount : AccountsPart!UpdateUser(request[r].on, record)
        <3>1. request[r].read \in WholeAccount
            BY <1>4 DEF AccountsPart!Update, AccountsPart!SetPassword, AccountsPart!Turn, AccountsInv, ReadsWhole
        <3>2. \A x \in {"user", "super_admin"} : [request[r].read EXCEPT !.role = x] \in WholeAccount
            BY <3>1 DEF WholeAccount
        <3>3. \A x \in {"active", "disabled"} : [request[r].read EXCEPT !.status = x] \in WholeAccount
            BY <3>1 DEF WholeAccount
        <3>4. [request[r].read EXCEPT !.password = 1] \in WholeAccount
            BY <3>1 DEF WholeAccount
        <3>5. \/ \E x \in {"user", "super_admin"} : AccountsPart!UpdateUser(request[r].on, [request[r].read EXCEPT !.role = x])
              \/ \E x \in {"active", "disabled"} : AccountsPart!UpdateUser(request[r].on, [request[r].read EXCEPT !.status = x])
              \/ AccountsPart!UpdateUser(request[r].on, [request[r].read EXCEPT !.password = 1])
            BY <1>4, Zenon DEF AccountsPart!Update, AccountsPart!SetPassword
        <3> QED
            BY <3>2, <3>3, <3>4, <3>5, Zenon
    <2>2. UNCHANGED <<owner, erased>>
        BY <1>4 DEF AccountsPart!Update, AccountsPart!SetPassword
    <2> QED
        BY <1>1, <1>2, <2>1, <2>2, AccountUpdated, AccountsTyped DEF AccountsMeant, AccountsInv, AccountsPart!TypeOK
<1>5. CASE AccountsPart!DeleteUser(r)
    <2> DEFINE u == request[r].on
    <2>1. /\ accounts' = [x \in DOMAIN accounts \ {u} |-> accounts[x]]
          /\ DOMAIN owner' \subseteq DOMAIN owner
          /\ erased' = erased \cup {u}
        BY <1>5 DEF AccountsPart!DeleteUser, AccountsPart!Cascade
    <2> QED
        BY <1>1, <1>2, <2>1, AccountsTyped DEF AccountsMeant, AccountsInv, AccountsPart!TypeOK, AccountsPart!DeletedStayDeleted
<1> QED
    BY <1>3, <1>4, <1>5

LEMMA AccountElse ==
    ASSUME AccountsInv, NEW r \in AccountRequests,
           \/ AccountsPart!IssueSession(r) \/ AccountsPart!SaveAgent(r) \/ AccountsPart!CreateAgent(r) \/ AccountsPart!DeleteAgent(r)
           \/ AccountsPart!CreateKey(r) \/ AccountsPart!SetAgents(r) \/ AccountsPart!DeleteKey(r) \/ AccountsPart!RevokeSession(r)
    PROVE  AccountsInv'
<1>1. AccountsPart!Done(r) /\ UNCHANGED <<accounts, begun, erased>>
    BY DEF AccountsPart!IssueSession, AccountsPart!SaveAgent, AccountsPart!CreateAgent, AccountsPart!DeleteAgent, AccountsPart!CreateKey, AccountsPart!SetAgents, AccountsPart!DeleteKey, AccountsPart!RevokeSession
<1>2. DOMAIN owner' \subseteq AccountAgents
    <2>1. CASE AccountsPart!SaveAgent(r)
        BY <2>1 DEF AccountsPart!SaveAgent, AccountsPart!Turn, AccountsPart!WithOwner, AccountsInv, ReadsWhole, AccountsPart!TypeOK
    <2>2. CASE AccountsPart!CreateAgent(r)
        BY <2>2 DEF AccountsPart!CreateAgent, AccountsPart!WithOwner, AccountsInv, AccountsPart!TypeOK
    <2>3. CASE AccountsPart!DeleteAgent(r)
        BY <2>3 DEF AccountsPart!DeleteAgent, AccountsInv, AccountsPart!TypeOK
    <2>4. CASE UNCHANGED owner
        BY <2>4 DEF AccountsInv, AccountsPart!TypeOK
    <2> QED
        BY <2>1, <2>2, <2>3, <2>4 DEF AccountsPart!IssueSession, AccountsPart!CreateKey, AccountsPart!SetAgents, AccountsPart!DeleteKey, AccountsPart!RevokeSession
<1>3. ReadsWhole'
    BY <1>1, RequestDone DEF AccountsInv
<1> QED
    BY <1>1, <1>2, <1>3, AccountsTyped DEF AccountsMeant, AccountsInv, AccountsPart!TypeOK, AccountsPart!DeletedStayDeleted

LEMMA AccountsStep == ASSUME MaxAccountRequests \in Nat PROVE AccountsInv /\ [AccountsPart!Next]_(AccountsPart!vars) => AccountsInv'
<1> SUFFICES ASSUME AccountsInv, [AccountsPart!Next]_(AccountsPart!vars) PROVE AccountsInv'
    OBVIOUS
<1>1. CASE UNCHANGED AccountsPart!vars
    BY <1>1 DEF AccountsPart!vars, AccountsInv, AccountsPart!TypeOK, AccountsPart!DeletedStayDeleted, ReadsWhole
<1>2. CASE AccountsPart!CreateUser
    <2>1. PICK u \in AccountUsers, x \in {"user", "super_admin"} : AccountsPart!New(u) /\ accounts' = AccountsPart!WithAccount(u, AccountsPart!Account(x))
        BY <1>2 DEF AccountsPart!CreateUser
    <2>2. UNCHANGED <<owner, request, erased>> /\ begun' \in 0 .. MaxAccountRequests
        BY <1>2 DEF AccountsPart!CreateUser, AccountsInv, AccountsPart!TypeOK
    <2>3. ReadsWhole' /\ DOMAIN owner' \subseteq AccountAgents
        BY <2>2 DEF AccountsInv, AccountsPart!TypeOK, ReadsWhole
    <2>4. /\ AccountsPart!DeletedStayDeleted' /\ DOMAIN accounts' \subseteq AccountUsers
          /\ \A v \in DOMAIN accounts' : accounts'[v] \in WholeAccount
        BY <2>1, <2>2, AccountMade
    <2> QED
        BY <2>2, <2>3, <2>4, AccountsTyped DEF AccountsMeant
<1>3. CASE AccountsPart!Converse
    BY <1>3 DEF AccountsPart!Converse, AccountsInv, AccountsPart!TypeOK, AccountsPart!DeletedStayDeleted, ReadsWhole
<1> QED
    BY <1>1, <1>2, <1>3, AccountBegins, AccountStep, AccountElse DEF AccountsPart!Next

LEMMA AccountsFinal == AccountsInv => AccountsPart!AccountDeletionIsFinal
    BY DEF AccountsInv, AccountsPart!AccountDeletionIsFinal, AccountsPart!DeletedStayDeleted, AccountsPart!OrphansAdmitNobody, AccountsPart!Resolve, AccountsPart!ResolveSession, AccountsPart!ResolveBearer, AccountsPart!Active, AccountsPart!Holds

--------------------------------------------------------------------------------
(***************************************************************************)
(* Cron.  A job fires once for a time, for any number of processes and     *)
(* jobs.  While no lock expired under a process that fires (doubted), one  *)
(* process at a time is at a job (FiresLocked), and the times a job has    *)
(* fired for lie before the time it is due next or about to fire for       *)
(* (FiresForward).                                                         *)
(***************************************************************************)
JobRow == [next : Int, locked : Int]
Poller == [pc : {"rest", "next", "send", "update"}, now : Int, due : SUBSET Jobs, job : Jobs \cup {CronPart!NoJob}]

CronTyped ==
    /\ clock \in 0 .. MaxTime
    /\ jobs \in [Jobs -> JobRow]
    /\ poller \in [CronPods -> Poller]
    /\ messages \in Seq(Jobs \X Nat)
    /\ doubted \subseteq Jobs

\* A poll's time is a time that has come, and so are the times of the messages and the rows.
Timely ==
    /\ \A p \in CronPods : /\ poller[p].now <= clock
                           /\ poller[p].pc # "rest" => poller[p].now >= 0
                           /\ poller[p].pc \in {"send", "update"} => poller[p].job \in Jobs
    /\ \A i \in 1 .. Len(messages) : messages[i][2] <= clock
    /\ \A j \in Jobs : jobs[j].next <= clock + 1 /\ jobs[j].locked <= clock

\* A job that fires is locked, and one process fires it.
FiresLocked ==
    \A j \in Jobs \ doubted :
        /\ \A p \in CronPods : CronPart!Firing(p, j) => jobs[j].locked # CronPart!Never
        /\ \A p, q \in CronPods : CronPart!Firing(p, j) /\ CronPart!Firing(q, j) => p = q

\* A job that has fired for a time is locked or due later only; who is about to fire it does so
\* for a later time.
FiresForward ==
    \A j \in Jobs \ doubted : \A i \in 1 .. Len(messages) : messages[i][1] = j =>
        /\ jobs[j].locked = CronPart!Never => messages[i][2] < jobs[j].next
        /\ \A p \in CronPods : CronPart!Firing(p, j) => /\ messages[i][2] <= poller[p].now
                                                        /\ poller[p].pc = "send" => messages[i][2] < poller[p].now

NoneTwice ==
    \A i, k \in 1 .. Len(messages) :
        messages[i] = messages[k] /\ messages[i][1] \notin doubted => i = k

CronInv == CronTyped /\ Timely /\ FiresLocked /\ FiresForward /\ NoneTwice

LEMMA CronInit == ASSUME MaxTime \in Nat PROVE CronPart!Init => CronInv
<1> SUFFICES ASSUME CronPart!Init PROVE CronInv
    OBVIOUS
<1>1. CronPart!NoRow \in JobRow /\ CronPart!Resting \in Poller /\ CronPart!Resting.pc = "rest" /\ CronPart!Resting.now = -1 /\ CronPart!NoRow.next = -1 /\ CronPart!NoRow.locked = -1
    BY DEF CronPart!NoRow, JobRow, CronPart!Resting, Poller, CronPart!Never
<1> HIDE DEF CronPart!NoRow, CronPart!Resting
<1>2. CronTyped
    BY <1>1 DEF CronPart!Init, CronTyped
<1> QED
    BY <1>1, <1>2 DEF CronPart!Init, CronInv, Timely, FiresLocked, FiresForward, NoneTwice, CronPart!Firing

\* A step of one process that sends nothing and leaves the rows.
LEMMA PollerMoves ==
    ASSUME CronInv, NEW p \in CronPods, NEW x \in Poller, poller' = [poller EXCEPT ![p] = x],
           x.now <= clock, x.pc # "rest" => x.now >= 0,
           x.pc \in {"send", "update"} => poller[p].pc = x.pc /\ x.job = poller[p].job /\ x.now = poller[p].now,
           UNCHANGED <<clock, jobs, messages, doubted>>
    PROVE  CronInv'
<1>1. poller' \in [CronPods -> Poller] /\ poller'[p] = x /\ \A q \in CronPods : q # p => poller'[q] = poller[q]
    BY DEF CronInv, CronTyped
<1>2. CronTyped'
    BY <1>1 DEF CronInv, CronTyped
<1>3. Timely'
    BY <1>1 DEF CronInv, CronTyped, Timely, Poller
<1>4. \A q \in CronPods : \A j : CronPart!Firing(q, j)' => CronPart!Firing(q, j) /\ poller'[q].now = poller[q].now /\ poller'[q].pc = poller[q].pc
    BY <1>1 DEF CronPart!Firing
<1>5. FiresLocked' /\ FiresForward' /\ NoneTwice'
    BY <1>4 DEF CronInv, FiresLocked, FiresForward, NoneTwice
<1> QED
    BY <1>2, <1>3, <1>5 DEF CronInv

LEMMA JobStep ==
    ASSUME CronInv, NEW j \in Jobs, CronPart!SaveCronJob(j) \/ CronPart!DeleteCronJob(j)
    PROVE  CronInv'
<1> DEFINE row == IF CronPart!SaveCronJob(j) THEN [next |-> clock, locked |-> CronPart!Never] ELSE CronPart!Deleted
<1>1. /\ jobs' = [jobs EXCEPT ![j] = row] /\ UNCHANGED <<clock, poller, messages, doubted>>
      /\ row \in JobRow /\ row.next <= clock + 1 /\ row.locked <= clock
    BY DEF CronPart!SaveCronJob, CronPart!DeleteCronJob, CronPart!Deleted, CronPart!Never, JobRow, CronInv, CronTyped
<1>2. /\ jobs' \in [Jobs -> JobRow] /\ jobs'[j] = row
      /\ \A k \in Jobs : k # j => jobs'[k] = jobs[k]
    BY <1>1 DEF CronInv, CronTyped
<1>3. row.locked = CronPart!Never => jobs[j].locked = CronPart!Never /\ jobs[j].next = CronPart!Never
    BY DEF CronPart!SaveCronJob, CronPart!NoRow, CronPart!Deleted, CronPart!Never
<1>a. row.locked = CronPart!Never => CronPart!SaveCronJob(j) /\ row.next = clock
    BY DEF CronPart!Deleted, CronPart!Never
<1> HIDE DEF row
<1>4. CronTyped' /\ Timely'
    BY <1>1, <1>2 DEF CronInv, CronTyped, Timely
<1>5. FiresLocked'
    <2>1. \A k \in Jobs, p \in CronPods : CronPart!Firing(p, k)' <=> CronPart!Firing(p, k)
        BY <1>1 DEF CronPart!Firing
    <2>2. \A k \in Jobs : jobs'[k].locked = CronPart!Never => jobs[k].locked = CronPart!Never
        BY <1>2, <1>3
    <2> QED
        BY <1>1, <2>1, <2>2 DEF CronInv, FiresLocked
<1>6. FiresForward'
    <2>1. \A i \in 1 .. Len(messages) : messages[i] \in Jobs \X Nat
        BY DEF CronInv, CronTyped
    <2>2. \A p \in CronPods, k \in Jobs : CronPart!Firing(p, k)' <=> CronPart!Firing(p, k)
        BY <1>1 DEF CronPart!Firing
    <2>3. ASSUME NEW k \in Jobs \ doubted, NEW i \in 1 .. Len(messages), messages[i][1] = k, jobs'[k].locked = CronPart!Never
          PROVE  messages[i][2] < jobs'[k].next
        <3>1. CASE k # j
            BY <2>3, <3>1, <1>2 DEF CronInv, FiresForward
        <3>2. CASE k = j
            <4>1. messages[i][2] < CronPart!Never /\ messages[i][2] \in Nat
                BY <2>3, <3>2, <1>2, <1>3, <2>1 DEF CronInv, FiresForward
            <4> QED
                BY <4>1 DEF CronPart!Never
        <3> QED
            BY <3>1, <3>2
    <2> QED
        BY <1>1, <2>2, <2>3 DEF CronInv, FiresForward
<1> QED
    BY <1>1, <1>4, <1>5, <1>6 DEF CronInv, NoneTwice

LEMMA LockStep ==
    ASSUME CronInv, NEW p \in CronPods, CronPart!LockCronJob(p)
    PROVE  CronInv'
<1>1. PICK j \in poller[p].due :
        IF CronPart!CanLock(j)
        THEN /\ jobs' = [jobs EXCEPT ![j].locked = clock]
             /\ poller' = [poller EXCEPT ![p].pc = "send", ![p].job = j, ![p].due = @ \ {j}]
             /\ doubted' = IF CronPart!RanOut(j) \/ jobs[j].next > poller[p].now
                           THEN doubted \cup {j} ELSE doubted
        ELSE /\ poller' = [poller EXCEPT ![p].due = @ \ {j}]
             /\ UNCHANGED <<jobs, doubted>>
    BY DEF CronPart!LockCronJob
<1>2. poller[p].pc = "next" /\ UNCHANGED <<clock, messages>> /\ poller[p] \in Poller /\ j \in Jobs
    BY <1>1 DEF CronPart!LockCronJob, CronInv, CronTyped, Poller
<1>3. CASE ~CronPart!CanLock(j)
    <2> DEFINE x == [poller[p] EXCEPT !.due = @ \ {j}]
    <2>1. poller' = [poller EXCEPT ![p] = x]
        BY <1>1, <1>3
    <2>2. x \in Poller /\ x.now = poller[p].now /\ x.pc = "next"
        BY <1>2 DEF Poller
    <2>3. x.now <= clock /\ x.now >= 0
        BY <1>2, <2>2 DEF CronInv, Timely
    <2> HIDE DEF x
    <2> QED
        BY <1>1, <1>2, <1>3, <2>1, <2>2, <2>3, PollerMoves
<1>4. CASE CronPart!CanLock(j)
    <2> DEFINE x == [pc |-> "send", now |-> poller[p].now, due |-> poller[p].due \ {j}, job |-> j]
               y == [next |-> jobs[j].next, locked |-> clock]
    <2>1. poller' = [poller EXCEPT ![p] = x]
        BY <1>1, <1>2, <1>4 DEF Poller
    <2>2. jobs[j] \in JobRow /\ clock \in Nat
        BY <1>2 DEF CronInv, CronTyped
    <2>3. jobs' = [jobs EXCEPT ![j] = y]
        BY <1>1, <1>4, <2>2 DEF JobRow
    <2>4. x \in Poller /\ y \in JobRow
        BY <1>2, <2>2 DEF Poller, JobRow
    <2>5. /\ poller' \in [CronPods -> Poller] /\ poller'[p] = x /\ \A q \in CronPods : q # p => poller'[q] = poller[q]
          /\ jobs' \in [Jobs -> JobRow] /\ jobs'[j] = y /\ \A k \in Jobs : k # j => jobs'[k] = jobs[k]
        BY <2>1, <2>3, <2>4, <1>2 DEF CronInv, CronTyped
    <2>6. /\ x.pc = "send" /\ x.now = poller[p].now /\ x.job = j
          /\ y.next = jobs[j].next /\ y.locked = clock /\ clock # CronPart!Never
        BY <2>2 DEF CronPart!Never
    <2>7. /\ doubted \subseteq doubted' /\ doubted' \subseteq Jobs
          /\ j \notin doubted' => jobs[j].locked = CronPart!Never /\ jobs[j].next <= poller[p].now
        <3>1. jobs[j].next \in Int /\ poller[p].now \in Int
            BY <1>2, <2>2 DEF JobRow, Poller
        <3> QED
            BY <1>1, <1>2, <1>4, <3>1 DEF CronPart!CanLock, CronInv, CronTyped
    <2> HIDE DEF x, y
    <2>8. CronTyped'
        BY <2>5, <2>7, <1>2 DEF CronInv, CronTyped
    <2>9. Timely'
        <3>1. /\ \A q \in CronPods : /\ poller'[q].now <= clock
                                     /\ poller'[q].pc # "rest" => poller'[q].now >= 0
                                     /\ poller'[q].pc \in {"send", "update"} => poller'[q].job \in Jobs
            BY <1>2, <2>5, <2>6 DEF CronInv, Timely
        <3>2. \A k \in Jobs : jobs'[k].next <= clock + 1 /\ jobs'[k].locked <= clock
            BY <1>2, <2>2, <2>5, <2>6 DEF CronInv, Timely
        <3> QED
            BY <1>2, <3>1, <3>2 DEF CronInv, Timely
    <2>10. ASSUME NEW k \in Jobs \ doubted', NEW q \in CronPods, CronPart!Firing(q, k)'
           PROVE  \/ q = p /\ k = j
                  \/ q # p /\ k # j /\ CronPart!Firing(q, k)
        <3>1. CASE q = p
            BY <2>10, <3>1, <2>5, <2>6 DEF CronPart!Firing
        <3>2. CASE q # p
            <4>1. CronPart!Firing(q, k)
                BY <2>10, <3>2, <2>5 DEF CronPart!Firing
            <4>2. jobs[k].locked # CronPart!Never
                BY <4>1, <2>7 DEF CronInv, FiresLocked
            <4> QED
                BY <3>2, <4>1, <4>2, <2>7
        <3> QED
            BY <3>1, <3>2
    <2>11. FiresLocked'
        <3>1. ASSUME NEW k \in Jobs \ doubted', NEW q \in CronPods, CronPart!Firing(q, k)' PROVE jobs'[k].locked # CronPart!Never
            <4>1. CASE k = j
                BY <4>1, <2>5, <2>6
            <4>2. CASE k # j
                BY <3>1, <4>2, <2>10, <2>5, <2>7 DEF CronInv, FiresLocked
            <4> QED
                BY <4>1, <4>2
        <3>2. ASSUME NEW k \in Jobs \ doubted', NEW q \in CronPods, NEW r \in CronPods, CronPart!Firing(q, k)', CronPart!Firing(r, k)' PROVE q = r
            <4>1. (q = p /\ k = j) \/ (q # p /\ k # j /\ CronPart!Firing(q, k))
                BY <3>2, <2>10
            <4>2. (r = p /\ k = j) \/ (r # p /\ k # j /\ CronPart!Firing(r, k))
                BY <3>2, <2>10
            <4> QED
                BY <4>1, <4>2, <2>7 DEF CronInv, FiresLocked
        <3> QED
            BY <3>1, <3>2 DEF FiresLocked
    <2>12. FiresForward'
        <3> SUFFICES ASSUME NEW k \in Jobs \ doubted', NEW i \in 1 .. Len(messages), messages[i][1] = k
                     PROVE  /\ jobs'[k].locked = CronPart!Never => messages[i][2] < jobs'[k].next
                            /\ \A q \in CronPods : CronPart!Firing(q, k)' =>
                                  /\ messages[i][2] <= poller'[q].now
                                  /\ poller'[q].pc = "send" => messages[i][2] < poller'[q].now
            BY <1>2 DEF FiresForward
        <3>1. messages[i][2] \in Nat
            BY DEF CronInv, CronTyped
        <3>2. CASE k # j
            <4>1. jobs'[k] = jobs[k]
                BY <3>2, <2>5
            <4>2. \A q \in CronPods : CronPart!Firing(q, k)' => CronPart!Firing(q, k) /\ poller'[q] = poller[q]
                BY <3>2, <2>10, <2>5
            <4> QED
                BY <4>1, <4>2, <2>7 DEF CronInv, FiresForward
        <3>3. CASE k = j
            <4>1. messages[i][2] < jobs[j].next /\ jobs[j].next <= poller[p].now
                BY <3>3, <2>7 DEF CronInv, FiresForward
            <4>2. messages[i][2] < poller[p].now
                BY <4>1, <3>1, <1>2, <2>2 DEF JobRow, Poller
            <4>3. \A q \in CronPods : CronPart!Firing(q, k)' => q = p
                BY <3>3, <2>10
            <4>4. jobs'[k].locked # CronPart!Never
                BY <3>3, <2>5, <2>6
            <4>5. messages[i][2] < poller'[p].now /\ messages[i][2] <= poller'[p].now
                BY <4>2, <2>5, <2>6, <3>1, <1>2 DEF Poller
            <4> QED
                BY <4>3, <4>4, <4>5
        <3> QED
            BY <3>2, <3>3
    <2>13. NoneTwice'
        BY <1>2, <2>7 DEF CronInv, NoneTwice
    <2> QED
        BY <2>8, <2>9, <2>11, <2>12, <2>13 DEF CronInv
<1> QED
    BY <1>3, <1>4

LEMMA SendStep ==
    ASSUME CronInv, NEW p \in CronPods, CronPart!Send(p)
    PROVE  CronInv'
<1> DEFINE x == [poller[p] EXCEPT !.pc = "update"]
           m == <<poller[p].job, poller[p].now>>
           n == Len(messages)
<1>1. /\ poller[p].pc = "send" /\ poller' = [poller EXCEPT ![p] = x] /\ messages' = Append(messages, m)
      /\ UNCHANGED <<clock, jobs, doubted>>
    BY DEF CronPart!Send
<1>2. poller[p] \in Poller /\ poller[p].job \in Jobs /\ poller[p].now \in Nat /\ poller[p].now <= clock
    BY <1>1 DEF CronInv, CronTyped, Timely, Poller
<1>3. x \in Poller /\ x.pc = "update" /\ x.now = poller[p].now /\ x.job = poller[p].job
    BY <1>2 DEF Poller
<1> HIDE DEF x
<1>4. poller' \in [CronPods -> Poller] /\ poller'[p] = x /\ \A q \in CronPods : q # p => poller'[q] = poller[q]
    BY <1>1, <1>3 DEF CronInv, CronTyped
<1>5. messages \in Seq(Jobs \X Nat) /\ m \in Jobs \X Nat /\ n \in Nat
    BY <1>2 DEF CronInv, CronTyped
<1>6. /\ messages' \in Seq(Jobs \X Nat) /\ Len(messages') = n + 1 /\ messages'[n + 1] = m
      /\ \A i \in 1 .. n : messages'[i] = messages[i]
    BY <1>1, <1>5
<1>7. m[1] = poller[p].job /\ m[2] = poller[p].now
    OBVIOUS
<1> HIDE DEF m, n
<1>8. \A i \in 1 .. n + 1 : (i \in 1 .. n /\ messages'[i] = messages[i]) \/ (i = n + 1 /\ messages'[i] = m)
    BY <1>5, <1>6
<1>9. CronTyped'
    BY <1>1, <1>4, <1>6 DEF CronInv, CronTyped
<1>10. Timely'
    <2>1. \A q \in CronPods : /\ poller'[q].now <= clock
                              /\ poller'[q].pc # "rest" => poller'[q].now >= 0
                              /\ poller'[q].pc \in {"send", "update"} => poller'[q].job \in Jobs
        BY <1>2, <1>3, <1>4 DEF CronInv, Timely
    <2>2. \A i \in 1 .. n + 1 : messages'[i][2] <= clock
        BY <1>2, <1>7, <1>8 DEF CronInv, Timely, n
    <2> QED
        BY <1>1, <1>6, <2>1, <2>2 DEF CronInv, Timely
<1>11. \A q \in CronPods, j \in Jobs : CronPart!Firing(q, j)' <=> CronPart!Firing(q, j)
    BY <1>1, <1>3, <1>4 DEF CronPart!Firing
<1>12. FiresLocked'
    BY <1>1, <1>11 DEF CronInv, FiresLocked
<1>13. FiresForward'
    <2> SUFFICES ASSUME NEW j \in Jobs \ doubted, NEW i \in 1 .. n + 1, messages'[i][1] = j
                 PROVE  /\ jobs[j].locked = CronPart!Never => messages'[i][2] < jobs[j].next
                        /\ \A q \in CronPods : CronPart!Firing(q, j) =>
                              /\ messages'[i][2] <= poller'[q].now
                              /\ poller'[q].pc = "send" => messages'[i][2] < poller'[q].now
        BY <1>1, <1>6, <1>11 DEF FiresForward
    <2>1. CASE i \in 1 .. n /\ messages'[i] = messages[i]
        <3>1. \A q \in CronPods : poller'[q].now = poller[q].now /\ (poller'[q].pc = "send" => poller[q].pc = "send")
            BY <1>3, <1>4
        <3> QED
            BY <2>1, <3>1 DEF CronInv, FiresForward, n
    <2>2. CASE i = n + 1 /\ messages'[i] = m
        <3>1. CronPart!Firing(p, j)
            BY <2>2, <1>1, <1>7 DEF CronPart!Firing
        <3>2. jobs[j].locked # CronPart!Never /\ \A q \in CronPods : CronPart!Firing(q, j) => q = p
            BY <3>1 DEF CronInv, FiresLocked
        <3>3. poller'[p].pc = "update" /\ poller'[p].now = m[2] /\ m[2] \in Nat
            BY <1>2, <1>3, <1>4, <1>7
        <3> QED
            BY <2>2, <3>2, <3>3
    <2> QED
        BY <2>1, <2>2, <1>8
<1>14. NoneTwice'
    <2>1. ASSUME NEW i \in 1 .. n, messages[i] = m, m[1] \notin doubted PROVE FALSE
        <3>1. CronPart!Firing(p, m[1]) /\ m[1] \in Jobs
            BY <1>1, <1>2, <1>7 DEF CronPart!Firing
        <3>2. messages[i][2] < poller[p].now
            BY <2>1, <3>1, <1>1 DEF CronInv, FiresForward, n
        <3> QED
            BY <2>1, <3>2, <1>2, <1>7
    <2> SUFFICES ASSUME NEW i \in 1 .. n + 1, NEW k \in 1 .. n + 1, messages'[i] = messages'[k],
                        messages'[i][1] \notin doubted
                 PROVE  i = k
        BY <1>1, <1>6 DEF NoneTwice
    <2>2. CASE i \in 1 .. n /\ k \in 1 .. n
        BY <2>2, <1>6 DEF CronInv, NoneTwice, n
    <2>3. CASE i \in 1 .. n /\ k = n + 1
        BY <2>3, <2>1, <1>6
    <2>4. CASE i = n + 1 /\ k \in 1 .. n
        BY <2>4, <2>1, <1>6
    <2> QED
        BY <2>2, <2>3, <2>4, <1>8
<1> QED
    BY <1>9, <1>10, <1>12, <1>13, <1>14 DEF CronInv

LEMMA UpdateStep ==
    ASSUME CronInv, NEW p \in CronPods, CronPart!UpdateCronJobRun(p)
    PROVE  CronInv'
<1>0. PICK j : j = poller[p].job
    OBVIOUS
<1> DEFINE x == [poller[p] EXCEPT !.pc = "next", !.job = CronPart!NoJob]
           y == [next |-> poller[p].now + 1, locked |-> CronPart!Never]
<1>1. /\ poller[p].pc = "update" /\ UNCHANGED <<clock, messages, doubted>>
      /\ jobs' = IF CronPart!Exists(j) THEN [jobs EXCEPT ![j] = y] ELSE jobs
    BY <1>0 DEF CronPart!UpdateCronJobRun
<1>2. poller' = [poller EXCEPT ![p] = x]
    BY DEF CronPart!UpdateCronJobRun
<1>3. poller[p] \in Poller /\ j \in Jobs /\ poller[p].now \in Nat /\ poller[p].now <= clock /\ clock \in Nat
    BY <1>0, <1>1 DEF CronInv, CronTyped, Timely, Poller
<1>4. x \in Poller /\ x.pc = "next" /\ x.now = poller[p].now
    BY <1>3 DEF Poller
<1>5. y \in JobRow /\ y.next = poller[p].now + 1 /\ y.next <= clock + 1 /\ y.locked = CronPart!Never /\ y.locked <= clock
    BY <1>3 DEF JobRow, CronPart!Never
<1> HIDE DEF x, y
<1>6. CASE ~CronPart!Exists(j)
    <2>1. x.now <= clock /\ x.now >= 0 /\ x.pc \notin {"send", "update"} /\ UNCHANGED <<clock, jobs, messages, doubted>>
        BY <1>1, <1>3, <1>4, <1>6
    <2> QED
        BY <1>2, <1>4, <2>1, PollerMoves
<1>7. CASE CronPart!Exists(j)
    <2>1. poller' \in [CronPods -> Poller] /\ poller'[p] = x /\ \A q \in CronPods : q # p => poller'[q] = poller[q]
        BY <1>2, <1>4 DEF CronInv, CronTyped
    <2>2. jobs' \in [Jobs -> JobRow] /\ jobs'[j] = y /\ \A k \in Jobs : k # j => jobs'[k] = jobs[k]
        BY <1>1, <1>3, <1>5, <1>7 DEF CronInv, CronTyped
    <2>3. CronPart!Firing(p, j)
        BY <1>0, <1>1 DEF CronPart!Firing
    <2>4. CronTyped'
        BY <1>1, <2>1, <2>2 DEF CronInv, CronTyped
    <2>5. Timely'
        <3>1. \A q \in CronPods : /\ poller'[q].now <= clock
                                  /\ poller'[q].pc # "rest" => poller'[q].now >= 0
                                  /\ poller'[q].pc \in {"send", "update"} => poller'[q].job \in Jobs
            BY <1>3, <1>4, <2>1 DEF CronInv, Timely
        <3>2. \A k \in Jobs : jobs'[k].next <= clock + 1 /\ jobs'[k].locked <= clock
            BY <1>5, <2>2 DEF CronInv, Timely
        <3> QED
            BY <1>1, <3>1, <3>2 DEF CronInv, Timely
    <2>6. \A q \in CronPods, k \in Jobs : CronPart!Firing(q, k)' => q # p /\ CronPart!Firing(q, k) /\ poller'[q] = poller[q]
        BY <1>4, <2>1 DEF CronPart!Firing
    <2>7. j \notin doubted => \A q \in CronPods : ~CronPart!Firing(q, j)'
        BY <1>3, <2>3, <2>6 DEF CronInv, FiresLocked
    <2>8. FiresLocked'
        BY <1>1, <2>2, <2>6, <2>7 DEF CronInv, FiresLocked
    <2>9. FiresForward'
        <3> SUFFICES ASSUME NEW k \in Jobs \ doubted, NEW i \in 1 .. Len(messages), messages[i][1] = k
                     PROVE  /\ jobs'[k].locked = CronPart!Never => messages[i][2] < jobs'[k].next
                            /\ \A q \in CronPods : CronPart!Firing(q, k)' =>
                                  /\ messages[i][2] <= poller'[q].now
                                  /\ poller'[q].pc = "send" => messages[i][2] < poller'[q].now
            BY <1>1 DEF FiresForward
        <3>1. CASE k # j
            BY <3>1, <2>2, <2>6 DEF CronInv, FiresForward
        <3>2. CASE k = j
            <4>1. messages[i][2] <= poller[p].now /\ messages[i][2] \in Nat
                BY <3>2, <2>3 DEF CronInv, CronTyped, FiresForward
            <4> QED
                BY <3>2, <4>1, <1>3, <1>5, <2>2, <2>7
        <3> QED
            BY <3>1, <3>2
    <2> QED
        BY <1>1, <2>4, <2>5, <2>8, <2>9 DEF CronInv, NoneTwice
<1> QED
    BY <1>6, <1>7

LEMMA PollerStep ==
    ASSUME CronInv, NEW p \in CronPods, CronPart!Poll(p) \/ CronPart!UpdateFails(p) \/ CronPart!PollDone(p) \/ CronPart!Crash(p)
    PROVE  CronInv'
<1>1. poller[p] \in Poller /\ clock \in Nat /\ poller[p].now <= clock
      /\ (poller[p].pc # "rest" => poller[p].now >= 0)
    BY DEF CronInv, CronTyped, Timely
<1>2. UNCHANGED <<clock, jobs, messages, doubted>>
    BY DEF CronPart!Poll, CronPart!UpdateFails, CronPart!PollDone, CronPart!Crash
<1>3. CASE CronPart!Poll(p)
    <2> DEFINE due == {j \in Jobs : CronPart!Exists(j) /\ jobs[j].next <= clock}
               x == [pc |-> "next", now |-> clock, due |-> due, job |-> CronPart!NoJob]
    <2>1. poller' = [poller EXCEPT ![p] = x]
        BY <1>3 DEF CronPart!Poll
    <2>2. x \in Poller /\ x.pc = "next" /\ x.now = clock /\ clock <= clock /\ clock >= 0
        BY <1>1 DEF Poller
    <2> HIDE DEF x
    <2> QED
        BY <1>2, <2>1, <2>2, PollerMoves
<1>4. CASE CronPart!UpdateFails(p)
    <2> DEFINE x == [poller[p] EXCEPT !.pc = "next", !.job = CronPart!NoJob]
    <2>1. poller' = [poller EXCEPT ![p] = x] /\ poller[p].pc # "rest"
        BY <1>4 DEF CronPart!UpdateFails
    <2>2. x \in Poller /\ x.pc = "next" /\ x.now = poller[p].now
        BY <1>1 DEF Poller
    <2> HIDE DEF x
    <2> QED
        BY <1>1, <1>2, <2>1, <2>2, PollerMoves
<1>5. CASE CronPart!PollDone(p)
    <2> DEFINE x == [poller[p] EXCEPT !.pc = "rest"]
    <2>1. poller' = [poller EXCEPT ![p] = x] /\ poller[p].pc # "rest"
        BY <1>5 DEF CronPart!PollDone
    <2>2. x \in Poller /\ x.pc = "rest" /\ x.now = poller[p].now
        BY <1>1 DEF Poller
    <2> HIDE DEF x
    <2> QED
        BY <1>1, <1>2, <2>1, <2>2, PollerMoves
<1>6. CASE CronPart!Crash(p)
    <2>1. poller' = [poller EXCEPT ![p] = CronPart!Resting]
        BY <1>6 DEF CronPart!Crash
    <2>2. CronPart!Resting \in Poller /\ CronPart!Resting.pc = "rest" /\ CronPart!Resting.now <= clock
        BY <1>1 DEF Poller, CronPart!Resting, CronPart!Never
    <2> QED
        BY <1>2, <2>1, <2>2, PollerMoves
<1> QED
    BY <1>3, <1>4, <1>5, <1>6

LEMMA TickStep == ASSUME MaxTime \in Nat, CronInv, CronPart!Tick PROVE CronInv'
<1>1. clock' = clock + 1 /\ clock' \in 0 .. MaxTime /\ clock \in Nat /\ UNCHANGED <<jobs, poller, messages, doubted>>
    BY DEF CronPart!Tick, CronInv, CronTyped
<1>2. CronTyped'
    BY <1>1 DEF CronInv, CronTyped
<1>3. Timely'
    <2>1. \A p \in CronPods : poller[p].now \in Int
        BY DEF CronInv, CronTyped, Poller
    <2>2. \A i \in 1 .. Len(messages) : messages[i][2] \in Nat
        BY DEF CronInv, CronTyped
    <2>3. \A j \in Jobs : jobs[j].next \in Int /\ jobs[j].locked \in Int
        BY DEF CronInv, CronTyped, JobRow
    <2>4. \A n \in Int : (n <= clock => n <= clock') /\ (n <= clock + 1 => n <= clock' + 1)
        BY <1>1
    <2> QED
        BY <1>1, <2>1, <2>2, <2>3, <2>4 DEF CronInv, Timely
<1>4. \A p \in CronPods, j \in Jobs : CronPart!Firing(p, j)' <=> CronPart!Firing(p, j)
    BY <1>1 DEF CronPart!Firing
<1> QED
    BY <1>1, <1>2, <1>3, <1>4 DEF CronInv, FiresLocked, FiresForward, NoneTwice

LEMMA CronStep == ASSUME MaxTime \in Nat PROVE CronInv /\ [CronPart!Next]_(CronPart!vars) => CronInv'
<1> SUFFICES ASSUME CronInv, [CronPart!Next]_(CronPart!vars) PROVE CronInv'
    OBVIOUS
<1>1. CASE UNCHANGED CronPart!vars
    <2>1. \A p \in CronPods, j \in Jobs : CronPart!Firing(p, j)' <=> CronPart!Firing(p, j)
        BY <1>1 DEF CronPart!vars, CronPart!Firing
    <2> QED
        BY <1>1, <2>1 DEF CronPart!vars, CronInv, CronTyped, Timely, FiresLocked, FiresForward, NoneTwice
<1> QED
    BY <1>1, JobStep, LockStep, SendStep, UpdateStep, PollerStep, TickStep DEF CronPart!Next

\* A set without two elements.
LEMMA AtMostOne ==
    ASSUME NEW S, \A x, y \in S : x = y
    PROVE  IsFiniteSet(S) /\ Cardinality(S) \in {0, 1}
<1>1. CASE S = {}
    BY <1>1, FS_EmptySet
<1>2. CASE \E x : S = {x}
    <2>1. PICK x : S = {x}
        BY <1>2
    <2>2. IsFiniteSet({x}) /\ Cardinality({x}) = 1
        BY FS_Singleton, Zenon
    <2> QED
        BY <2>1, <2>2
<1>3. CASE S # {}
    <2>1. PICK x \in S : TRUE
        BY <1>3
    <2>2. S = {x}
        BY <2>1
    <2> QED
        BY <1>2, <2>2
<1> QED
    BY <1>1, <1>3

\* The components count as this module does.
LEMMA SameCount ==
    \A S : CronPart!Cardinality(S) = Cardinality(S) /\ RoutingPart!Cardinality(S) = Cardinality(S)
    BY DEF CronPart!Cardinality, RoutingPart!Cardinality, Cardinality

LEMMA CronFires == CronInv => CronPart!TypeOK /\ CronPart!FiredOnce
<1> SUFFICES ASSUME CronInv PROVE CronPart!TypeOK /\ CronPart!FiredOnce
    OBVIOUS
<1>1. CronPart!TypeOK
    BY DEF CronInv, CronTyped, Timely, CronPart!TypeOK, Poller
<1>2. ASSUME NEW j \in Jobs \ doubted, NEW p \in CronPods, NEW q \in CronPods, p # q PROVE ~(CronPart!Firing(p, j) /\ CronPart!Firing(q, j))
    BY <1>2 DEF CronInv, FiresLocked
<1>3. ASSUME NEW j \in Jobs \ doubted
      PROVE  Cardinality({i \in 1 .. Len(messages) : messages[i] = <<j, clock>>}) <= 1
    <2> DEFINE S == {i \in 1 .. Len(messages) : messages[i] = <<j, clock>>}
    <2>1. \A i, k \in S : i = k
        BY DEF CronInv, NoneTwice
    <2> HIDE DEF S
    <2>3. Cardinality(S) <= 1
        BY <2>1, AtMostOne
    <2> QED
        BY <2>3 DEF S
<1> QED
    BY <1>1, <1>2, <1>3, SameCount DEF CronPart!FiredOnce

--------------------------------------------------------------------------------
(***************************************************************************)
(* Routing.  An agent meets what a person writes to a group once, for any  *)
(* number of bots, agents, bindings and teams.  A message that left no key *)
(* with the bus has been met by nobody; the first copy of it leaves the    *)
(* key (Meets), and the key goes only with a sweep that the message's      *)
(* copies outlived (lapsed).                                               *)
(***************************************************************************)

NoConfig == [bindings |-> <<>>, teams |-> {}]
Entry == [key : {<<t>> : t \in Nat}, sweeps : 0 .. 2]

RoutingTyped ==
    /\ posts \in Seq(RoutingPart!Post) /\ Len(posts) <= MaxWritten
    /\ copies \subseteq RoutingPart!Copy /\ \A c \in copies : c.post \in 1 .. Len(posts)
    /\ seen \subseteq Entry
    /\ lapsed \subseteq 1 .. Len(posts)
    /\ config \in Configurations \cup {NoConfig}
    /\ submitted \in Seq(RoutingPart!Task) /\ \A i \in 1 .. Len(submitted) : submitted[i].post \in 1 .. Len(posts)
    /\ injected \in [(1 .. MaxWritten) \X RoutingAgents -> Nat]

Remembered(p) == \E e \in seen : e.key = <<posts[p].text>>
OfPerson(p)   == posts[p].kind = "group" /\ ~posts[p].bot /\ p \notin lapsed

\* Nobody has met a post whose key is not there; one agent has it as a turn, and
\* not in its session as well.
Meets ==
    /\ \A p \in 1 .. Len(posts) : OfPerson(p) =>
        /\ ~Remembered(p) => /\ \A i \in 1 .. Len(submitted) : submitted[i].post # p
                             /\ \A a \in RoutingAgents : injected[<<p, a>>] = 0
        /\ \A i, k \in 1 .. Len(submitted) : submitted[i].post = p /\ submitted[k].post = p => i = k
        /\ \A a \in RoutingAgents :
            /\ injected[<<p, a>>] \in {0, 1}
            /\ injected[<<p, a>>] = 1 =>
                \A i \in 1 .. Len(submitted) : submitted[i].post = p => submitted[i].agent # a
    /\ \A p \in 1 .. MaxWritten, a \in RoutingAgents : p > Len(posts) => injected[<<p, a>>] = 0

RoutingInv == RoutingTyped /\ Meets /\ RoutingPart!BotsNeedMention

\* A set of numbers that is not empty has a least one.
LEMMA FirstIn == \A S : S \subseteq Nat /\ S # {} => RoutingPart!First(S) \in S /\ \A j \in S : RoutingPart!First(S) <= j
<1> SUFFICES ASSUME NEW S \in SUBSET Nat, S # {} PROVE RoutingPart!First(S) \in S /\ \A j \in S : RoutingPart!First(S) <= j
    OBVIOUS
<1> DEFINE R == OpToRel(<, Nat)
<1>1. IsWellFoundedOn(R, Nat)
    BY NatLessThanWellFounded
<1> HIDE DEF R
<1>2. PICK i \in S : \A j \in S : ~(<<j, i>> \in R)
    BY <1>1, WFMin
<1>3. \A j \in Nat : j < i => <<j, i>> \in R
    BY DEF R, OpToRel
<1>4. \A j \in S : i <= j
    <2> SUFFICES ASSUME NEW j \in S PROVE i <= j
        OBVIOUS
    <2>1. i \in Nat /\ j \in Nat
        OBVIOUS
    <2>2. ~(j < i)
        BY <1>2, <1>3, <2>1
    <2> QED
        BY <2>1, <2>2
<1> QED
    BY <1>4 DEF RoutingPart!First

LEMMA BindingsTyped ==
    ASSUME RoutingAssumed, RoutingTyped
    PROVE  /\ Len(RoutingPart!Bindings) \in Nat
           /\ RoutingPart!Bindings = <<>> => Len(RoutingPart!Bindings) = 0
           /\ \A i \in 1 .. Len(RoutingPart!Bindings) : RoutingPart!Bindings[i].account \in RoutingPart!Named
    BY DEF RoutingAssumed, RoutingTyped, RoutingPart!Bindings, NoConfig, RoutingPart!Named

\* Whoever is addressed by mention is an agent of the space and is the one mentioned.
LEMMA Mentioned ==
    ASSUME RoutingAssumed, RoutingTyped, NEW c \in copies, RoutingPart!AgentByMention(c) # NoBot
    PROVE  /\ RoutingPart!AgentByMention(c) \in RoutingAgents
           /\ RoutingPart!BotUsername(RoutingPart!AgentByMention(c)) = posts[c.post].mention
<1> DEFINE named == {a \in RoutingPart!AgentsBoundToMessage(c) :
                       RoutingPart!BotUsername(a) # NoBot /\ RoutingPart!BotUsername(a) = posts[c.post].mention}
           S == {i \in RoutingPart!Matching(c) : RoutingPart!Bindings[i].agent \in named}
<1>1. named # {} /\ RoutingPart!AgentByMention(c) = RoutingPart!Bindings[RoutingPart!First(S)].agent
    BY DEF RoutingPart!AgentByMention
<1>2. RoutingPart!Bindings # <<>>
    <2>1. SUFFICES ASSUME RoutingPart!Bindings = <<>> PROVE named = {}
        BY <1>1
    <2>2. \A a : RoutingPart!BotUsername(a) = NoBot
        BY <2>1, BindingsTyped DEF RoutingPart!BotUsername, RoutingPart!BindingsOf
    <2> QED
        BY <2>2
<1>3. RoutingPart!Matching(c) \subseteq 1 .. Len(RoutingPart!Bindings) /\ S \subseteq RoutingPart!Matching(c)
    BY DEF RoutingPart!Matching
<1>4. S # {}
    BY <1>1, <1>2 DEF RoutingPart!AgentsBoundToMessage
<1>5. S \subseteq Nat
    BY <1>3, BindingsTyped
<1> HIDE DEF S
<1>6. RoutingPart!First(S) \in S
    BY <1>4, <1>5, FirstIn
<1> QED
    BY <1>1, <1>6 DEF S, RoutingPart!Matching

\* The agent that acts on a group message.
LEMMA Target ==
    ASSUME RoutingAssumed, RoutingTyped, NEW c \in copies, NEW team, team \in RoutingPart!GroupBehaviorFor(c),
           RoutingPart!GroupTarget(c, team) # NoBot
    PROVE  /\ RoutingPart!GroupTarget(c, team) \in RoutingAgents
           /\ posts[c.post].bot => RoutingPart!BotUsername(RoutingPart!GroupTarget(c, team)) = posts[c.post].mention
<1>1. RoutingPart!MatchAgent(c) \in RoutingAgents \cup {NoBot}
    <2>1. CASE RoutingPart!Matching(c) = {}
        BY <2>1 DEF RoutingPart!MatchAgent, RoutingAssumed
    <2>2. CASE RoutingPart!Matching(c) # {}
        <3>1. RoutingPart!Matching(c) \subseteq Nat
            BY BindingsTyped DEF RoutingPart!Matching
        <3>2. RoutingPart!First(RoutingPart!Matching(c)) \in RoutingPart!Matching(c)
            BY <2>2, <3>1, FirstIn
        <3> QED
            BY <2>2, <3>2 DEF RoutingPart!MatchAgent, RoutingPart!Matching
    <2> QED
        BY <2>1, <2>2
<1> QED
    BY <1>1, Mentioned DEF RoutingPart!GroupTarget

LEMMA OwnAccount ==
    ASSUME RoutingAssumed, RoutingTyped, NEW a
    PROVE  RoutingPart!AccountIDForAgent(a) \in RoutingAccounts \cup {NoBot} \cup RoutingPart!Named
<1> DEFINE ownRows == {i \in RoutingPart!BindingsOf(a) : RoutingPart!Bindings[i].account # AnyValue}
<1>1. ownRows \subseteq 1 .. Len(RoutingPart!Bindings)
    BY DEF RoutingPart!BindingsOf
<1>2. ownRows \subseteq Nat
    BY <1>1, BindingsTyped
<1>3. ownRows # {} => RoutingPart!First(ownRows) \in 1 .. Len(RoutingPart!Bindings)
    BY <1>1, <1>2, FirstIn
<1> QED
    BY <1>3, BindingsTyped DEF RoutingPart!AccountIDForAgent

LEMMA RoutingInit == ASSUME RoutingAssumed PROVE RoutingPart!Init => RoutingInv
    BY DEF RoutingPart!Init, RoutingAssumed, RoutingInv, RoutingTyped, Meets, RoutingPart!BotsNeedMention, NoConfig

LEMMA WriteStep ==
    ASSUME RoutingAssumed, RoutingInv, NEW w \in Writable, RoutingPart!Write(w)
    PROVE  RoutingInv'
<1> DEFINE n == Len(posts)
<1>1. /\ posts' = Append(posts, w) /\ n < MaxWritten /\ n \in Nat /\ w \in RoutingPart!Post
      /\ UNCHANGED <<seen, lapsed, config, injected, submitted>>
    BY DEF RoutingPart!Write, RoutingAssumed, RoutingInv, RoutingTyped
<1>2. posts \in Seq(RoutingPart!Post)
    BY DEF RoutingInv, RoutingTyped
<1>3. /\ posts' \in Seq(RoutingPart!Post) /\ Len(posts') = n + 1 /\ \A p \in 1 .. n : posts'[p] = posts[p]
    BY <1>1, <1>2
<1>4. copies' \subseteq RoutingPart!Copy /\ \A c \in copies' : c.post \in 1 .. n + 1
    <2>1. PICK a \in RoutingAccounts : copies' = copies \cup [post : {n + 1},
                                      account : IF w.kind = "group" THEN RoutingAccounts ELSE {a}]
        BY DEF RoutingPart!Write
    <2>2. MaxWritten \in Nat /\ n + 1 \in 1 .. MaxWritten
        BY <1>1 DEF RoutingAssumed
    <2>3. \A c \in [post : {n + 1}, account : IF w.kind = "group" THEN RoutingAccounts ELSE {a}] :
            c \in RoutingPart!Copy /\ c.post = n + 1
        BY <2>2 DEF RoutingPart!Copy
    <2>4. \A c \in copies : c \in RoutingPart!Copy /\ c.post \in 1 .. n + 1
        BY <1>1 DEF RoutingInv, RoutingTyped
    <2> QED
        BY <2>1, <2>3, <2>4, <1>1
<1> HIDE DEF n
<1>5. RoutingTyped'
    <2>1. \A i \in 1 .. n : i \in 1 .. n + 1
        BY <1>1
    <2>2. n + 1 <= MaxWritten
        BY <1>1 DEF RoutingAssumed
    <2> QED
        BY <1>1, <1>3, <1>4, <2>1, <2>2 DEF RoutingInv, RoutingTyped, n
<1>6. Meets'
    <2>1. ASSUME NEW p \in 1 .. n
          PROVE  (OfPerson(p)' <=> OfPerson(p)) /\ (Remembered(p)' <=> Remembered(p))
        BY <1>1, <1>3 DEF OfPerson, Remembered
    <2>2. /\ \A i \in 1 .. Len(submitted) : submitted[i].post # n + 1
          /\ \A a \in RoutingAgents : injected[<<n + 1, a>>] = 0
        <3>1. n + 1 \in 1 .. MaxWritten /\ n + 1 > n
            BY <1>1 DEF RoutingAssumed
        <3> QED
            BY <3>1, <1>1 DEF RoutingInv, RoutingTyped, Meets, n
    <2>3. \A p \in 1 .. n + 1 : p \in 1 .. n \/ p = n + 1
        BY <1>1
    <2>4. \A p \in 1 .. MaxWritten : p > n + 1 => p > n
        BY <1>1
    <2>5. /\ \A p \in 1 .. n : OfPerson(p)' =>
                /\ ~Remembered(p)' => /\ \A i \in 1 .. Len(submitted) : submitted[i].post # p
                                     /\ \A a \in RoutingAgents : injected[<<p, a>>] = 0
                /\ \A i, k \in 1 .. Len(submitted) : submitted[i].post = p /\ submitted[k].post = p => i = k
                /\ \A a \in RoutingAgents :
                    /\ injected[<<p, a>>] \in {0, 1}
                    /\ injected[<<p, a>>] = 1 =>
                        \A i \in 1 .. Len(submitted) : submitted[i].post = p => submitted[i].agent # a
        BY <2>1 DEF RoutingInv, Meets, n
    <2>6. \A p \in 1 .. MaxWritten, a \in RoutingAgents : p > n + 1 => injected[<<p, a>>] = 0
        BY <2>4 DEF RoutingInv, Meets, n
    <2> QED
        BY <1>1, <1>3, <2>2, <2>3, <2>5, <2>6 DEF Meets
<1>7. RoutingPart!BotsNeedMention'
    <2>1. \A a : RoutingPart!BotUsername(a)' = RoutingPart!BotUsername(a)
        BY <1>1 DEF RoutingPart!BotUsername, RoutingPart!BindingsOf, RoutingPart!Bindings
    <2>2. \A i \in 1 .. Len(submitted) : posts'[submitted[i].post] = posts[submitted[i].post]
        BY <1>3 DEF RoutingInv, RoutingTyped, n
    <2> QED
        BY <1>1, <2>1, <2>2 DEF RoutingInv, RoutingPart!BotsNeedMention
<1> QED
    BY <1>5, <1>6, <1>7 DEF RoutingInv

\* A copy is taken: an agent gets a turn or none does, and some get an injection.
LEMMA Taken ==
    ASSUME RoutingAssumed, RoutingInv, NEW c \in copies, RoutingPart!Accept(c),
           NEW target, NEW account, NEW agents,
           submitted' = (IF target = NoBot THEN submitted
                         ELSE Append(submitted, [post |-> c.post, agent |-> target, account |-> account])),
           target # NoBot => target \in RoutingAgents /\ account \in RoutingAccounts \cup {NoBot} \cup RoutingPart!Named,
           RoutingPart!Inject(c, agents),
           ~RoutingPart!IsGroup(c) => agents = {},
           RoutingPart!IsGroup(c) /\ ~posts[c.post].bot => target \notin agents,
           RoutingPart!IsGroup(c) /\ posts[c.post].bot /\ target # NoBot => RoutingPart!BotUsername(target) = posts[c.post].mention
    PROVE  RoutingInv'
<1> DEFINE n == Len(submitted)
           x == [post |-> c.post, agent |-> target, account |-> account]
           o == c.post
<1>1. UNCHANGED <<posts, lapsed, config>> /\ copies' = copies \ {c} /\ seen \subseteq seen'
    BY DEF RoutingPart!Accept
<1>2. o \in 1 .. Len(posts) /\ o \in 1 .. MaxWritten /\ posts[o] \in RoutingPart!Post /\ n \in Nat /\ submitted \in Seq(RoutingPart!Task)
    BY DEF RoutingInv, RoutingTyped, RoutingPart!Copy
<1>3. target # NoBot => x \in RoutingPart!Task
    BY <1>2 DEF RoutingPart!Task
<1>4. x.post = o /\ x.agent = target
    OBVIOUS
<1> HIDE DEF x, n, o
<1>5. /\ submitted' \in Seq(RoutingPart!Task)
      /\ \A i \in 1 .. n : submitted'[i] = submitted[i]
      /\ \/ target = NoBot /\ Len(submitted') = n
         \/ target # NoBot /\ Len(submitted') = n + 1 /\ submitted'[n + 1] = x
    <2>1. CASE target = NoBot
        BY <2>1, <1>2 DEF n
    <2>2. CASE target # NoBot
        <3>1. submitted' = Append(submitted, x)
            BY <2>2 DEF x
        <3> QED
            BY <2>2, <3>1, <1>2, <1>3 DEF n
    <2> QED
        BY <2>1, <2>2
<1>6. \A i \in 1 .. Len(submitted') : \/ i \in 1 .. n /\ submitted'[i] = submitted[i]
                                      \/ i = n + 1 /\ target # NoBot /\ submitted'[i] = x
    BY <1>2, <1>5
<1>7. /\ injected' \in [(1 .. MaxWritten) \X RoutingAgents -> Nat]
      /\ \A p \in 1 .. MaxWritten, a \in RoutingAgents :
            injected'[<<p, a>>] = IF p = o /\ a \in agents THEN injected[<<p, a>>] + 1 ELSE injected[<<p, a>>]
    <2>1. injected \in [(1 .. MaxWritten) \X RoutingAgents -> Nat]
        BY DEF RoutingInv, RoutingTyped
    <2>2. injected' = [y \in (1 .. MaxWritten) \X RoutingAgents |->
                          IF y[1] = o /\ y[2] \in agents THEN injected[y] + 1 ELSE injected[y]]
        BY <2>1 DEF RoutingPart!Inject, o
    <2>3. \A y \in (1 .. MaxWritten) \X RoutingAgents : injected[y] \in Nat
        BY <2>1
    <2>4. \A p \in 1 .. MaxWritten, a \in RoutingAgents : <<p, a>> \in (1 .. MaxWritten) \X RoutingAgents /\ <<p, a>>[1] = p /\ <<p, a>>[2] = a
        OBVIOUS
    <2> QED
        BY <2>2, <2>3, <2>4
<1>8. RoutingTyped'
    <2>1. seen' \subseteq Entry
        <3>1. RoutingPart!IsGroup(c) => [key |-> RoutingPart!DedupKey(c), sweeps |-> 0] \in Entry
            BY <1>2 DEF Entry, RoutingPart!DedupKey, RoutingPart!Post, o
        <3> QED
            BY <3>1 DEF RoutingPart!Accept, RoutingInv, RoutingTyped
    <2>2. \A i \in 1 .. Len(submitted') : submitted'[i].post \in 1 .. Len(posts)
        BY <1>2, <1>4, <1>6 DEF RoutingInv, RoutingTyped, n
    <2> QED
        BY <1>1, <1>5, <1>7, <2>1, <2>2 DEF RoutingInv, RoutingTyped
<1>9. \A p \in 1 .. Len(posts) : OfPerson(p)' <=> OfPerson(p)
    BY <1>1 DEF OfPerson
<1>10. \A p \in 1 .. Len(posts) : Remembered(p) => Remembered(p)'
    BY <1>1 DEF Remembered
<1>11. RoutingPart!IsGroup(c) => ~Remembered(o) /\ Remembered(o)'
    <2>1. RoutingPart!DedupKey(c) = <<posts[o].text>>
        BY DEF RoutingPart!DedupKey, o
    <2>2. RoutingPart!IsGroup(c) => ~Remembered(o)
        BY <2>1 DEF RoutingPart!Accept, RoutingPart!IsDuplicate, Remembered
    <2>3. RoutingPart!IsGroup(c) => [key |-> RoutingPart!DedupKey(c), sweeps |-> 0] \in seen'
        BY DEF RoutingPart!Accept
    <2> QED
        BY <1>1, <2>1, <2>2, <2>3 DEF Remembered
<1>12. ASSUME NEW p \in 1 .. Len(posts), OfPerson(p)
       PROVE  /\ ~Remembered(p)' => /\ \A i \in 1 .. Len(submitted') : submitted'[i].post # p
                                    /\ \A a \in RoutingAgents : injected'[<<p, a>>] = 0
              /\ \A i, k \in 1 .. Len(submitted') : submitted'[i].post = p /\ submitted'[k].post = p => i = k
              /\ \A a \in RoutingAgents :
                  /\ injected'[<<p, a>>] \in {0, 1}
                  /\ injected'[<<p, a>>] = 1 =>
                      \A i \in 1 .. Len(submitted') : submitted'[i].post = p => submitted'[i].agent # a
    <2>0. p \in 1 .. MaxWritten
        BY DEF RoutingInv, RoutingTyped, RoutingAssumed
    <2>1. CASE p # o
        <3>1. \A i \in 1 .. Len(submitted') : submitted'[i].post = p => i \in 1 .. n /\ submitted'[i] = submitted[i]
            BY <2>1, <1>4, <1>6
        <3>2. \A a \in RoutingAgents : injected'[<<p, a>>] = injected[<<p, a>>]
            BY <2>0, <2>1, <1>7
        <3>3. /\ ~Remembered(p) => /\ \A i \in 1 .. n : submitted[i].post # p
                                   /\ \A a \in RoutingAgents : injected[<<p, a>>] = 0
              /\ \A i, k \in 1 .. n : submitted[i].post = p /\ submitted[k].post = p => i = k
              /\ \A a \in RoutingAgents :
                  /\ injected[<<p, a>>] \in {0, 1}
                  /\ injected[<<p, a>>] = 1 =>
                      \A i \in 1 .. n : submitted[i].post = p => submitted[i].agent # a
            BY <1>12 DEF RoutingInv, Meets, n
        <3> QED
            BY <3>1, <3>2, <3>3, <1>10
    <2>2. CASE p = o
        <3>1. RoutingPart!IsGroup(c) /\ ~posts[c.post].bot
            BY <1>12, <2>2 DEF OfPerson, RoutingPart!IsGroup, o
        <3>2. ~Remembered(p) /\ Remembered(p)'
            BY <2>2, <3>1, <1>11
        <3>3. /\ \A i \in 1 .. n : submitted[i].post # p
              /\ \A a \in RoutingAgents : injected[<<p, a>>] = 0
            BY <1>12, <3>2 DEF RoutingInv, Meets, n
        <3>4. \A i \in 1 .. Len(submitted') : submitted'[i].post = p => i = n + 1 /\ submitted'[i].agent = target
            BY <3>3, <1>4, <1>6
        <3>5. \A a \in RoutingAgents : injected'[<<p, a>>] = IF a \in agents THEN 1 ELSE 0
            BY <2>0, <2>2, <3>3, <1>7
        <3>6. target \notin agents
            BY <3>1
        <3> QED
            BY <3>2, <3>4, <3>5, <3>6
    <2> QED
        BY <2>1, <2>2
<1>13. \A p \in 1 .. MaxWritten, a \in RoutingAgents : p > Len(posts) => injected'[<<p, a>>] = 0
    <2>1. \A p \in 1 .. MaxWritten : p > Len(posts) => p # o
        BY <1>2 DEF RoutingInv, RoutingTyped
    <2> QED
        BY <2>1, <1>7 DEF RoutingInv, Meets
<1>14. Meets'
    BY <1>1, <1>9, <1>12, <1>13 DEF Meets
<1>15. RoutingPart!BotsNeedMention'
    <2>1. \A a : RoutingPart!BotUsername(a)' = RoutingPart!BotUsername(a)
        BY <1>1 DEF RoutingPart!BotUsername, RoutingPart!BindingsOf, RoutingPart!Bindings
    <2>2. ASSUME NEW i \in 1 .. Len(submitted'),
                 posts[submitted'[i].post].kind = "group", posts[submitted'[i].post].bot
          PROVE  RoutingPart!BotUsername(submitted'[i].agent) = posts[submitted'[i].post].mention
        <3>1. CASE i \in 1 .. n /\ submitted'[i] = submitted[i]
            BY <2>2, <3>1 DEF RoutingInv, RoutingPart!BotsNeedMention, n
        <3>2. CASE i = n + 1 /\ target # NoBot /\ submitted'[i] = x
            BY <2>2, <3>2, <1>4 DEF RoutingPart!IsGroup, o
        <3> QED
            BY <3>1, <3>2, <1>6
    <2> QED
        BY <1>1, <2>1, <2>2 DEF RoutingPart!BotsNeedMention
<1> QED
    BY <1>8, <1>14, <1>15 DEF RoutingInv

LEMMA NamesKept == RoutingPart!BotsNeedMention /\ UNCHANGED <<posts, config, submitted>> => RoutingPart!BotsNeedMention'
<1> SUFFICES ASSUME RoutingPart!BotsNeedMention, UNCHANGED <<posts, config, submitted>> PROVE RoutingPart!BotsNeedMention'
    OBVIOUS
<1>1. \A a : RoutingPart!BotUsername(a)' = RoutingPart!BotUsername(a)
    BY DEF RoutingPart!BotUsername, RoutingPart!BindingsOf, RoutingPart!Bindings
<1> QED
    BY <1>1 DEF RoutingPart!BotsNeedMention

LEMMA MeetsKept ==
    Meets /\ UNCHANGED <<posts, seen, lapsed, injected, submitted>> => Meets'
<1> SUFFICES ASSUME Meets, UNCHANGED <<posts, seen, lapsed, injected, submitted>> PROVE Meets'
    OBVIOUS
<1>1. \A p : (OfPerson(p)' <=> OfPerson(p)) /\ (Remembered(p)' <=> Remembered(p))
    BY DEF OfPerson, Remembered
<1> QED
    BY <1>1 DEF Meets

LEMMA CopyStep ==
    ASSUME RoutingAssumed, RoutingInv, NEW c \in copies,
           RoutingPart!RouteDM(c) \/ RoutingPart!RouteGroup(c) \/ RoutingPart!Drop(c) \/ RoutingPart!SpaceUnavailable(c)
    PROVE  RoutingInv'
<1>1. injected \in [(1 .. MaxWritten) \X RoutingAgents -> Nat] /\ c \in RoutingPart!Copy
    BY DEF RoutingInv, RoutingTyped
<1>2. UNCHANGED injected => RoutingPart!Inject(c, {})
    BY <1>1 DEF RoutingPart!Inject
<1>3. CASE RoutingPart!Drop(c)
    <2>1. UNCHANGED <<posts, seen, lapsed, config, injected, submitted>> /\ copies' \subseteq copies
        BY <1>3 DEF RoutingPart!Drop
    <2>2. RoutingTyped'
        BY <2>1 DEF RoutingInv, RoutingTyped
    <2>3. Meets'
        BY <2>1, MeetsKept DEF RoutingInv
    <2>4. RoutingPart!BotsNeedMention'
        BY <2>1, NamesKept DEF RoutingInv
    <2> QED
        BY <2>2, <2>3, <2>4 DEF RoutingInv
<1>4. CASE RoutingPart!SpaceUnavailable(c)
    <2>1. RoutingPart!Accept(c) /\ UNCHANGED <<injected, submitted>>
        BY <1>4 DEF RoutingPart!SpaceUnavailable
    <2>2. submitted' = (IF NoBot = NoBot THEN submitted
                         ELSE Append(submitted, [post |-> c.post, agent |-> NoBot, account |-> NoBot]))
        BY <2>1
    <2> QED
        BY <2>1, <2>2, <1>2, Taken
<1>5. CASE RoutingPart!RouteDM(c)
    <2>1. RoutingPart!Accept(c) /\ ~RoutingPart!IsGroup(c) /\ UNCHANGED injected /\ RoutingPart!Submit(c, RoutingPart!MatchAgent(c), c.account)
        BY <1>5 DEF RoutingPart!RouteDM
    <2>2. RoutingPart!MatchAgent(c) # NoBot => RoutingPart!MatchAgent(c) \in RoutingAgents
        <3>1. CASE RoutingPart!Matching(c) = {}
            BY <3>1 DEF RoutingPart!MatchAgent, RoutingAssumed
        <3>2. CASE RoutingPart!Matching(c) # {}
            <4>1. RoutingPart!Matching(c) \subseteq Nat
                BY BindingsTyped DEF RoutingPart!Matching, RoutingInv
            <4>2. RoutingPart!First(RoutingPart!Matching(c)) \in RoutingPart!Matching(c)
                BY <3>2, <4>1, FirstIn
            <4> QED
                BY <3>2, <4>2 DEF RoutingPart!MatchAgent, RoutingPart!Matching
        <3> QED
            BY <3>1, <3>2
    <2>3. c.account \in RoutingAccounts
        BY <1>1 DEF RoutingPart!Copy
    <2>4. submitted' = (IF RoutingPart!MatchAgent(c) = NoBot THEN submitted
                        ELSE Append(submitted, [post |-> c.post, agent |-> RoutingPart!MatchAgent(c), account |-> c.account]))
        BY <2>1 DEF RoutingPart!Submit
    <2> QED
        BY <2>1, <2>2, <2>3, <2>4, <1>2, Taken
<1>6. CASE RoutingPart!RouteGroup(c)
    <2>1. PICK team \in RoutingPart!GroupBehaviorFor(c) :
            LET candidates  == RoutingPart!AgentsBoundToMessage(c)
                target == IF candidates = {} THEN NoBot ELSE RoutingPart!GroupTarget(c, team)
            IN  /\ RoutingPart!Accept(c)
                /\ RoutingPart!IsGroup(c)
                /\ RoutingPart!Inject(c, IF posts[c.post].bot THEN candidates ELSE candidates \ {target})
                /\ RoutingPart!Submit(c, target, RoutingPart!AccountIDForAgent(target))
        BY <1>6 DEF RoutingPart!RouteGroup
    <2> DEFINE candidates  == RoutingPart!AgentsBoundToMessage(c)
               target == IF candidates = {} THEN NoBot ELSE RoutingPart!GroupTarget(c, team)
               agents == IF posts[c.post].bot THEN candidates ELSE candidates \ {target}
    <2>2. RoutingPart!Accept(c) /\ RoutingPart!IsGroup(c) /\ RoutingPart!Inject(c, agents) /\ RoutingPart!Submit(c, target, RoutingPart!AccountIDForAgent(target))
        BY <2>1
    <2>3. target # NoBot => /\ target \in RoutingAgents
                            /\ posts[c.post].bot => RoutingPart!BotUsername(target) = posts[c.post].mention
        BY Target DEF RoutingInv
    <2>4. RoutingPart!AccountIDForAgent(target) \in RoutingAccounts \cup {NoBot} \cup RoutingPart!Named
        BY OwnAccount DEF RoutingInv
    <2>5. ~posts[c.post].bot => target \notin agents
        OBVIOUS
    <2> HIDE DEF target, agents
    <2>6. submitted' = (IF target = NoBot THEN submitted
                        ELSE Append(submitted, [post |-> c.post, agent |-> target, account |-> RoutingPart!AccountIDForAgent(target)]))
        BY <2>2 DEF RoutingPart!Submit
    <2> QED
        BY <2>2, <2>3, <2>4, <2>5, <2>6, Taken
<1> QED
    BY <1>3, <1>4, <1>5, <1>6

LEMMA SweepStep == ASSUME RoutingAssumed, RoutingInv, RoutingPart!SweepDedup PROVE RoutingInv'
<1> DEFINE old == {e \in seen : e.sweeps = 2}
<1>1. /\ seen' = {[e EXCEPT !.sweeps = @ + 1] : e \in seen \ old}
      /\ lapsed' = lapsed \cup {p \in 1 .. Len(posts) : \E e \in old : e.key[1] = posts[p].text}
      /\ UNCHANGED <<posts, copies, config, injected, submitted>>
    BY DEF RoutingPart!SweepDedup
<1>2. ASSUME NEW e \in seen \ old
      PROVE  LET f == [e EXCEPT !.sweeps = @ + 1] IN f \in Entry /\ f.key = e.key
    <2>1. e \in Entry /\ e.sweeps # 2
        BY DEF RoutingInv, RoutingTyped
    <2>2. e = [key |-> e.key, sweeps |-> e.sweeps] /\ e.sweeps + 1 \in 0 .. 2 /\ e.key \in {<<t>> : t \in Nat}
        BY <2>1 DEF Entry
    <2>3. [e EXCEPT !.sweeps = @ + 1] = [key |-> e.key, sweeps |-> e.sweeps + 1]
        BY <2>2
    <2> QED
        BY <2>2, <2>3 DEF Entry
<1>3. RoutingTyped'
    BY <1>1, <1>2 DEF RoutingInv, RoutingTyped
<1>4. ASSUME NEW p \in 1 .. Len(posts), OfPerson(p)' PROVE OfPerson(p) /\ (Remembered(p) => Remembered(p)')
    <2>1. OfPerson(p)
        BY <1>1, <1>4 DEF OfPerson
    <2>2. ASSUME NEW e \in seen, e.key = <<posts[p].text>> PROVE Remembered(p)'
        <3>1. e \notin old
            BY <2>2, <1>1, <1>4 DEF OfPerson
        <3>2. [e EXCEPT !.sweeps = @ + 1] \in seen' /\ [e EXCEPT !.sweeps = @ + 1].key = e.key
            BY <1>1, <1>2, <3>1
        <3> QED
            BY <1>1, <2>2, <3>2 DEF Remembered
    <2> QED
        BY <2>1, <2>2 DEF Remembered
<1>5. Meets'
    BY <1>1, <1>4 DEF RoutingInv, Meets
<1>6. RoutingPart!BotsNeedMention'
    BY <1>1, NamesKept DEF RoutingInv
<1> QED
    BY <1>3, <1>5, <1>6 DEF RoutingInv

LEMMA ConfigureStep ==
    ASSUME RoutingAssumed, RoutingInv, NEW c \in Configurations, RoutingPart!Configure(c) PROVE RoutingInv'
<1>1. posts = <<>> /\ config' = c /\ UNCHANGED <<posts, copies, seen, lapsed, injected, submitted>>
    BY DEF RoutingPart!Configure
<1>2. Len(submitted) \in Nat /\ \A i \in 1 .. Len(submitted) : FALSE
    BY <1>1 DEF RoutingInv, RoutingTyped
<1> QED
    BY <1>1, <1>2 DEF RoutingInv, RoutingTyped, Meets, OfPerson, Remembered, RoutingPart!BotsNeedMention

LEMMA RoutingStep == ASSUME RoutingAssumed PROVE RoutingInv /\ [RoutingPart!Next]_(RoutingPart!vars) => RoutingInv'
<1> SUFFICES ASSUME RoutingInv, [RoutingPart!Next]_(RoutingPart!vars) PROVE RoutingInv'
    OBVIOUS
<1>1. CASE UNCHANGED RoutingPart!vars
    <2>1. RoutingTyped'
        BY <1>1 DEF RoutingPart!vars, RoutingInv, RoutingTyped
    <2>2. Meets'
        BY <1>1, MeetsKept DEF RoutingPart!vars, RoutingInv
    <2>3. RoutingPart!BotsNeedMention'
        BY <1>1, NamesKept DEF RoutingPart!vars, RoutingInv
    <2> QED
        BY <2>1, <2>2, <2>3 DEF RoutingInv
<1> QED
    BY <1>1, WriteStep, CopyStep, SweepStep, ConfigureStep DEF RoutingPart!Next

LEMMA RoutingMeets == ASSUME RoutingAssumed PROVE RoutingInv => RoutingPart!TypeOK /\ RoutingPart!MessagesMetOnce
<1> SUFFICES ASSUME RoutingInv PROVE RoutingPart!TypeOK /\ RoutingPart!MessagesMetOnce
    OBVIOUS
<1>1. RoutingPart!TypeOK
    <2>1. \A e \in seen : e.sweeps \in 0 .. 2
        BY DEF RoutingInv, RoutingTyped, Entry
    <2> QED
        BY <2>1 DEF RoutingInv, RoutingTyped, RoutingPart!TypeOK
<1>2. Len(submitted) \in Nat
    BY DEF RoutingInv, RoutingTyped
<1>3. ASSUME NEW p \in 1 .. Len(posts), OfPerson(p)
      PROVE  /\ Cardinality(RoutingPart!TurnsOn(p)) <= 1
             /\ \A a \in RoutingAgents :
                    injected[<<p, a>>] + Cardinality({i \in RoutingPart!TurnsOn(p) : submitted[i].agent = a}) <= 1
    <2>1. \A i, k \in RoutingPart!TurnsOn(p) : i = k
        BY <1>3 DEF RoutingInv, Meets, RoutingPart!TurnsOn
    <2>2. Cardinality(RoutingPart!TurnsOn(p)) \in {0, 1}
        BY <2>1, AtMostOne
    <2>3. ASSUME NEW a \in RoutingAgents
          PROVE  injected[<<p, a>>] + Cardinality({i \in RoutingPart!TurnsOn(p) : submitted[i].agent = a}) <= 1
        <3> DEFINE T == {i \in RoutingPart!TurnsOn(p) : submitted[i].agent = a}
        <3>1. \A i, k \in T : i = k
            BY <2>1
        <3>2. Cardinality(T) \in {0, 1}
            BY <3>1, AtMostOne
        <3>3. injected[<<p, a>>] \in {0, 1} /\ (injected[<<p, a>>] = 1 => T = {})
            BY <1>3 DEF RoutingInv, Meets, RoutingPart!TurnsOn
        <3>4. T = {} => Cardinality(T) = 0
            BY FS_EmptySet
        <3> HIDE DEF T
        <3>5. injected[<<p, a>>] + Cardinality(T) <= 1
            BY <3>2, <3>3, <3>4
        <3> QED
            BY <3>5 DEF T
    <2> QED
        <3>1. Cardinality(RoutingPart!TurnsOn(p)) <= 1
            BY <2>2
        <3> QED
            BY <3>1, <2>3
<1> QED
    BY <1>1, <1>3, SameCount DEF RoutingInv, RoutingPart!MessagesMetOnce, RoutingPart!MetOnce, OfPerson

--------------------------------------------------------------------------------
(***************************************************************************)
(* ConfigRows.  For any calls of any callers, two channels hold one        *)
(* credential only after one request wrote what it had checked before      *)
(* another one wrote (raced), and no row holds the mask.  Until then a     *)
(* request that nobody overtook found no other row with its credential     *)
(* (Free).                                                                 *)
(***************************************************************************)
SomeRow == [secret |-> RowsPart!NoRow.secret, cred |-> RowsPart!NoRow.cred]

\* A request that no other overtook holds a key that nobody else has.
Free(i) ==
    RowCalls[i].key \in IsChannel /\ rowCall[i].row.cred # NoValue =>
        \A k \in IsChannel \ {RowCalls[i].key} : configRows[k].cred # rowCall[i].row.cred

RowsTyped ==
    /\ DOMAIN configRows = RowKeys /\ configRows = [k \in RowKeys |-> configRows[k]]
    /\ rowCall = [i \in RowsPart!Ids |-> [pc |-> rowCall[i].pc, row |-> rowCall[i].row]]
    /\ RowsPart!TypeOK

RowsInv ==
    /\ RowsTyped /\ RowsPart!CredentialsUnique /\ RowsPart!SecretsReal
    /\ \A i \in RowsPart!Ids : rowCall[i].pc \in {"read", "save"} =>
        /\ rowCall[i].row.secret # Masked
        /\ RowCalls[i].key \notin IsChannel => rowCall[i].row.cred = NoValue
        /\ ~raced /\ i \notin overtaken => Free(i)

LEMMA RowsInit == ASSUME RowsAssumed PROVE RowsPart!Init => RowsInv
<1> SUFFICES ASSUME RowsPart!Init PROVE RowsInv
    OBVIOUS
<1>1. \A k \in RowKeys : configRows[k].secret # Masked /\ configRows[k].cred = NoValue
    BY DEF RowsPart!Init, RowsPart!NoRow, RowsAssumed
<1>2. \A i \in RowsPart!Ids : rowCall[i].pc = "new"
    BY DEF RowsPart!Init
<1>3. RowsTyped
    <2>1. RowsPart!TypeOK
        BY <1>1, <1>2 DEF RowsPart!Init, RowsPart!TypeOK
    <2> QED
        BY <2>1 DEF RowsPart!Init, RowsTyped
<1>4. RowsPart!CredentialsUnique /\ RowsPart!SecretsReal
    BY <1>1 DEF RowsPart!CredentialsUnique, RowsPart!SecretsReal, RowsAssumed
<1> QED
    BY <1>2, <1>3, <1>4 DEF RowsInv

\* A request goes on without writing.
LEMMA RowsRequest ==
    ASSUME RowsAssumed, RowsInv, NEW i \in RowsPart!Ids, NEW pc, NEW row, RowsPart!To(i, pc, row),
           UNCHANGED <<configRows, overtaken, raced>>,
           pc \in {"read", "save", "delete", "rejected"},
           pc \in {"read", "save"} =>
               /\ row.secret # Masked
               /\ RowCalls[i].key \notin IsChannel => row.cred = NoValue
               /\ ~raced /\ i \notin overtaken /\ RowCalls[i].key \in IsChannel /\ row.cred # NoValue =>
                      \A k \in IsChannel \ {RowCalls[i].key} : configRows[k].cred # row.cred
    PROVE  RowsInv'
<1>1. /\ \A j \in RowsPart!Ids : rowCall'[j] = IF j = i THEN [pc |-> pc, row |-> row] ELSE rowCall[j]
      /\ DOMAIN rowCall' = RowsPart!Ids
    BY DEF RowsPart!To, RowsInv, RowsTyped
<1>2. RowsTyped'
    <2>1. rowCall' = [j \in RowsPart!Ids |-> [pc |-> rowCall'[j].pc, row |-> rowCall'[j].row]]
        <3>1. rowCall = [j \in RowsPart!Ids |-> [pc |-> rowCall[j].pc, row |-> rowCall[j].row]]
            BY DEF RowsInv, RowsTyped
        <3>2. rowCall' = [j \in RowsPart!Ids |-> IF j = i THEN [pc |-> pc, row |-> row] ELSE rowCall[j]]
            BY <3>1 DEF RowsPart!To
        <3>3. \A j \in RowsPart!Ids : rowCall[j] = [pc |-> rowCall[j].pc, row |-> rowCall[j].row]
            BY <3>1
        <3> QED
            BY <3>2, <3>3
    <2>2. RowsPart!TypeOK'
        BY <1>1 DEF RowsInv, RowsTyped, RowsPart!TypeOK
    <2> QED
        BY <2>1, <2>2 DEF RowsInv, RowsTyped, RowsPart!Ids
<1>3. RowsPart!CredentialsUnique' /\ RowsPart!SecretsReal'
    BY DEF RowsInv, RowsPart!CredentialsUnique, RowsPart!SecretsReal, RowsPart!Exists
<1> QED
    BY <1>1, <1>2, <1>3 DEF RowsInv, Free, RowsPart!Ids

\* A lookup that finds nothing, or the row itself, finds a key that is free.
LEMMA LookedUp ==
    ASSUME RowsAssumed, RowsPart!CredentialsUnique, ~raced, NEW key \in RowKeys, NEW c, c # NoValue,
           NEW found \in RowsPart!LookupChannelByCredential(c), NEW exclude \in SUBSET {key},
           RowsPart!AssertChannelCredentialUnique(found, exclude),
           SomeRow = RowsPart!NoRow
    PROVE  \A k \in IsChannel \ {key} : configRows[k].cred # c
<1> SUFFICES ASSUME NEW k \in IsChannel, k # key, configRows[k].cred = c PROVE FALSE
    OBVIOUS
<1>1. RowsPart!Exists(k)
    BY DEF RowsPart!Exists, RowsPart!NoRow
<1> DEFINE match == {l \in IsChannel : c # NoValue /\ RowsPart!Exists(l) /\ configRows[l].cred = c}
<1>2. k \in match
    BY <1>1
<1>3. found \in match
    BY <1>2 DEF RowsPart!LookupChannelByCredential
<1>4. found \in RowKeys /\ found # NoValue
    BY <1>3 DEF RowsAssumed
<1>5. found = key
    BY <1>4 DEF RowsPart!AssertChannelCredentialUnique
<1> QED
    BY <1>1, <1>3, <1>5 DEF RowsPart!CredentialsUnique

LEMMA RowsStep == ASSUME RowsAssumed PROVE RowsInv /\ [RowsPart!Next]_(RowsPart!vars) => RowsInv'
<1> SUFFICES ASSUME RowsInv, [RowsPart!Next]_(RowsPart!vars) PROVE RowsInv'
    OBVIOUS
<1>0. SomeRow = RowsPart!NoRow
    BY DEF SomeRow, RowsPart!NoRow
<1>1. CASE UNCHANGED RowsPart!vars
    BY <1>1 DEF RowsPart!vars, RowsInv, RowsTyped, RowsPart!TypeOK, RowsPart!CredentialsUnique, RowsPart!SecretsReal, RowsPart!Exists, Free, RowsPart!Ids
<1>2. ASSUME NEW i \in RowsPart!Ids, RowsPart!Reject(i) PROVE RowsInv'
    <2>1. RowsPart!To(i, "rejected", RowsPart!NoRow) /\ UNCHANGED <<configRows, overtaken, raced>>
        BY <1>2 DEF RowsPart!Reject
    <2> QED
        BY <2>1, RowsRequest
<1>3. ASSUME NEW i \in RowsPart!Ids, RowsPart!CheckCreate(i) PROVE RowsInv'
    <2> DEFINE c == IF RowCalls[i].key \in IsChannel THEN RowsPart!CredentialKeyFor(RowCalls[i].secret, RowCalls[i].cred) ELSE NoValue
               row == [secret |-> RowCalls[i].secret, cred |-> c]
    <2>1. RowsPart!To(i, "save", row) /\ UNCHANGED <<configRows, overtaken, raced>> /\ RowCalls[i].op = "create"
        BY <1>3 DEF RowsPart!CheckCreate
    <2>2. PICK found : found \in RowsPart!LookupChannelByCredential(c) /\ RowsPart!AssertChannelCredentialUnique(found, {})
        BY <1>3 DEF RowsPart!CheckCreate
    <2>3. RowCalls[i].key \in RowKeys /\ row.secret # Masked /\ row.cred = c
        BY <2>1 DEF RowsAssumed, RowsPart!Ids
    <2>4. RowCalls[i].key \notin IsChannel => c = NoValue
        OBVIOUS
    <2> HIDE DEF c
    <2>5. ~raced /\ c # NoValue => \A k \in IsChannel \ {RowCalls[i].key} : configRows[k].cred # c
        BY <1>0, <2>2, <2>3, LookedUp DEF RowsInv
    <2> HIDE DEF row
    <2> QED
        BY <2>1, <2>3, <2>4, <2>5, RowsRequest
<1>4. ASSUME NEW i \in RowsPart!Ids, RowsPart!ReadForUpdate(i) PROVE RowsInv'
    <2>1. /\ RowsPart!To(i, "read", configRows[RowCalls[i].key]) /\ UNCHANGED <<configRows, overtaken, raced>>
          /\ RowCalls[i].key \in RowKeys /\ RowsPart!Exists(RowCalls[i].key)
        BY <1>4 DEF RowsPart!ReadForUpdate, RowsAssumed, RowsPart!Ids
    <2> DEFINE row == configRows[RowCalls[i].key]
    <2>2. row.secret # Masked /\ (RowCalls[i].key \notin IsChannel => row.cred = NoValue)
        BY <2>1 DEF RowsInv, RowsTyped, RowsPart!TypeOK, RowsPart!SecretsReal
    <2>3. ~raced /\ RowCalls[i].key \in IsChannel /\ row.cred # NoValue =>
              \A k \in IsChannel \ {RowCalls[i].key} : configRows[k].cred # row.cred
        BY <2>1 DEF RowsInv, RowsPart!CredentialsUnique
    <2> HIDE DEF row
    <2>4. RowsPart!To(i, "read", row)
        BY <2>1 DEF row
    <2> QED
        BY <2>1, <2>2, <2>3, <2>4, RowsRequest
<1>5. ASSUME NEW i \in RowsPart!Ids, RowsPart!CheckUpdate(i) PROVE RowsInv'
    <2> DEFINE old == rowCall[i].row
               new == RowsPart!Changed(old, i)
    <2>1. /\ rowCall[i].pc = "read" /\ UNCHANGED <<configRows, overtaken, raced>>
          /\ RowCalls[i].key \in RowKeys
        BY <1>5 DEF RowsPart!CheckUpdate, RowsAssumed, RowsPart!Ids
    <2>2. PICK found : /\ found \in RowsPart!LookupChannelByCredential(new.cred)
                       /\ IF new.cred = old.cred \/ RowsPart!AssertChannelCredentialUnique(found, {RowCalls[i].key})
                          THEN RowsPart!To(i, "save", new)
                          ELSE RowsPart!To(i, "rejected", RowsPart!NoRow)
        BY <1>5 DEF RowsPart!CheckUpdate
    <2>3. /\ old.secret # Masked
          /\ RowCalls[i].key \notin IsChannel => old.cred = NoValue
          /\ ~raced /\ i \notin overtaken => Free(i)
        BY <2>1 DEF RowsInv
    <2>4. new.secret # Masked /\ (RowCalls[i].key \notin IsChannel => new.cred = NoValue)
        BY <2>3 DEF RowsPart!Changed
    <2>5. CASE new.cred = old.cred
        <3>1. RowsPart!To(i, "save", new)
            BY <2>2, <2>5
        <3>2. ~raced /\ i \notin overtaken /\ RowCalls[i].key \in IsChannel /\ new.cred # NoValue =>
                  \A k \in IsChannel \ {RowCalls[i].key} : configRows[k].cred # new.cred
            BY <2>3, <2>5 DEF Free
        <3> HIDE DEF new
        <3> QED
            BY <2>1, <2>4, <3>1, <3>2, RowsRequest
    <2>6. CASE RowsPart!AssertChannelCredentialUnique(found, {RowCalls[i].key})
        <3>1. RowsPart!To(i, "save", new)
            BY <2>2, <2>6
        <3> HIDE DEF new
        <3>2. ~raced /\ new.cred # NoValue => \A k \in IsChannel \ {RowCalls[i].key} : configRows[k].cred # new.cred
            BY <1>0, <2>1, <2>2, <2>6, LookedUp DEF RowsInv
        <3> QED
            BY <2>1, <2>4, <3>1, <3>2, RowsRequest
    <2>7. CASE ~(new.cred = old.cred \/ RowsPart!AssertChannelCredentialUnique(found, {RowCalls[i].key}))
        <3>1. RowsPart!To(i, "rejected", RowsPart!NoRow)
            BY <2>2, <2>7
        <3> QED
            BY <2>1, <3>1, RowsRequest
    <2> QED
        BY <2>5, <2>6, <2>7
<1>6. ASSUME NEW i \in RowsPart!Ids, RowsPart!Delete(i) PROVE RowsInv'
    <2>1. RowsPart!To(i, "delete", RowsPart!NoRow) /\ UNCHANGED <<configRows, overtaken, raced>>
        BY <1>6 DEF RowsPart!Delete
    <2> QED
        BY <2>1, RowsRequest
<1>7. ASSUME NEW i \in RowsPart!Ids, RowsPart!SaveConfig(i) \/ RowsPart!DeleteConfig(i) PROVE RowsInv'
    <2> DEFINE key == RowCalls[i].key
               row == IF RowsPart!SaveConfig(i) THEN rowCall[i].row ELSE RowsPart!NoRow
    <2>1. /\ RowsPart!To(i, "done", RowsPart!NoRow) /\ key \in RowKeys /\ configRows' = [configRows EXCEPT ![key] = row]
          /\ RowsPart!SaveConfig(i) => rowCall[i].pc = "save"
        BY <1>7 DEF RowsPart!SaveConfig, RowsPart!DeleteConfig, RowsAssumed, RowsPart!Ids
    <2>2. /\ raced => raced'
          /\ overtaken \subseteq overtaken' /\ overtaken' \subseteq RowsPart!Ids /\ raced' \in BOOLEAN
          /\ RowsPart!SaveConfig(i) => /\ \A j \in RowsPart!Ids \ {i} : rowCall[j].pc \in {"read", "save"} => j \in overtaken'
                                       /\ ~raced' => i \notin overtaken
        BY <1>7 DEF RowsPart!SaveConfig, RowsPart!DeleteConfig, RowsInv, RowsTyped, RowsPart!TypeOK
    <2>3. /\ row.secret # Masked /\ (key \notin IsChannel => row.cred = NoValue)
          /\ ~RowsPart!SaveConfig(i) => row.cred = NoValue
        <3>1. RowsPart!NoRow.secret # Masked /\ RowsPart!NoRow.cred = NoValue
            BY DEF RowsPart!NoRow, RowsAssumed
        <3> QED
            BY <3>1, <2>1 DEF RowsInv
    <2>4. ~raced' /\ key \in IsChannel /\ row.cred # NoValue =>
              \A k \in IsChannel \ {key} : configRows[k].cred # row.cred
        BY <2>1, <2>2, <2>3 DEF RowsInv, Free
    <2>5. /\ \A k \in RowKeys \ {key} : configRows'[k] = configRows[k]
          /\ configRows'[key] = row /\ configRows' = [k \in RowKeys |-> configRows'[k]] /\ DOMAIN configRows' = RowKeys
        BY <2>1 DEF RowsInv, RowsTyped
    <2> HIDE DEF row
    <2>6. /\ \A j \in RowsPart!Ids : rowCall'[j] = IF j = i THEN [pc |-> "done", row |-> RowsPart!NoRow] ELSE rowCall[j]
          /\ rowCall' = [j \in RowsPart!Ids |-> [pc |-> rowCall'[j].pc, row |-> rowCall'[j].row]]
        <3>1. rowCall = [j \in RowsPart!Ids |-> [pc |-> rowCall[j].pc, row |-> rowCall[j].row]]
            BY DEF RowsInv, RowsTyped
        <3>2. rowCall' = [j \in RowsPart!Ids |-> IF j = i THEN [pc |-> "done", row |-> RowsPart!NoRow] ELSE rowCall[j]]
            BY <3>1, <2>1 DEF RowsPart!To
        <3>3. \A j \in RowsPart!Ids : rowCall[j] = [pc |-> rowCall[j].pc, row |-> rowCall[j].row]
            BY <3>1
        <3> QED
            BY <3>2, <3>3
    <2>7. RowsTyped'
        <3>1. \A k \in RowKeys \ IsChannel : configRows'[k].cred = NoValue
            BY <2>3, <2>5 DEF RowsInv, RowsTyped, RowsPart!TypeOK
        <3> QED
            BY <2>2, <2>5, <2>6, <3>1 DEF RowsInv, RowsTyped, RowsPart!TypeOK, RowsPart!Ids
    <2>8. RowsPart!CredentialsUnique'
        <3> SUFFICES ASSUME NEW k \in IsChannel, NEW l \in IsChannel, k # l, configRows'[k].cred # NoValue,
                            configRows'[k].cred = configRows'[l].cred
                     PROVE  raced'
            BY DEF RowsPart!CredentialsUnique
        <3>1. k \in RowKeys /\ l \in RowKeys
            BY DEF RowsAssumed
        <3>2. CASE k = key
            BY <2>4, <2>5, <3>1, <3>2
        <3>3. CASE l = key
            BY <2>4, <2>5, <3>1, <3>3
        <3>4. CASE k # key /\ l # key
            <4>1. configRows'[k] = configRows[k] /\ configRows'[l] = configRows[l]
                BY <2>5, <3>1, <3>4
            <4>2. RowsPart!Exists(k)
                BY <4>1 DEF RowsPart!Exists, RowsPart!NoRow
            <4> QED
                BY <4>1, <4>2, <2>2 DEF RowsInv, RowsPart!CredentialsUnique
        <3> QED
            BY <3>2, <3>3, <3>4
    <2>9. RowsPart!SecretsReal'
        BY <2>3, <2>5 DEF RowsInv, RowsPart!SecretsReal
    <2>10. ASSUME NEW j \in RowsPart!Ids, rowCall'[j].pc \in {"read", "save"}
           PROVE  /\ rowCall'[j].row.secret # Masked
                  /\ RowCalls[j].key \notin IsChannel => rowCall'[j].row.cred = NoValue
                  /\ ~raced' /\ j \notin overtaken' => Free(j)'
        <3>1. j # i /\ rowCall'[j] = rowCall[j]
            BY <2>6, <2>10
        <3>2. ASSUME ~raced', j \notin overtaken' PROVE Free(j)'
            <4>1. ~RowsPart!SaveConfig(i)
                BY <2>2, <2>10, <3>1, <3>2
            <4>2. row.cred = NoValue /\ Free(j)
                BY <2>2, <2>3, <2>10, <3>1, <3>2, <4>1 DEF RowsInv, row
            <4>3. \A k \in IsChannel : configRows'[k].cred = configRows[k].cred \/ configRows'[k].cred = NoValue
                BY <2>5, <4>2 DEF RowsAssumed
            <4> QED
                BY <3>1, <4>2, <4>3 DEF Free
        <3> QED
            BY <2>10, <3>1, <3>2 DEF RowsInv
    <2> QED
        BY <2>7, <2>8, <2>9, <2>10 DEF RowsInv, RowsPart!Ids
<1> QED
    BY <1>1, <1>2, <1>3, <1>4, <1>5, <1>6, <1>7 DEF RowsPart!Next

LEMMA RowsAreSound == RowsInv => RowsPart!TypeOK /\ RowsPart!RowsSound
    BY DEF RowsInv, RowsTyped, RowsPart!RowsSound

--------------------------------------------------------------------------------
(***************************************************************************)
(* Settings.  An update that no other overlaps takes effect, for any       *)
(* namespaces and any patches: while it goes from one namespace to the     *)
(* next every field shows what was asked for or what it showed before, the *)
(* fields of the namespaces it has passed the former (Stands), be the rows *)
(* the user's or the system's.                                             *)
(***************************************************************************)
Value == Nat \cup {Unset}

Progress == [pc : {"new", "read", "save", "done", "failed"}, at : 1 .. Len(Namespaces),
             read : [SettingsPart!Fields -> Value], before : [SettingsPart!Fields -> Value], lone : BOOLEAN]

SettingsTyped ==
    /\ systemRows \in [SettingsPart!Fields -> Value] /\ userRows \in [SettingUsers -> [SettingsPart!Fields -> Value]]
    /\ update \in [Updates -> Progress]

Touched(p) == {f \in SettingsPart!Fields : \E i \in 1 .. update[p].at - 1 : f \in Namespaces[i]}

\* What the environment, the agent and the defaults leave of a value.
Shown(u, f, x) == SettingsPart!OrElse(File[SettingAgent[u]][f], SettingsPart!OrElse(SettingsPart!OrElse(Env[f], x), Default[f]))

\* The value the update will write to a field makes the agent see what the request asks for.
AskedFor(p, f) == SettingsPart!OrElse(File[SettingAgent[By[p]]][f], SettingsPart!OrElse(Env[f], SettingsPart!MergePatch(p, update[p].before)[f]))
Effective(p, f) == Shown(By[p], f, SettingsPart!Setting(By[p], f)) = AskedFor(p, f)
Unchanged(p, f) == Shown(By[p], f, SettingsPart!Setting(By[p], f)) = update[p].before[f]

Right(p, f) ==
    /\ Shown(By[p], f, update[p].read[f]) = AskedFor(p, f)
    /\ update[p].read[f] = Unset => By[p] \in SettingAdmins \/ systemRows[f] = Unset

Stands(p) ==
    /\ \A q \in Updates \ {p} : ~SettingsPart!Active(q)
    /\ update[p].pc = "read" =>
        /\ \A f \in SettingsPart!Fields : Unchanged(p, f)
        /\ \A f \in Touched(p) : update[p].read[f] = SettingsPart!Setting(By[p], f)
    /\ update[p].pc = "save" =>
        /\ \A f \in SettingsPart!Fields : Right(p, f) /\ (Effective(p, f) \/ Unchanged(p, f))
        /\ \A f \in Touched(p) : Effective(p, f)
    /\ update[p].pc = "failed" => \A f \in SettingsPart!Fields : Effective(p, f) \/ Unchanged(p, f)
    /\ update[p].pc = "done" => \A f \in SettingsPart!Fields : Effective(p, f)

SettingsInv ==
    /\ SettingsTyped
    /\ \A u \in SettingUsers \cap SettingAdmins : userRows[u] = SettingsPart!NoField
    /\ \A p \in Updates : update[p].pc = "new" => update[p].at = 1
    /\ \A p \in Updates : update[p].lone /\ update[p].pc # "new" => Stands(p)

LEMMA Seen ==
    ASSUME SettingsAssumed, SettingsTyped, NEW u \in SettingUsers
    PROVE  /\ SettingsPart!MergedAgentConfig(u) \in [SettingsPart!Fields -> Value]
           /\ \A f \in SettingsPart!Fields : /\ SettingsPart!MergedAgentConfig(u)[f] = Shown(u, f, SettingsPart!Setting(u, f))
                                             /\ SettingsPart!Setting(u, f) \in Value
<1>1. \A f \in SettingsPart!Fields : SettingsPart!Setting(u, f) \in Value
    BY DEF SettingsTyped, SettingsPart!Setting, SettingsPart!OrElse
<1>2. \A f \in SettingsPart!Fields : Shown(u, f, SettingsPart!Setting(u, f)) \in Value
    BY <1>1 DEF SettingsAssumed, Value, Shown, SettingsPart!OrElse
<1>3. \A f \in SettingsPart!Fields : SettingsPart!AssembleConfig(u)[f] = SettingsPart!OrElse(SettingsPart!OrElse(Env[f], SettingsPart!Setting(u, f)), Default[f])
    BY DEF SettingsPart!AssembleConfig, SettingsPart!Complete, SettingsPart!ApplyDefaults, SettingsPart!ApplyToConfig
<1>4. SettingsPart!MergedAgentConfig(u) = [f \in SettingsPart!Fields |-> Shown(u, f, SettingsPart!Setting(u, f))]
    BY <1>3 DEF SettingsPart!MergedAgentConfig, Shown
<1> QED
    BY <1>1, <1>2, <1>4

LEMMA SettingsInit == ASSUME SettingsAssumed PROVE SettingsPart!Init => SettingsInv
<1> SUFFICES ASSUME SettingsPart!Init PROVE SettingsInv
    OBVIOUS
<1>1. SettingsPart!NoField \in [SettingsPart!Fields -> Value] /\ 1 \in 1 .. Len(Namespaces)
    BY DEF SettingsPart!NoField, Value, SettingsAssumed
<1>2. update \in [Updates -> Progress]
    BY <1>1 DEF SettingsPart!Init, Progress
<1> QED
    BY <1>1, <1>2 DEF SettingsPart!Init, SettingsInv, SettingsTyped

LEMMA UpdateBegins ==
    ASSUME SettingsAssumed, SettingsInv, NEW p \in Updates, SettingsPart!Begin(p) PROVE SettingsInv'
<1> DEFINE u == By[p]
           lone == \A o \in Updates : ~SettingsPart!Active(o)
           e == [[[update[p] EXCEPT !.pc = "read"] EXCEPT !.before = SettingsPart!MergedAgentConfig(u)] EXCEPT !.lone = lone]
<1>1. /\ u \in SettingUsers /\ update \in [Updates -> Progress] /\ update[p] \in Progress /\ update[p].pc = "new"
      /\ UNCHANGED <<systemRows, userRows>>
    BY DEF SettingsPart!Begin, SettingsAssumed, SettingsInv, SettingsTyped
<1>2. update' = [q \in Updates |-> IF q = p THEN e ELSE [update[q] EXCEPT !.lone = FALSE]]
    BY DEF SettingsPart!Begin
<1>3. SettingsPart!MergedAgentConfig(u) \in [SettingsPart!Fields -> Value]
    BY <1>1, Seen DEF SettingsInv
<1>4. lone \in BOOLEAN
    OBVIOUS
<1>5. /\ e \in Progress /\ e.pc = "read" /\ e.at = update[p].at /\ e.read = update[p].read
      /\ e.before = SettingsPart!MergedAgentConfig(u) /\ e.lone = lone
    <2> HIDE DEF lone, u
    <2> QED
        BY <1>1, <1>3, <1>4 DEF Progress
<1>6. \A q \in Updates : /\ [update[q] EXCEPT !.lone = FALSE] \in Progress
                         /\ [update[q] EXCEPT !.lone = FALSE].lone = FALSE
                         /\ [update[q] EXCEPT !.lone = FALSE].pc = update[q].pc
                         /\ [update[q] EXCEPT !.lone = FALSE].at = update[q].at
    BY <1>1 DEF Progress
<1> HIDE DEF e
<1>7. update' \in [Updates -> Progress] /\ update'[p] = e
      /\ \A q \in Updates \ {p} : update'[q].lone = FALSE /\ update'[q].pc = update[q].pc /\ update'[q].at = update[q].at
    BY <1>2, <1>5, <1>6
<1>8. ASSUME lone PROVE Stands(p)'
    <2>1. \A q \in Updates \ {p} : ~SettingsPart!Active(q)'
        BY <1>7, <1>8 DEF SettingsPart!Active
    <2>2. \A f \in SettingsPart!Fields : Unchanged(p, f)'
        BY <1>1, <1>5, <1>7, Seen DEF SettingsInv, Unchanged, Shown, SettingsPart!Setting
    <2>3. Touched(p)' = {}
        <3>1. update'[p].at = 1
            BY <1>1, <1>5, <1>7 DEF SettingsInv
        <3>2. \A i \in 1 .. 1 - 1 : FALSE
            OBVIOUS
        <3> QED
            BY <3>1, <3>2 DEF Touched
    <2> QED
        BY <1>5, <1>7, <2>1, <2>2, <2>3 DEF Stands
<1> QED
    BY <1>1, <1>5, <1>7, <1>8 DEF SettingsInv, SettingsTyped

\* What is written in place of a value that was shown shows the same, or what was asked.
LEMMA Layers ==
    ASSUME SettingsAssumed, NEW u \in SettingUsers, NEW f \in SettingsPart!Fields, NEW x \in Value
    PROVE  LET y == SettingsPart!OrElse(SettingsPart!OrElse(Env[f], x), Default[f])
           IN  /\ Shown(u, f, y) = SettingsPart!OrElse(File[SettingAgent[u]][f], SettingsPart!OrElse(Env[f], Shown(u, f, x)))
               /\ y \in Value /\ (y = Unset => x = Unset)
               /\ x # Unset => Shown(u, f, x) = SettingsPart!OrElse(File[SettingAgent[u]][f], SettingsPart!OrElse(Env[f], x))
    BY DEF SettingsAssumed, Value, Shown, SettingsPart!OrElse

\* A step of an update that leaves the others as they are.
LEMMA UpdateAlone ==
    ASSUME SettingsInv, NEW p \in Updates, SettingsPart!Active(p), NEW e, update' = [update EXCEPT ![p] = e]
    PROVE  /\ update'[p] = e /\ \A q \in Updates \ {p} : update'[q] = update[q]
           /\ \A q \in Updates \ {p} : update[q].lone => update[q].pc = "new"
           /\ update[p] \in Progress /\ update[p].pc # "new"
           /\ (e \in Progress => update' \in [Updates -> Progress])
    BY DEF SettingsInv, SettingsTyped, Stands, SettingsPart!Active

LEMMA UpdateReads ==
    ASSUME SettingsAssumed, SettingsInv, NEW p \in Updates, SettingsPart!Read(p) PROVE SettingsInv'
<1> DEFINE u == By[p]
           n == update[p].at
           read == [f \in SettingsPart!Fields |-> IF f \in Namespaces[n] THEN SettingsPart!Setting(u, f) ELSE update[p].read[f]]
           values == SettingsPart!MergePatch(p, SettingsPart!Complete(read))
           e == IF n < Len(Namespaces) THEN [[update[p] EXCEPT !.at = n + 1] EXCEPT !.read = read]
                ELSE [[[update[p] EXCEPT !.pc = "save"] EXCEPT !.at = 1] EXCEPT !.read = values]
<1>1. update[p].pc = "read" /\ update' = [update EXCEPT ![p] = e] /\ UNCHANGED <<systemRows, userRows>>
    BY DEF SettingsPart!Read
<1>2. /\ u \in SettingUsers /\ update[p] \in Progress /\ n \in 1 .. Len(Namespaces) /\ Len(Namespaces) \in Nat
      /\ SettingsPart!Active(p)
    BY <1>1 DEF SettingsAssumed, SettingsInv, SettingsTyped, Progress, SettingsPart!Active
<1>3. \A f \in SettingsPart!Fields : SettingsPart!Setting(u, f) \in Value
    BY <1>2, Seen DEF SettingsInv
<1>4. read \in [SettingsPart!Fields -> Value]
    BY <1>2, <1>3 DEF Progress
<1>5. values \in [SettingsPart!Fields -> Value]
      /\ \A f \in SettingsPart!Fields : values[f] = IF f \in DOMAIN Patch[p] THEN Patch[p][f]
                                                     ELSE SettingsPart!OrElse(SettingsPart!OrElse(Env[f], read[f]), Default[f])
    <2>1. \A f \in SettingsPart!Fields : values[f] = IF f \in DOMAIN Patch[p] THEN Patch[p][f]
                                                     ELSE SettingsPart!OrElse(SettingsPart!OrElse(Env[f], read[f]), Default[f])
        BY DEF SettingsPart!MergePatch, SettingsPart!Complete, SettingsPart!ApplyDefaults, SettingsPart!ApplyToConfig
    <2>2. \A f \in SettingsPart!Fields : values[f] \in Value
        <3> SUFFICES ASSUME NEW f \in SettingsPart!Fields PROVE values[f] \in Value
            OBVIOUS
        <3>1. f \in DOMAIN Patch[p] => Patch[p][f] \in Value
            BY DEF SettingsAssumed, Value
        <3>2. SettingsPart!OrElse(SettingsPart!OrElse(Env[f], read[f]), Default[f]) \in Value
            <4>1. read[f] \in Value
                BY <1>4
            <4> HIDE DEF read
            <4> QED
                BY <4>1, <1>2, Layers
        <3> QED
            BY <2>1, <3>1, <3>2
    <2> QED
        BY <2>1, <2>2 DEF SettingsPart!MergePatch
<1> HIDE DEF values
<1>6. /\ e \in Progress /\ e.lone = update[p].lone /\ e.before = update[p].before
      /\ n < Len(Namespaces) => e.pc = "read" /\ e.at = n + 1 /\ e.read = read
      /\ ~(n < Len(Namespaces)) => e.pc = "save" /\ e.at = 1 /\ e.read = values
    <2> HIDE DEF u, read
    <2>1. n + 1 \in 1 .. Len(Namespaces) \/ ~(n < Len(Namespaces))
        BY <1>2
    <2>2. 1 \in 1 .. Len(Namespaces)
        BY <1>2
    <2> QED
        BY <1>1, <1>2, <1>4, <1>5, <2>1, <2>2 DEF Progress
<1> HIDE DEF e
<1>7. /\ update'[p] = e /\ \A q \in Updates \ {p} : update'[q] = update[q]
      /\ \A q \in Updates \ {p} : update[q].lone => update[q].pc = "new"
      /\ update' \in [Updates -> Progress]
    BY <1>1, <1>2, <1>6, UpdateAlone
<1>8. ASSUME update[p].lone PROVE Stands(p)'
    <2>1. /\ \A q \in Updates \ {p} : ~SettingsPart!Active(q)
          /\ \A f \in SettingsPart!Fields : Unchanged(p, f)
          /\ \A f \in Touched(p) : update[p].read[f] = SettingsPart!Setting(u, f)
        BY <1>1, <1>8 DEF SettingsInv, Stands
    <2>2. \A q \in Updates \ {p} : ~SettingsPart!Active(q)'
        BY <2>1, <1>7 DEF SettingsPart!Active
    <2>3. \A f \in SettingsPart!Fields : Unchanged(p, f)'
        BY <2>1, <1>1, <1>6, <1>7 DEF Unchanged, SettingsPart!Setting, Shown
    <2>4. \A f \in SettingsPart!Fields : f \in Namespaces[n] \/ f \in Touched(p) => read[f] = SettingsPart!Setting(u, f)
        BY <2>1
    <2> HIDE DEF read
    <2>5. CASE n < Len(Namespaces)
        <3>1. \A f \in Touched(p)' : f \in SettingsPart!Fields /\ (f \in Namespaces[n] \/ f \in Touched(p))
            <4>1. update'[p].at = n + 1
                BY <2>5, <1>6, <1>7
            <4>2. \A i \in 1 .. update'[p].at - 1 : i = n \/ i \in 1 .. update[p].at - 1
                BY <4>1, <1>2
            <4> QED
                BY <4>2 DEF Touched
        <3> QED
            BY <3>1, <2>2, <2>3, <2>4, <2>5, <1>1, <1>6, <1>7 DEF Stands, SettingsPart!Setting
    <2>6. CASE ~(n < Len(Namespaces))
        <3>1. \A f \in SettingsPart!Fields : read[f] = SettingsPart!Setting(u, f)
            <4>1. \A i \in 1 .. Len(Namespaces) : i = n \/ i \in 1 .. n - 1
                BY <2>6, <1>2
            <4>2. \A f \in SettingsPart!Fields : \E i \in 1 .. Len(Namespaces) : f \in Namespaces[i]
                BY DEF SettingsPart!Fields, SettingsAssumed
            <4> QED
                BY <4>1, <4>2, <2>4 DEF Touched
        <3>2. Touched(p)' = {}
            <4>1. \A i \in 1 .. 1 - 1 : FALSE
                OBVIOUS
            <4> QED
                BY <4>1, <2>6, <1>6, <1>7 DEF Touched
        <3>3. ASSUME NEW f \in SettingsPart!Fields PROVE Right(p, f)'
            <4> DEFINE x == SettingsPart!Setting(u, f)
                       y == SettingsPart!OrElse(SettingsPart!OrElse(Env[f], x), Default[f])
            <4>1. x \in Value /\ update[p].before[f] = Shown(u, f, x)
                BY <1>3, <2>1 DEF Unchanged
            <4>2. /\ Shown(u, f, y) = SettingsPart!OrElse(File[SettingAgent[u]][f], SettingsPart!OrElse(Env[f], update[p].before[f]))
                  /\ y = Unset => x = Unset
                BY <1>2, <4>1, Layers
            <4>3. values[f] = IF f \in DOMAIN Patch[p] THEN Patch[p][f] ELSE y
                BY <3>1, <1>5
            <4>4. SettingsPart!MergePatch(p, update[p].before)[f] = IF f \in DOMAIN Patch[p] THEN Patch[p][f] ELSE update[p].before[f]
                BY DEF SettingsPart!MergePatch
            <4>5. x = Unset => systemRows[f] = Unset
                BY DEF SettingsPart!Setting, SettingsPart!OrElse
            <4>6. Right(p, f)' <=> /\ Shown(u, f, values[f])
                                        = SettingsPart!OrElse(File[SettingAgent[u]][f], SettingsPart!OrElse(Env[f], SettingsPart!MergePatch(p, update[p].before)[f]))
                                   /\ values[f] = Unset => u \in SettingAdmins \/ systemRows[f] = Unset
                BY <2>6, <1>1, <1>6, <1>7 DEF Right, AskedFor, Shown, SettingsPart!MergePatch
            <4> HIDE DEF x, y
            <4>7. CASE f \in DOMAIN Patch[p]
                <5>1. Patch[p][f] \in Value /\ Patch[p][f] # Unset
                    BY <4>7 DEF SettingsAssumed, Value
                <5>2. Shown(u, f, Patch[p][f]) = SettingsPart!OrElse(File[SettingAgent[u]][f], SettingsPart!OrElse(Env[f], Patch[p][f]))
                    BY <5>1, <1>2, Layers
                <5> QED
                    BY <5>1, <5>2, <4>3, <4>4, <4>6, <4>7
            <4>8. CASE f \notin DOMAIN Patch[p]
                BY <4>2, <4>3, <4>4, <4>5, <4>6, <4>8
            <4> QED
                BY <4>7, <4>8
        <3> QED
            BY <3>2, <3>3, <2>2, <2>3, <2>6, <1>1, <1>6, <1>7 DEF Stands
    <2> QED
        BY <2>5, <2>6
<1>9. update'[p].pc # "new" /\ update'[p].lone = update[p].lone
    BY <1>1, <1>6, <1>7
<1> QED
    BY <1>1, <1>7, <1>8, <1>9 DEF SettingsInv, SettingsTyped

LEMMA UpdateSaves ==
    ASSUME SettingsAssumed, SettingsInv, NEW p \in Updates, SettingsPart!Save(p) PROVE SettingsInv'
<1> DEFINE u == By[p]
           n == update[p].at
           values == update[p].read
           e == IF n < Len(Namespaces) THEN [update[p] EXCEPT !.at = n + 1] ELSE [update[p] EXCEPT !.pc = "done"]
<1>1. /\ update[p].pc = "save" /\ update' = [update EXCEPT ![p] = e]
      /\ u \in SettingAdmins => systemRows' = SettingsPart!Write(systemRows, n, values) /\ UNCHANGED userRows
      /\ u \notin SettingAdmins => userRows' = [userRows EXCEPT ![u] = SettingsPart!Write(@, n, values)] /\ UNCHANGED systemRows
    BY DEF SettingsPart!Save
<1>2. /\ u \in SettingUsers /\ update[p] \in Progress /\ n \in 1 .. Len(Namespaces) /\ Len(Namespaces) \in Nat
      /\ SettingsPart!Active(p) /\ values \in [SettingsPart!Fields -> Value]
      /\ systemRows \in [SettingsPart!Fields -> Value] /\ userRows \in [SettingUsers -> [SettingsPart!Fields -> Value]]
    BY <1>1 DEF SettingsAssumed, SettingsInv, SettingsTyped, Progress, SettingsPart!Active
<1>3. /\ e \in Progress /\ e.lone = update[p].lone /\ e.before = update[p].before /\ e.read = values
      /\ n < Len(Namespaces) => e.pc = "save" /\ e.at = n + 1
      /\ ~(n < Len(Namespaces)) => e.pc = "done"
    <2>1. n + 1 \in 1 .. Len(Namespaces) \/ ~(n < Len(Namespaces))
        BY <1>2
    <2> QED
        BY <1>1, <1>2, <2>1 DEF Progress
<1> HIDE DEF e, values
<1>4. /\ update'[p] = e /\ \A q \in Updates \ {p} : update'[q] = update[q]
      /\ \A q \in Updates \ {p} : update[q].lone => update[q].pc = "new"
      /\ update' \in [Updates -> Progress]
    BY <1>1, <1>2, <1>3, UpdateAlone
<1>5. \A rows \in [SettingsPart!Fields -> Value] :
          /\ SettingsPart!Write(rows, n, values) \in [SettingsPart!Fields -> Value]
          /\ \A f \in SettingsPart!Fields : SettingsPart!Write(rows, n, values)[f] = IF f \in Namespaces[n] THEN values[f] ELSE rows[f]
    BY <1>2 DEF SettingsPart!Write
<1>6. /\ systemRows' \in [SettingsPart!Fields -> Value] /\ userRows' \in [SettingUsers -> [SettingsPart!Fields -> Value]]
      /\ \A a \in SettingUsers \cap SettingAdmins : userRows'[a] = userRows[a]
    <2>1. CASE u \in SettingAdmins
        BY <2>1, <1>1, <1>2, <1>5
    <2>2. CASE u \notin SettingAdmins
        <3>1. SettingsPart!Write(userRows[u], n, values) \in [SettingsPart!Fields -> Value]
            BY <1>2, <1>5
        <3> QED
            BY <2>2, <3>1, <1>1, <1>2
    <2> QED
        BY <2>1, <2>2
<1>7. ASSUME update[p].lone PROVE Stands(p)'
    <2>1. /\ \A q \in Updates \ {p} : ~SettingsPart!Active(q)
          /\ \A f \in SettingsPart!Fields : Right(p, f) /\ (Effective(p, f) \/ Unchanged(p, f))
          /\ \A f \in Touched(p) : Effective(p, f)
        BY <1>1, <1>7 DEF SettingsInv, Stands
    <2>2. \A q \in Updates \ {p} : ~SettingsPart!Active(q)'
        BY <2>1, <1>4 DEF SettingsPart!Active
    <2>3. ASSUME NEW f \in SettingsPart!Fields
          PROVE  /\ SettingsPart!Setting(u, f)' = IF f \in Namespaces[n] THEN values[f] ELSE SettingsPart!Setting(u, f)
                 /\ Right(p, f)'
        <3>1. values[f] = Unset => u \in SettingAdmins \/ systemRows[f] = Unset
            BY <2>1 DEF Right, values
        <3>2. CASE u \in SettingAdmins
            <4>1. userRows[u][f] = Unset /\ UNCHANGED userRows
                BY <3>2, <1>1, <1>2 DEF SettingsInv, SettingsPart!NoField
            <4>2. systemRows'[f] = IF f \in Namespaces[n] THEN values[f] ELSE systemRows[f]
                BY <3>2, <1>1, <1>2, <1>5
            <4>3. SettingsPart!Setting(u, f)' = IF f \in Namespaces[n] THEN values[f] ELSE SettingsPart!Setting(u, f)
                BY <4>1, <4>2 DEF SettingsPart!Setting, SettingsPart!OrElse
            <4> QED
                BY <4>3, <3>2, <2>1, <1>3, <1>4 DEF Right, Shown, AskedFor, SettingsPart!MergePatch, values
        <3>3. CASE u \notin SettingAdmins
            <4>1. userRows'[u][f] = (IF f \in Namespaces[n] THEN values[f] ELSE userRows[u][f]) /\ UNCHANGED systemRows
                BY <3>3, <1>1, <1>2, <1>5
            <4>2. SettingsPart!Setting(u, f)' = IF f \in Namespaces[n] THEN values[f] ELSE SettingsPart!Setting(u, f)
                BY <4>1, <3>1, <3>3 DEF SettingsPart!Setting, SettingsPart!OrElse
            <4> QED
                BY <4>1, <4>2, <3>3, <2>1, <1>3, <1>4 DEF Right, Shown, AskedFor, SettingsPart!MergePatch, values
        <3> QED
            BY <3>2, <3>3
    <2>4. ASSUME NEW f \in SettingsPart!Fields
          PROVE  /\ f \in Namespaces[n] => Effective(p, f)'
                 /\ f \notin Namespaces[n] => /\ Effective(p, f) => Effective(p, f)'
                                              /\ Unchanged(p, f) => Unchanged(p, f)'
        <3>1. AskedFor(p, f)' = AskedFor(p, f) /\ \A x : Shown(u, f, x)' = Shown(u, f, x)
            BY <1>3, <1>4 DEF AskedFor, SettingsPart!MergePatch, Shown
        <3>2. f \in Namespaces[n] => Effective(p, f)'
            BY <3>1, <2>1, <2>3 DEF Effective, Right, Shown, values
        <3>3. f \notin Namespaces[n] => Effective(p, f) <=> Effective(p, f)'
            BY <3>1, <2>3 DEF Effective, Shown
        <3>4. f \notin Namespaces[n] => Unchanged(p, f) <=> Unchanged(p, f)'
            BY <2>3, <1>3, <1>4 DEF Unchanged, Shown
        <3> QED
            BY <3>2, <3>3, <3>4
    <2>5. \A f \in SettingsPart!Fields : Effective(p, f)' \/ Unchanged(p, f)'
        BY <2>1, <2>4
    <2>6. \A f \in SettingsPart!Fields : f \in Namespaces[n] \/ f \in Touched(p) => Effective(p, f)'
        BY <2>1, <2>4
    <2>7. CASE n < Len(Namespaces)
        <3>1. \A f \in Touched(p)' : f \in SettingsPart!Fields /\ (f \in Namespaces[n] \/ f \in Touched(p))
            <4>1. update'[p].at = n + 1
                BY <2>7, <1>3, <1>4
            <4>2. \A i \in 1 .. update'[p].at - 1 : i = n \/ i \in 1 .. update[p].at - 1
                BY <4>1, <1>2
            <4> QED
                BY <4>2 DEF Touched
        <3> QED
            BY <3>1, <2>2, <2>3, <2>5, <2>6, <2>7, <1>1, <1>3, <1>4 DEF Stands
    <2>8. CASE ~(n < Len(Namespaces))
        <3>1. \A f \in SettingsPart!Fields : Effective(p, f)'
            <4>1. \A i \in 1 .. Len(Namespaces) : i = n \/ i \in 1 .. n - 1
                BY <2>8, <1>2
            <4>2. \A f \in SettingsPart!Fields : \E i \in 1 .. Len(Namespaces) : f \in Namespaces[i]
                BY DEF SettingsPart!Fields, SettingsAssumed
            <4> QED
                BY <4>1, <4>2, <2>6 DEF Touched
        <3> QED
            BY <3>1, <2>2, <2>8, <1>3, <1>4 DEF Stands
    <2> QED
        BY <2>7, <2>8
<1>8. update'[p].pc # "new" /\ update'[p].lone = update[p].lone
    BY <1>1, <1>3, <1>4
<1> QED
    BY <1>4, <1>6, <1>7, <1>8 DEF SettingsInv, SettingsTyped

LEMMA UpdateFails ==
    ASSUME SettingsAssumed, SettingsInv, NEW p \in Updates, SettingsPart!Fail(p) PROVE SettingsInv'
<1> DEFINE e == [update[p] EXCEPT !.pc = "failed"]
<1>1. SettingsPart!Active(p) /\ update' = [update EXCEPT ![p] = e] /\ UNCHANGED <<systemRows, userRows>>
    BY DEF SettingsPart!Fail
<1>2. e \in Progress /\ e.pc = "failed" /\ e.lone = update[p].lone /\ e.before = update[p].before
    BY DEF SettingsInv, SettingsTyped, Progress
<1> HIDE DEF e
<1>3. /\ update'[p] = e /\ \A q \in Updates \ {p} : update'[q] = update[q]
      /\ \A q \in Updates \ {p} : update[q].lone => update[q].pc = "new"
      /\ update' \in [Updates -> Progress] /\ update[p].pc # "new"
    BY <1>1, <1>2, UpdateAlone
<1>4. ASSUME update[p].lone PROVE Stands(p)'
    <2>1. /\ \A q \in Updates \ {p} : ~SettingsPart!Active(q)
          /\ \A f \in SettingsPart!Fields : Effective(p, f) \/ Unchanged(p, f)
        BY <1>1, <1>3, <1>4 DEF SettingsInv, Stands, SettingsPart!Active
    <2>2. \A q \in Updates \ {p} : ~SettingsPart!Active(q)'
        BY <2>1, <1>3 DEF SettingsPart!Active
    <2>3. \A f \in SettingsPart!Fields : Effective(p, f)' \/ Unchanged(p, f)'
        BY <2>1, <1>1, <1>2, <1>3 DEF Effective, Unchanged, AskedFor, Shown, SettingsPart!Setting, SettingsPart!MergePatch
    <2> QED
        BY <2>2, <2>3, <1>2, <1>3 DEF Stands
<1> QED
    BY <1>1, <1>2, <1>3, <1>4 DEF SettingsInv, SettingsTyped

LEMMA SettingsStep == ASSUME SettingsAssumed PROVE SettingsInv /\ [SettingsPart!Next]_(SettingsPart!vars) => SettingsInv'
<1> SUFFICES ASSUME SettingsInv, [SettingsPart!Next]_(SettingsPart!vars) PROVE SettingsInv'
    OBVIOUS
<1>1. CASE UNCHANGED SettingsPart!vars
    BY <1>1 DEF SettingsPart!vars, SettingsInv, SettingsTyped, Stands, SettingsPart!Active, Touched, Right, Effective, Unchanged, AskedFor, Shown, SettingsPart!Setting
<1> QED
    BY <1>1, UpdateBegins, UpdateReads, UpdateSaves, UpdateFails DEF SettingsPart!Next

LEMMA PatchesTakeEffect == ASSUME SettingsAssumed PROVE SettingsInv => SettingsPart!TypeOK /\ SettingsPart!PatchTakesEffect
<1> SUFFICES ASSUME SettingsInv PROVE SettingsPart!TypeOK /\ SettingsPart!PatchTakesEffect
    OBVIOUS
<1>1. SettingsPart!TypeOK
    BY Seen DEF SettingsInv, SettingsTyped, Progress, SettingsPart!TypeOK, Value
<1>2. ASSUME NEW p \in Updates, update[p].lone, NEW f \in SettingsPart!Fields, update[p].pc # "new"
      PROVE  \/ SettingsPart!MergedAgentConfig(By[p])[f] = AskedFor(p, f)
             \/ update[p].pc # "done" /\ SettingsPart!MergedAgentConfig(By[p])[f] = update[p].before[f]
    <2>1. SettingsPart!MergedAgentConfig(By[p])[f] = Shown(By[p], f, SettingsPart!Setting(By[p], f))
        BY Seen DEF SettingsInv, SettingsAssumed
    <2>2. update[p].pc \in {"read", "save", "done", "failed"} /\ Stands(p)
        BY <1>2 DEF SettingsInv, SettingsTyped, Progress
    <2> QED
        BY <2>1, <2>2 DEF Stands, Effective, Unchanged
<1> QED
    BY <1>1, <1>2 DEF SettingsPart!PatchTakesEffect, AskedFor

--------------------------------------------------------------------------------
(***************************************************************************)
(* Migrations.  What a process that is killed leaves behind, the next one  *)
(* finishes.  The invariant says, for each step, what its process finds    *)
(* (Placed): whoever is past the change of the table does not find the old *)
(* shape, and the old places it has passed are gone; a shape between two   *)
(* is somebody's work, or was when it died (Shaped); and a shared row is   *)
(* only dropped when its owner's file has been seen to (SeenTo).           *)
(***************************************************************************)
Rebuilding == {"create", "copy", "dropOld", "rename"}
Altering == {"dropKey", "addKey"}

\* Who runs which statement, and what it finds.  One process opens a SQLite file; whoever is past the table's
\* change does not find the old shape, and the old places it has passed are gone.
Placed(p) ==
    /\ at[p] # "down" /\ dialect = "sqlite" => p = CHOOSE q \in Processes : TRUE
    /\ at[p] \in Rebuilding => dialect = "sqlite"
    /\ at[p] \in {"add"} \cup Altering => dialect = "postgres"
    /\ at[p] = "files" => table # "absent"
    /\ at[p] \in {"create", "copy", "dropOld"} => table = "old"
    /\ at[p] = "copy" => rebuilt = {}
    /\ at[p] = "dropOld" => rebuilt = shared
    /\ at[p] = "rename" => table = "absent" /\ rebuilt # MigrationsPart!Gone /\ shared = {}
    /\ at[p] = "dropKey" => table = "added"
    /\ at[p] = "addKey" => table = "keyless"
    /\ at[p] \in {"read", "move", "up"} => table # "old" /\ table # "absent"
    /\ at[p] \in {"read", "move"} =>
        /\ toMove[p].of # "none"
        /\ toMove[p].of \in {"entries", "shared"} => legacy["model"] = MigrationsPart!Gone
        /\ toMove[p].of = "shared" => legacy["entries"] = MigrationsPart!Gone
    /\ at[p] = "up" => shared = {} /\ legacy["model"] = MigrationsPart!Gone /\ legacy["entries"] = MigrationsPart!Gone

\* Whose file a process that empties the shared rows has seen to, is the owner's or was deleted.
SeenTo(p) ==
    at[p] = "move" /\ toMove[p].of = "shared" =>
        \A a \in shared \cap Owned : a \in toMove[p].agents \/ owners[a] # {} \/ wish[a] = "deleted"

\* A shape between two is somebody's work, or was when it died.
Shaped ==
    /\ legacy = [k \in MigrationsPart!LegacyKinds |-> legacy[k]]
    /\ dialect = "sqlite" => /\ table \in {"old", "wide", "absent"}
                             /\ rebuilt # MigrationsPart!Gone => torn \/ \E p \in Processes : at[p] \in {"copy", "dropOld", "rename"}
    /\ dialect = "postgres" => /\ rebuilt = MigrationsPart!Gone /\ table # "absent"
                               /\ table \in {"added", "keyless"} => torn \/ \E p \in Processes : at[p] \in Altering
    /\ \A p, q \in Processes : at[p] \in Altering /\ at[q] \in Altering => p = q

MigrInv ==
    /\ MigrationsPart!TypeOK /\ Shaped /\ MigrationsPart!NothingErased /\ MigrationsPart!OwnersKept
    /\ \A p \in Processes : Placed(p) /\ SeenTo(p)

LEMMA MigrInit == ASSUME MigrationsAssumed PROVE MigrationsPart!Init => MigrInv
<1> SUFFICES ASSUME MigrationsPart!Init PROVE MigrInv
    OBVIOUS
<1>1. MigrationsPart!TypeOK
    <2>1. owners \in [Owned -> {{}, {"own"}}]
        BY DEF MigrationsPart!Init
    <2>2. \E some \in {MigrationsPart!Gone, {}, Owned} : legacy = [k \in MigrationsPart!LegacyKinds |-> some]
        BY DEF MigrationsPart!Init
    <2>3. owners \in [Owned -> SUBSET {"own", "moved", "edited"}]
        BY <2>1
    <2>4. \A k \in MigrationsPart!LegacyKinds : legacy[k] = MigrationsPart!Gone \/ legacy[k] \subseteq Owned
        BY <2>2
    <2>5. wish \in [Owned -> {"none", "own", "edited", "deleted"}]
        BY DEF MigrationsPart!Init
    <2>6. toMove \in [Processes -> MigrationsPart!Stage]
        BY DEF MigrationsPart!Init, MigrationsPart!NoWork, MigrationsPart!Stage
    <2>7. configs \in [MigrationsPart!LegacyKinds -> [Owned -> {"none", "moved", "edited"}]]
        BY DEF MigrationsPart!Init
    <2>8. at \in [Processes -> MigrationsPart!Steps] /\ table \in MigrationsPart!Shapes
        BY DEF MigrationsPart!Init, MigrationsPart!Steps, MigrationsPart!Shapes
    <2>9. deaths \in 0..MaxDeaths /\ torn \in BOOLEAN /\ dialect \in {"sqlite", "postgres"} /\ rebuilt = MigrationsPart!Gone
          /\ shared \subseteq MigrationsPart!Agents /\ given \subseteq MigrationsPart!Agents
        <3>1. deaths = 0 /\ torn = FALSE /\ dialect \in {"sqlite", "postgres"} /\ rebuilt = MigrationsPart!Gone
              /\ shared \in SUBSET MigrationsPart!Agents /\ given = shared /\ MaxDeaths \in Nat
            BY Zenon DEF MigrationsPart!Init, MigrationsAssumed
        <3>2. deaths \in 0..MaxDeaths
            BY <3>1
        <3>3. torn \in BOOLEAN
            BY <3>1
        <3>4. shared \subseteq MigrationsPart!Agents /\ given \subseteq MigrationsPart!Agents
            BY <3>1, Zenon
        <3> QED
            BY <3>1, <3>2, <3>3, <3>4
    <2> QED
        BY <2>3, <2>4, <2>5, <2>6, <2>7, <2>8, <2>9 DEF MigrationsPart!TypeOK
<1>2. \A p \in Processes : Placed(p) /\ SeenTo(p)
    BY DEF MigrationsPart!Init, Placed, SeenTo, Rebuilding, Altering
<1>3. Shaped
    BY DEF MigrationsPart!Init, Shaped, Altering
<1>4. MigrationsPart!NothingErased
    BY DEF MigrationsPart!Init, MigrationsPart!NothingErased
<1>5. MigrationsPart!OwnersKept
    BY DEF MigrationsPart!Init, MigrationsPart!OwnersKept
<1> QED
    BY <1>1, <1>2, <1>3, <1>4, <1>5 DEF MigrInv

LEMMA UpIsMigrated == ASSUME MigrInv PROVE MigrationsPart!MigrationSound
<1>1. MigrationsPart!UpMeansMigrated
    <2> SUFFICES ASSUME ~torn, NEW p \in Processes, at[p] = "up", \A q \in Processes : at[q] \notin MigrationsPart!Changing
                 PROVE  /\ shared = {} /\ rebuilt = MigrationsPart!Gone /\ table = "wide"
                        /\ \A k \in MigrationsPart!LegacyKinds : legacy[k] = MigrationsPart!Gone
                        /\ \A a \in given \cap Owned : owners[a] # {} \/ wish[a] = "deleted"
        BY DEF MigrationsPart!UpMeansMigrated
    <2>1. shared = {} /\ legacy["model"] = MigrationsPart!Gone /\ legacy["entries"] = MigrationsPart!Gone /\ table # "old" /\ table # "absent"
        BY DEF MigrInv, Placed
    <2>2. dialect \in {"sqlite", "postgres"} /\ table \in MigrationsPart!Shapes
        BY DEF MigrInv, MigrationsPart!TypeOK
    <2>3. rebuilt = MigrationsPart!Gone /\ table = "wide"
        BY <2>1, <2>2 DEF MigrInv, Shaped, MigrationsPart!Changing, Altering, MigrationsPart!Shapes
    <2> QED
        BY <2>1, <2>3 DEF MigrInv, MigrationsPart!NothingErased, MigrationsPart!LegacyKinds
<1> QED
    BY <1>1 DEF MigrInv, MigrationsPart!MigrationSound

\* Where the others are when p goes to step.
LEMMA Going ==
    ASSUME MigrationsPart!TypeOK, NEW p \in Processes, NEW step \in MigrationsPart!Steps, MigrationsPart!To(p, step)
    PROVE  /\ at' \in [Processes -> MigrationsPart!Steps] /\ at'[p] = step
           /\ \A q \in Processes \ {p} : at'[q] = at[q]
    BY DEF MigrationsPart!To, MigrationsPart!TypeOK

\* A step that leaves the files alone and changes no shape only has to say where its process is now.
LEMMA Moving ==
    ASSUME MigrationsAssumed, MigrInv, NEW p \in Processes, NEW step \in MigrationsPart!Steps, MigrationsPart!To(p, step),
           UNCHANGED <<dialect, table, rebuilt, shared, owners, legacy, given, wish>>,
           configs' \in [MigrationsPart!LegacyKinds -> [Owned -> {"none", "moved", "edited"}]],
           deaths' \in 0..MaxDeaths, torn' \in BOOLEAN, torn => torn',
           at[p] \in {"copy", "dropOld", "rename"} \cup Altering => torn' \/ step = at[p],
           step \notin Altering, toMove' \in [Processes -> MigrationsPart!Stage], \A q \in Processes \ {p} : toMove'[q] = toMove[q],
           Placed(p)' /\ SeenTo(p)'
    PROVE  MigrInv'
<1>1. /\ at' \in [Processes -> MigrationsPart!Steps] /\ at'[p] = step /\ \A q \in Processes \ {p} : at'[q] = at[q]
    BY Going DEF MigrInv
<1>3. MigrationsPart!TypeOK'
    BY <1>1 DEF MigrInv, MigrationsPart!TypeOK
<1>4. ASSUME NEW q \in Processes, q # p PROVE Placed(q)' /\ SeenTo(q)'
    BY <1>1, <1>4 DEF MigrInv, Placed, SeenTo
<1>5. Shaped'
    BY <1>1 DEF MigrInv, Shaped
<1>6. MigrationsPart!NothingErased' /\ MigrationsPart!OwnersKept'
    BY DEF MigrInv, MigrationsPart!NothingErased, MigrationsPart!OwnersKept
<1> QED
    BY <1>3, <1>4, <1>5, <1>6 DEF MigrInv

LEMMA Passing ==
    ASSUME MigrationsAssumed, MigrInv, NEW p \in Processes, NEW step \in MigrationsPart!Steps, MigrationsPart!To(p, step),
           UNCHANGED <<dialect, MigrationsPart!data, given, wish>>, deaths' \in 0..MaxDeaths, torn' \in BOOLEAN, torn => torn',
           at[p] \in {"copy", "dropOld", "rename"} \cup Altering => torn' \/ step = at[p],
           step \notin Altering, toMove' \in [Processes -> MigrationsPart!Stage], \A q \in Processes \ {p} : toMove'[q] = toMove[q],
           Placed(p)' /\ SeenTo(p)'
    PROVE  MigrInv'
<1>1. UNCHANGED <<dialect, table, rebuilt, shared, owners, legacy, given, wish>> /\ configs' = configs
    BY DEF MigrationsPart!data
<1>2. configs' \in [MigrationsPart!LegacyKinds -> [Owned -> {"none", "moved", "edited"}]]
    BY <1>1 DEF MigrInv, MigrationsPart!TypeOK
<1> QED
    BY <1>1, <1>2, Moving

LEMMA OpenStep ==
    ASSUME MigrationsAssumed, MigrInv, NEW p \in Processes, MigrationsPart!Open(p)
    PROVE  MigrInv'
<1>1. /\ MigrationsPart!To(p, "tables") /\ "tables" \in MigrationsPart!Steps /\ at[p] = "down" /\ (dialect = "sqlite" => p = CHOOSE q \in Processes : TRUE)
      /\ UNCHANGED <<dialect, MigrationsPart!data, toMove, MigrationsPart!ghosts>>
    BY DEF MigrationsPart!Open, MigrationsPart!Steps
<1>2. at'[p] = "tables"
    BY <1>1, Going DEF MigrInv
<1>3. Placed(p)' /\ SeenTo(p)'
    BY <1>1, <1>2 DEF Placed, SeenTo, Rebuilding, Altering
<1>4. deaths' \in 0..MaxDeaths /\ torn' \in BOOLEAN /\ torn' = torn /\ toMove' \in [Processes -> MigrationsPart!Stage]
    BY <1>1 DEF MigrInv, MigrationsPart!TypeOK, MigrationsPart!ghosts
<1> QED
    BY <1>1, <1>3, <1>4, Passing DEF MigrationsPart!ghosts, Altering

\* Who runs a statement of SQLite's is alone.
LEMMA OneOpener ==
    ASSUME MigrInv, dialect = "sqlite", NEW p \in Processes, at[p] # "down"
    PROVE  \A q \in Processes \ {p} : at[q] = "down"
    BY DEF MigrInv, Placed

LEMMA CreateTablesStep ==
    ASSUME MigrationsAssumed, MigrInv, NEW p \in Processes, MigrationsPart!CreateTables(p)
    PROVE  MigrInv'
<1>1. /\ at[p] = "tables" /\ MigrationsPart!To(p, "files") /\ "files" \in MigrationsPart!Steps
      /\ table' = IF table = "absent" THEN "wide" ELSE table
      /\ UNCHANGED <<dialect, rebuilt, shared, owners, legacy, configs, toMove, deaths, given, wish, torn>>
    BY DEF MigrationsPart!CreateTables, MigrationsPart!Runs, MigrationsPart!Steps, MigrationsPart!ghosts
<1>2. /\ at' \in [Processes -> MigrationsPart!Steps] /\ at'[p] = "files" /\ \A q \in Processes \ {p} : at'[q] = at[q]
    BY <1>1, Going DEF MigrInv
<1>3. MigrationsPart!TypeOK'
    BY <1>1, <1>2 DEF MigrInv, MigrationsPart!TypeOK, MigrationsPart!Shapes
<1>4. Placed(p)' /\ SeenTo(p)'
    BY <1>1, <1>2 DEF MigrInv, Placed, SeenTo, Rebuilding, Altering
<1>5. ASSUME NEW q \in Processes, q # p PROVE Placed(q)' /\ SeenTo(q)'
    <2>1. CASE table = "absent"
        <3>1. dialect = "sqlite"
            BY <2>1 DEF MigrInv, Shaped, MigrationsPart!TypeOK
        <3>2. at'[q] = "down"
            BY <3>1, <1>1, <1>2, <1>5, OneOpener
        <3> QED
            BY <3>2 DEF Placed, SeenTo, Rebuilding, Altering
    <2>2. CASE table # "absent"
        BY <2>2, <1>1, <1>2, <1>5 DEF MigrInv, Placed, SeenTo
    <2> QED
        BY <2>1, <2>2
<1>6. Shaped'
    BY <1>1, <1>2 DEF MigrInv, Shaped, MigrationsPart!TypeOK, Altering
<1>7. MigrationsPart!NothingErased' /\ MigrationsPart!OwnersKept'
    BY <1>1 DEF MigrInv, MigrationsPart!NothingErased, MigrationsPart!OwnersKept
<1> QED
    BY <1>3, <1>4, <1>5, <1>6, <1>7 DEF MigrInv

LEMMA CheckFilesStep ==
    ASSUME MigrationsAssumed, MigrInv, NEW p \in Processes, MigrationsPart!CheckFiles(p)
    PROVE  MigrInv'
<1>1. at[p] = "files" /\ UNCHANGED <<dialect, MigrationsPart!data, MigrationsPart!ghosts>> /\ dialect \in {"sqlite", "postgres"}
    BY DEF MigrationsPart!CheckFiles, MigrInv, MigrationsPart!TypeOK
<1>2. PICK step \in {"create", "add", "read"} :
        /\ MigrationsPart!To(p, step)
        /\ step # "read" => table = "old" /\ toMove' = toMove /\ step = IF dialect = "sqlite" THEN "create" ELSE "add"
        /\ step = "read" => table # "old" /\ toMove' = [toMove EXCEPT ![p] = MigrationsPart!First("model")]
    BY DEF MigrationsPart!CheckFiles, MigrationsPart!Reads
<1>3. step \in MigrationsPart!Steps /\ at'[p] = step
    BY <1>2, Going DEF MigrInv, MigrationsPart!Steps
<1>4. /\ toMove' \in [Processes -> MigrationsPart!Stage] /\ \A q \in Processes \ {p} : toMove'[q] = toMove[q]
      /\ step = "read" => toMove'[p].of = "model"
    BY <1>2 DEF MigrInv, MigrationsPart!TypeOK, MigrationsPart!First, MigrationsPart!Stage
<1>5. UNCHANGED <<dialect, table, rebuilt, shared, owners, legacy, configs, given, wish, deaths, torn>>
    BY <1>1 DEF MigrationsPart!data, MigrationsPart!ghosts
<1>6. Placed(p)' /\ SeenTo(p)'
    BY <1>1, <1>2, <1>3, <1>4, <1>5 DEF MigrInv, Placed, SeenTo, Rebuilding, Altering
<1>7. deaths' \in 0..MaxDeaths /\ torn' \in BOOLEAN /\ torn' = torn
    BY <1>5 DEF MigrInv, MigrationsPart!TypeOK
<1> QED
    BY <1>1, <1>2, <1>3, <1>4, <1>5, <1>6, <1>7, Passing DEF Altering

LEMMA ChangeRefusedStep ==
    ASSUME MigrationsAssumed, MigrInv, NEW p \in Processes, MigrationsPart!ChangeRefused(p)
    PROVE  MigrInv'
<1>1. /\ at[p] \in {"create", "add"} /\ MigrationsPart!To(p, "down") /\ "down" \in MigrationsPart!Steps
      /\ toMove' = [toMove EXCEPT ![p] = MigrationsPart!NoWork] /\ UNCHANGED <<dialect, MigrationsPart!data, deaths, given, wish, torn>>
    BY DEF MigrationsPart!ChangeRefused, MigrationsPart!Fails, MigrationsPart!ghosts, MigrationsPart!Steps
<1>2. at'[p] = "down"
    BY <1>1, Going DEF MigrInv
<1>3. toMove' \in [Processes -> MigrationsPart!Stage] /\ \A q \in Processes \ {p} : toMove'[q] = toMove[q]
    BY <1>1 DEF MigrInv, MigrationsPart!TypeOK, MigrationsPart!NoWork, MigrationsPart!Stage
<1>4. Placed(p)' /\ SeenTo(p)'
    BY <1>2 DEF Placed, SeenTo, Rebuilding, Altering
<1>5. deaths' \in 0..MaxDeaths /\ torn' \in BOOLEAN /\ torn' = torn
    BY <1>1 DEF MigrInv, MigrationsPart!TypeOK
<1> QED
    BY <1>1, <1>3, <1>4, <1>5, Passing DEF Altering

LEMMA DiesStep ==
    ASSUME MigrationsAssumed, MigrInv, NEW p \in Processes, MigrationsPart!Dies(p)
    PROVE  MigrInv'
<1>1. /\ MigrationsPart!To(p, "down") /\ "down" \in MigrationsPart!Steps /\ toMove' = [toMove EXCEPT ![p] = MigrationsPart!NoWork]
      /\ deaths < MaxDeaths /\ deaths' = deaths + 1 /\ UNCHANGED <<dialect, MigrationsPart!data, given, wish>>
    BY DEF MigrationsPart!Dies, MigrationsPart!Steps
<1>2. torn' \in BOOLEAN /\ (torn => torn') /\ (at[p] \in MigrationsPart!Changing => torn')
    BY Zenon DEF MigrationsPart!Dies
<1>3. at'[p] = "down"
    BY <1>1, Going DEF MigrInv
<1>4. toMove' \in [Processes -> MigrationsPart!Stage] /\ \A q \in Processes \ {p} : toMove'[q] = toMove[q]
    BY <1>1 DEF MigrInv, MigrationsPart!TypeOK, MigrationsPart!NoWork, MigrationsPart!Stage
<1>5. Placed(p)' /\ SeenTo(p)'
    BY <1>3 DEF Placed, SeenTo, Rebuilding, Altering
<1>6. deaths' \in 0..MaxDeaths
    BY <1>1 DEF MigrInv, MigrationsPart!TypeOK, MigrationsAssumed
<1>7. at[p] \in {"copy", "dropOld", "rename"} \cup Altering => torn'
    BY <1>2 DEF MigrationsPart!Changing, Altering
<1> QED
    BY <1>1, <1>2, <1>4, <1>5, <1>6, <1>7, Passing DEF Altering

LEMMA ReadStep ==
    ASSUME MigrationsAssumed, MigrInv, NEW p \in Processes, MigrationsPart!Read(p)
    PROVE  MigrInv'
<1> DEFINE k == toMove[p].of
<1>1. at[p] = "read" /\ UNCHANGED <<dialect, MigrationsPart!data, MigrationsPart!ghosts>> /\ toMove[p] \in MigrationsPart!Stage /\ k \in {"model", "entries", "shared"}
    BY DEF MigrationsPart!Read, MigrInv, MigrationsPart!TypeOK, Placed, MigrationsPart!Stage
<1>5. UNCHANGED <<dialect, table, rebuilt, shared, owners, legacy, configs, given, wish, deaths, torn>>
    BY <1>1 DEF MigrationsPart!data, MigrationsPart!ghosts
<1>7. deaths' \in 0..MaxDeaths /\ torn' \in BOOLEAN /\ torn' = torn
    BY <1>5 DEF MigrInv, MigrationsPart!TypeOK
<1>2. CASE k # "shared" /\ legacy[k] = MigrationsPart!Gone
    <2>1. toMove' = [toMove EXCEPT ![p] = MigrationsPart!First(MigrationsPart!NextKind(k))] /\ at' = at
        BY <1>2 DEF MigrationsPart!Read, MigrationsPart!Reads
    <2>2. MigrationsPart!First(MigrationsPart!NextKind(k)) \in MigrationsPart!Stage /\ MigrationsPart!First(MigrationsPart!NextKind(k)).of = IF k = "model" THEN "entries" ELSE "shared"
        BY <1>1, <1>2 DEF MigrationsPart!First, MigrationsPart!NextKind, MigrationsPart!Stage
    <2>3. toMove' \in [Processes -> MigrationsPart!Stage] /\ (\A q \in Processes \ {p} : toMove'[q] = toMove[q])
          /\ toMove'[p].of = IF k = "model" THEN "entries" ELSE "shared"
        BY <2>1, <2>2 DEF MigrInv, MigrationsPart!TypeOK
    <2>4. Placed(p)
        BY DEF MigrInv
    <2>5. Placed(p)'
        BY <1>1, <1>2, <1>5, <2>1, <2>3, <2>4 DEF Placed, Rebuilding, Altering
    <2>6. SeenTo(p)'
        BY <1>1, <2>1 DEF SeenTo
    <2>7. MigrationsPart!To(p, "read") /\ "read" \in MigrationsPart!Steps
        BY <1>1, <2>1 DEF MigrationsPart!To, MigrInv, MigrationsPart!TypeOK, MigrationsPart!Steps
    <2> QED
        BY <1>1, <1>5, <1>7, <2>3, <2>5, <2>6, <2>7, Passing DEF Altering
<1>3. CASE ~(k # "shared" /\ legacy[k] = MigrationsPart!Gone)
    <2> DEFINE work == IF k = "shared" THEN shared ELSE legacy[k]
    <2>1. MigrationsPart!To(p, "move") /\ toMove' = [toMove EXCEPT ![p].agents = work] /\ "move" \in MigrationsPart!Steps
        BY <1>3 DEF MigrationsPart!Read, MigrationsPart!Steps
    <2>2. work \subseteq MigrationsPart!Agents
        BY <1>1, <1>3 DEF MigrInv, MigrationsPart!TypeOK, MigrationsPart!LegacyKinds, MigrationsPart!Agents
    <2>3. toMove' \in [Processes -> MigrationsPart!Stage] /\ (\A q \in Processes \ {p} : toMove'[q] = toMove[q])
          /\ toMove'[p].of = k /\ toMove'[p].agents = work
        BY <2>1, <2>2, <1>1 DEF MigrInv, MigrationsPart!TypeOK, MigrationsPart!Stage
    <2>4. at'[p] = "move"
        BY <2>1, Going DEF MigrInv
    <2>5. Placed(p)
        BY DEF MigrInv
    <2>6. Placed(p)'
        BY <1>1, <1>5, <2>3, <2>4, <2>5 DEF Placed, Rebuilding, Altering
    <2>7. SeenTo(p)'
        BY <1>1, <1>5, <2>3, <2>4 DEF SeenTo
    <2> QED
        BY <1>1, <1>5, <1>7, <2>1, <2>3, <2>6, <2>7, Passing DEF Altering
<1> QED
    BY <1>2, <1>3

\* Whose process is down owes nothing.
LEMMA DownOwes ==
    ASSUME NEW q, at'[q] = "down"
    PROVE  Placed(q)' /\ SeenTo(q)'
    BY DEF Placed, SeenTo, Rebuilding, Altering

LEMMA StartsReading ==
    ASSUME MigrationsPart!TypeOK, NEW p \in Processes, NEW k \in {"model", "entries", "shared"}, MigrationsPart!Reads(p, k)
    PROVE  /\ toMove' \in [Processes -> MigrationsPart!Stage] /\ toMove'[p].of = k /\ toMove'[p].agents = {}
           /\ \A q \in Processes \ {p} : toMove'[q] = toMove[q]
<1>1. MigrationsPart!First(k) \in MigrationsPart!Stage /\ MigrationsPart!First(k).of = k /\ MigrationsPart!First(k).agents = {}
    BY DEF MigrationsPart!First, MigrationsPart!Stage
<1> QED
    BY <1>1 DEF MigrationsPart!Reads, MigrationsPart!TypeOK

LEMMA RebuildStep ==
    ASSUME MigrationsAssumed, MigrInv, NEW p \in Processes, MigrationsPart!RebuildSQLite(p)
    PROVE  MigrInv'
<1>1. UNCHANGED <<dialect, owners, legacy, configs, deaths, given, wish, torn>>
    BY DEF MigrationsPart!RebuildSQLite, MigrationsPart!ghosts
<1>2. PICK step \in {"copy", "dropOld", "rename", "read"} :
        /\ MigrationsPart!To(p, step)
        /\ step = "copy" => at[p] = "create" /\ rebuilt = MigrationsPart!Gone /\ rebuilt' = {} /\ UNCHANGED <<table, shared, toMove>>
        /\ step = "dropOld" => at[p] = "copy" /\ rebuilt' = shared /\ UNCHANGED <<table, shared, toMove>>
        /\ step = "rename" => at[p] = "dropOld" /\ table' = "absent" /\ shared' = {} /\ UNCHANGED <<rebuilt, toMove>>
        /\ step = "read" => at[p] = "rename" /\ table' = "wide" /\ shared' = rebuilt /\ rebuilt' = MigrationsPart!Gone
                            /\ MigrationsPart!Reads(p, "model")
    BY DEF MigrationsPart!RebuildSQLite, MigrationsPart!Runs
<1>3. step \in MigrationsPart!Steps /\ at' \in [Processes -> MigrationsPart!Steps] /\ at'[p] = step /\ \A q \in Processes \ {p} : at'[q] = at[q]
    <2>1. step \in MigrationsPart!Steps
        BY DEF MigrationsPart!Steps
    <2> QED
        BY <2>1, <1>2, Going DEF MigrInv
<1>4. at[p] \in Rebuilding /\ at[p] # "down"
    BY <1>2 DEF Rebuilding
<1>5. dialect = "sqlite" /\ p = CHOOSE q \in Processes : TRUE
    BY <1>4 DEF MigrInv, Placed
<1>6. \A q \in Processes \ {p} : at'[q] = "down"
    BY <1>3, <1>4, <1>5, OneOpener
<1>7. toMove' \in [Processes -> MigrationsPart!Stage] /\ (step = "read" => toMove'[p].of = "model")
    <2>1. CASE step = "read"
        BY <2>1, <1>2, StartsReading DEF MigrInv
    <2>2. CASE step # "read"
        BY <2>2, <1>2 DEF MigrInv, MigrationsPart!TypeOK
    <2> QED
        BY <2>1, <2>2
<1>8. MigrationsPart!Gone # shared /\ MigrationsPart!Gone # {}
    BY DEF MigrInv, MigrationsPart!TypeOK, MigrationsPart!Gone, MigrationsAssumed
<1>9. /\ at[p] \in {"create", "copy", "dropOld"} => table = "old"
      /\ at[p] = "copy" => rebuilt = {}
      /\ at[p] = "dropOld" => rebuilt = shared
      /\ at[p] = "rename" => rebuilt # MigrationsPart!Gone /\ shared = {}
    BY DEF MigrInv, Placed
<1>10. MigrationsPart!TypeOK'
    BY <1>1, <1>2, <1>3, <1>7, <1>9 DEF MigrInv, MigrationsPart!TypeOK, MigrationsPart!Shapes
<1>11. Placed(p)'
    BY <1>1, <1>2, <1>3, <1>5, <1>7, <1>8, <1>9 DEF Placed, Rebuilding, Altering
<1>12. SeenTo(p)'
    BY <1>3 DEF SeenTo
<1>13. Shaped'
    <2>1. table' \in {"old", "wide", "absent"}
        BY <1>2, <1>9
    <2>2. rebuilt' # MigrationsPart!Gone => at'[p] \in {"copy", "dropOld", "rename"}
        BY <1>2, <1>3
    <2>3. \A q \in Processes : at'[q] \notin Altering
        BY <1>3, <1>6 DEF Altering
    <2>4. legacy' = [k \in MigrationsPart!LegacyKinds |-> legacy'[k]]
        BY <1>1 DEF MigrInv, Shaped
    <2> QED
        BY <2>1, <2>2, <2>3, <2>4, <1>1, <1>5 DEF Shaped
<1>14. MigrationsPart!NothingErased'
    BY <1>1, <1>2, <1>8, <1>9 DEF MigrInv, MigrationsPart!NothingErased
<1>15. MigrationsPart!OwnersKept'
    BY <1>1 DEF MigrInv, MigrationsPart!OwnersKept
<1> QED
    BY <1>6, <1>10, <1>11, <1>12, <1>13, <1>14, <1>15, DownOwes DEF MigrInv

LEMMA AlterStep ==
    ASSUME MigrationsAssumed, MigrInv, NEW p \in Processes, MigrationsPart!AlterPostgres(p)
    PROVE  MigrInv'
<1>1. UNCHANGED <<dialect, rebuilt, shared, owners, legacy, configs, deaths, given, wish, torn>>
    BY DEF MigrationsPart!AlterPostgres, MigrationsPart!ghosts
<1>2. PICK step \in {"dropKey", "addKey", "read"} :
        /\ MigrationsPart!To(p, step)
        /\ step = "dropKey" => at[p] = "add" /\ table = "old" /\ table' = "added" /\ UNCHANGED toMove
        /\ step = "addKey" => at[p] = "dropKey" /\ table' = "keyless" /\ UNCHANGED toMove
        /\ step = "read" => at[p] = "addKey" /\ table' = "wide" /\ MigrationsPart!Reads(p, "model")
    BY DEF MigrationsPart!AlterPostgres, MigrationsPart!Runs
<1>3. step \in MigrationsPart!Steps /\ at' \in [Processes -> MigrationsPart!Steps] /\ at'[p] = step /\ \A q \in Processes \ {p} : at'[q] = at[q]
    <2>1. step \in MigrationsPart!Steps
        BY DEF MigrationsPart!Steps
    <2> QED
        BY <2>1, <1>2, Going DEF MigrInv
<1>4. at[p] \in {"add"} \cup Altering /\ at[p] # "down"
    BY <1>2 DEF Altering
<1>5. dialect = "postgres"
    BY <1>4 DEF MigrInv, Placed
<1>7. /\ toMove' \in [Processes -> MigrationsPart!Stage] /\ (step = "read" => toMove'[p].of = "model")
      /\ \A q \in Processes \ {p} : toMove'[q] = toMove[q]
    <2>1. CASE step = "read"
        BY <2>1, <1>2, StartsReading DEF MigrInv
    <2>2. CASE step # "read"
        BY <2>2, <1>2 DEF MigrInv, MigrationsPart!TypeOK
    <2> QED
        BY <2>1, <2>2
<1>8. \A q \in Processes \ {p} : at[q] \notin Altering
    <2> SUFFICES ASSUME NEW q \in Processes, q # p, at[q] \in Altering PROVE FALSE
        OBVIOUS
    <2>1. CASE at[p] \in Altering
        BY <2>1 DEF MigrInv, Shaped
    <2>2. CASE at[p] = "add"
        <3>1. table = "old"
            BY <2>2, <1>2
        <3> QED
            BY <3>1 DEF MigrInv, Placed, Altering
    <2> QED
        BY <2>1, <2>2, <1>4
<1>9. MigrationsPart!TypeOK'
    BY <1>1, <1>2, <1>3, <1>7 DEF MigrInv, MigrationsPart!TypeOK, MigrationsPart!Shapes
<1>10. Placed(p)'
    BY <1>1, <1>2, <1>3, <1>5, <1>7 DEF Placed, Rebuilding, Altering
<1>11. SeenTo(p)'
    BY <1>3 DEF SeenTo
<1>12. ASSUME NEW q \in Processes, q # p PROVE Placed(q)' /\ SeenTo(q)'
    <2>1. Placed(q) /\ SeenTo(q) /\ at'[q] = at[q] /\ toMove'[q] = toMove[q] /\ at[q] \notin Altering
        BY <1>3, <1>7, <1>8, <1>12 DEF MigrInv
    <2>2. at[q] \notin Rebuilding
        BY <2>1, <1>5 DEF Placed
    <2>3. table' \in {"added", "keyless", "wide"}
        BY <1>2
    <2>4. Placed(q)'
        BY <2>1, <2>2, <2>3, <1>1 DEF Placed, Rebuilding, Altering
    <2> QED
        BY <2>1, <2>4, <1>1 DEF SeenTo
<1>13. Shaped'
    <2>1. rebuilt' = MigrationsPart!Gone /\ table' # "absent"
        BY <1>1, <1>2, <1>5 DEF MigrInv, Shaped
    <2>2. table' \in {"added", "keyless"} => at'[p] \in Altering
        BY <1>2, <1>3 DEF Altering
    <2>3. legacy' = [k \in MigrationsPart!LegacyKinds |-> legacy'[k]]
        BY <1>1 DEF MigrInv, Shaped
    <2> QED
        BY <2>1, <2>2, <2>3, <1>1, <1>3, <1>5, <1>8 DEF Shaped
<1>14. MigrationsPart!NothingErased' /\ MigrationsPart!OwnersKept'
    BY <1>1 DEF MigrInv, MigrationsPart!NothingErased, MigrationsPart!OwnersKept
<1> QED
    BY <1>9, <1>10, <1>11, <1>12, <1>13, <1>14 DEF MigrInv

\* What a process that moves agents has left of them.
LEMMA OneDone ==
    ASSUME MigrationsPart!TypeOK, NEW p \in Processes, NEW a, MigrationsPart!Done(p, a)
    PROVE  /\ toMove' \in [Processes -> MigrationsPart!Stage] /\ toMove'[p].of = toMove[p].of
           /\ toMove'[p].agents = toMove[p].agents \ {a} /\ \A q \in Processes \ {p} : toMove'[q] = toMove[q]
<1>1. toMove[p].agents \ {a} \in SUBSET MigrationsPart!Agents
    BY DEF MigrationsPart!TypeOK, MigrationsPart!Stage
<1> QED
    BY <1>1 DEF MigrationsPart!Done, MigrationsPart!TypeOK, MigrationsPart!Stage

LEMMA FailsStep ==
    ASSUME MigrationsAssumed, MigrInv, NEW p \in Processes, at[p] = "move", MigrationsPart!Fails(p), UNCHANGED <<dialect, MigrationsPart!ghosts>>
    PROVE  MigrInv'
<1>1. /\ MigrationsPart!To(p, "down") /\ "down" \in MigrationsPart!Steps
      /\ toMove' = [toMove EXCEPT ![p] = MigrationsPart!NoWork] /\ UNCHANGED <<dialect, MigrationsPart!data, deaths, given, wish, torn>>
    BY DEF MigrationsPart!Fails, MigrationsPart!ghosts, MigrationsPart!Steps
<1>2. at'[p] = "down"
    BY <1>1, Going DEF MigrInv
<1>3. toMove' \in [Processes -> MigrationsPart!Stage] /\ \A q \in Processes \ {p} : toMove'[q] = toMove[q]
    BY <1>1 DEF MigrInv, MigrationsPart!TypeOK, MigrationsPart!NoWork, MigrationsPart!Stage
<1>5. deaths' \in 0..MaxDeaths /\ torn' \in BOOLEAN /\ torn' = torn
    BY <1>1 DEF MigrInv, MigrationsPart!TypeOK
<1> QED
    BY <1>1, <1>2, <1>3, <1>5, DownOwes, Passing DEF Altering

\* The agent is done with, and no file changes.
LEMMA DoneStep ==
    ASSUME MigrationsAssumed, MigrInv, NEW p \in Processes, NEW a, at[p] = "move", MigrationsPart!Done(p, a),
           UNCHANGED <<dialect, at, table, rebuilt, shared, owners, legacy, MigrationsPart!ghosts>>,
           configs' \in [MigrationsPart!LegacyKinds -> [Owned -> {"none", "moved", "edited"}]],
           toMove[p].of = "shared" /\ a \in Owned => owners[a] # {}
    PROVE  MigrInv'
<1>1. /\ toMove' \in [Processes -> MigrationsPart!Stage] /\ toMove'[p].of = toMove[p].of
      /\ toMove'[p].agents = toMove[p].agents \ {a} /\ \A q \in Processes \ {p} : toMove'[q] = toMove[q]
    BY OneDone DEF MigrInv
<1>2. MigrationsPart!To(p, "move") /\ "move" \in MigrationsPart!Steps
    BY DEF MigrationsPart!To, MigrInv, MigrationsPart!TypeOK, MigrationsPart!Steps
<1>3. Placed(p) /\ SeenTo(p)
    BY DEF MigrInv
<1>4. Placed(p)'
    BY <1>1, <1>3 DEF Placed
<1>5. SeenTo(p)'
    BY <1>1, <1>3 DEF SeenTo, MigrationsPart!ghosts
<1>6. deaths' \in 0..MaxDeaths /\ torn' \in BOOLEAN /\ torn' = torn
    BY DEF MigrInv, MigrationsPart!TypeOK, MigrationsPart!ghosts
<1> QED
    BY <1>1, <1>2, <1>4, <1>5, <1>6, Moving DEF Altering, MigrationsPart!ghosts

LEMMA MoveSettingStep ==
    ASSUME MigrationsAssumed, MigrInv, NEW p \in Processes, NEW a \in MigrationsPart!Agents, MigrationsPart!MoveSetting(p, a)
    PROVE  MigrInv'
<1> DEFINE k == toMove[p].of
<1>1. at[p] = "move" /\ k \in MigrationsPart!LegacyKinds /\ k # "shared" /\ UNCHANGED <<dialect, MigrationsPart!ghosts>>
    BY DEF MigrationsPart!MoveSetting, MigrationsPart!LegacyKinds
<1>2. CASE configs[k][a] # "none"
    <2>1. MigrationsPart!Done(p, a) /\ UNCHANGED <<at, MigrationsPart!data>>
        BY <1>2 DEF MigrationsPart!MoveSetting
    <2>2. configs' \in [MigrationsPart!LegacyKinds -> [Owned -> {"none", "moved", "edited"}]]
        BY <2>1 DEF MigrInv, MigrationsPart!TypeOK, MigrationsPart!data
    <2> QED
        BY <2>1, <2>2, <1>1, DoneStep DEF MigrationsPart!data
<1>3. CASE configs[k][a] = "none" /\ dialect = "postgres"
    BY <1>1, <1>3, FailsStep DEF MigrationsPart!MoveSetting
<1>4. CASE configs[k][a] = "none" /\ dialect # "postgres"
    <2>1. /\ configs' = [configs EXCEPT ![k][a] = "moved"]
          /\ MigrationsPart!Done(p, a) /\ UNCHANGED <<at, table, rebuilt, shared, owners, legacy>>
        BY <1>4 DEF MigrationsPart!MoveSetting
    <2>2. configs' \in [MigrationsPart!LegacyKinds -> [Owned -> {"none", "moved", "edited"}]]
        BY <2>1, <1>1 DEF MigrInv, MigrationsPart!TypeOK
    <2> QED
        BY <2>1, <2>2, <1>1, DoneStep
<1> QED
    BY <1>2, <1>3, <1>4

\* The owner's rows of a change, and what the owner wishes of them with it.
LEMMA RowsChange ==
    ASSUME MigrInv, NEW a \in Owned, NEW c \in SUBSET {"own", "moved", "edited"},
           NEW w \in {"none", "own", "edited", "deleted"},
           owners' = [owners EXCEPT ![a] = c], wish' = [wish EXCEPT ![a] = w],
           UNCHANGED <<dialect, table, rebuilt, shared, legacy, configs, at, deaths, given, torn>>,
           toMove' \in [Processes -> MigrationsPart!Stage],
           \A q \in Processes : /\ toMove'[q].of = toMove[q].of
                                /\ toMove[q].agents \ {a} \subseteq toMove'[q].agents,
           c # {} \/ w = "deleted", w \in {"own", "edited"} => w \in c
    PROVE  MigrInv'
<1>1. /\ owners'[a] = c /\ wish'[a] = w
      /\ \A b \in Owned \ {a} : owners'[b] = owners[b] /\ wish'[b] = wish[b]
    BY DEF MigrInv, MigrationsPart!TypeOK
<1>2. MigrationsPart!TypeOK'
    BY DEF MigrInv, MigrationsPart!TypeOK
<1>3. ASSUME NEW q \in Processes PROVE Placed(q)' /\ SeenTo(q)'
    <2>1. Placed(q) /\ SeenTo(q)
        BY DEF MigrInv
    <2>2. Placed(q)'
        BY <2>1 DEF Placed
    <2>3. SeenTo(q)'
        BY <2>1, <1>1 DEF SeenTo
    <2> QED
        BY <2>2, <2>3
<1>4. Shaped'
    BY DEF MigrInv, Shaped
<1>5. MigrationsPart!NothingErased'
    BY <1>1 DEF MigrInv, MigrationsPart!NothingErased
<1>6. MigrationsPart!OwnersKept'
    BY <1>1 DEF MigrInv, MigrationsPart!OwnersKept
<1> QED
    BY <1>2, <1>3, <1>4, <1>5, <1>6 DEF MigrInv

LEMMA InsertStep ==
    ASSUME MigrationsAssumed, MigrInv, NEW p \in Processes, NEW a \in Owned, at[p] = "move", MigrationsPart!Insert(p, a),
           UNCHANGED <<dialect, MigrationsPart!ghosts>>
    PROVE  MigrInv'
<1>1. CASE MigrationsPart!Collides(a)
    BY <1>1, FailsStep DEF MigrationsPart!Insert
<1>2. CASE ~MigrationsPart!Collides(a)
    <2> DEFINE c == owners[a] \cup {"moved"}
    <2>1. /\ owners' = [owners EXCEPT ![a] = c] /\ MigrationsPart!Done(p, a)
          /\ UNCHANGED <<at, table, rebuilt, shared, legacy, configs>>
        BY <1>2 DEF MigrationsPart!Insert, MigrationsPart!Reparented
    <2>2. /\ toMove' \in [Processes -> MigrationsPart!Stage] /\ toMove'[p].of = toMove[p].of
          /\ toMove'[p].agents = toMove[p].agents \ {a} /\ \A q \in Processes \ {p} : toMove'[q] = toMove[q]
        BY <2>1, OneDone DEF MigrInv
    <2>3. \A q \in Processes : toMove'[q].of = toMove[q].of /\ toMove[q].agents \ {a} \subseteq toMove'[q].agents
        BY <2>2
    <2>4. wish' = [wish EXCEPT ![a] = wish[a]] /\ wish[a] \in {"none", "own", "edited", "deleted"}
        BY DEF MigrationsPart!ghosts, MigrInv, MigrationsPart!TypeOK
    <2>5. c \in SUBSET {"own", "moved", "edited"} /\ c # {} /\ (wish[a] \in {"own", "edited"} => wish[a] \in c)
        BY DEF MigrInv, MigrationsPart!TypeOK, MigrationsPart!OwnersKept
    <2> HIDE DEF c
    <2> QED
        BY <2>1, <2>2, <2>3, <2>4, <2>5, RowsChange DEF MigrationsPart!ghosts
<1> QED
    BY <1>1, <1>2

LEMMA ReparentStep ==
    ASSUME MigrationsAssumed, MigrInv, NEW p \in Processes, NEW a \in MigrationsPart!Agents, MigrationsPart!Reparent(p, a) \/ MigrationsPart!ReparentLate(p, a)
    PROVE  MigrInv'
<1>1. at[p] = "move" /\ UNCHANGED <<dialect, MigrationsPart!ghosts>>
    BY DEF MigrationsPart!Reparent, MigrationsPart!ReparentLate
<1>2. CASE MigrationsPart!ReparentLate(p, a)
    BY <1>1, <1>2, InsertStep DEF MigrationsPart!ReparentLate
<1>3. CASE MigrationsPart!Reparent(p, a) /\ (a \in Orphans \/ owners[a] # {})
    <2>1. MigrationsPart!Done(p, a) /\ UNCHANGED <<at, MigrationsPart!data>>
        BY <1>3 DEF MigrationsPart!Reparent
    <2>2. configs' \in [MigrationsPart!LegacyKinds -> [Owned -> {"none", "moved", "edited"}]]
        BY <2>1 DEF MigrInv, MigrationsPart!TypeOK, MigrationsPart!data
    <2>3. a \in Owned => owners[a] # {}
        BY <1>3 DEF MigrationsAssumed
    <2> QED
        BY <2>1, <2>2, <2>3, <1>1, DoneStep DEF MigrationsPart!data
<1>4. CASE MigrationsPart!Reparent(p, a) /\ ~(a \in Orphans \/ owners[a] # {})
    <2>1. MigrationsPart!Insert(p, a) /\ a \in Owned
        BY <1>4 DEF MigrationsPart!Reparent, MigrationsPart!Agents
    <2> QED
        BY <2>1, <1>1, InsertStep
<1> QED
    BY <1>2, <1>3, <1>4

LEMMA DropStep ==
    ASSUME MigrationsAssumed, MigrInv, NEW p \in Processes, MigrationsPart!DropOldPlace(p)
    PROVE  MigrInv'
<1> DEFINE k == toMove[p].of
<1>1. /\ at[p] = "move" /\ toMove[p].agents = {}
      /\ UNCHANGED <<dialect, table, rebuilt, owners, configs, deaths, given, wish, torn>>
    BY DEF MigrationsPart!DropOldPlace, MigrationsPart!ghosts
<1>2. PICK step \in {"up", "read"} :
        /\ MigrationsPart!To(p, step)
        /\ step = "up" => k = "shared" /\ shared' = {} /\ toMove' = [toMove EXCEPT ![p] = MigrationsPart!NoWork] /\ UNCHANGED legacy
        /\ step = "read" => k # "shared" /\ legacy' = [legacy EXCEPT ![k] = MigrationsPart!Gone] /\ MigrationsPart!Reads(p, MigrationsPart!NextKind(k))
                            /\ UNCHANGED shared
    BY DEF MigrationsPart!DropOldPlace
<1>3. step \in MigrationsPart!Steps /\ at' \in [Processes -> MigrationsPart!Steps] /\ at'[p] = step /\ \A q \in Processes \ {p} : at'[q] = at[q]
    <2>1. step \in MigrationsPart!Steps
        BY DEF MigrationsPart!Steps
    <2> QED
        BY <2>1, <1>2, Going DEF MigrInv
<1>4. Placed(p) /\ SeenTo(p) /\ toMove[p] \in MigrationsPart!Stage
    BY DEF MigrInv, MigrationsPart!TypeOK
<1>5. k \in {"model", "entries", "shared"}
    BY <1>1, <1>4 DEF Placed, MigrationsPart!Stage
<1>6. /\ toMove' \in [Processes -> MigrationsPart!Stage] /\ \A q \in Processes \ {p} : toMove'[q] = toMove[q]
      /\ step = "read" => toMove'[p].of = IF k = "model" THEN "entries" ELSE "shared"
    <2>1. CASE step = "read"
        <3>1. MigrationsPart!NextKind(k) \in {"model", "entries", "shared"} /\ MigrationsPart!NextKind(k) = IF k = "model" THEN "entries" ELSE "shared"
            BY DEF MigrationsPart!NextKind
        <3> QED
            BY <2>1, <3>1, <1>2, StartsReading DEF MigrInv
    <2>2. CASE step = "up"
        BY <2>2, <1>2 DEF MigrInv, MigrationsPart!TypeOK, MigrationsPart!NoWork, MigrationsPart!Stage
    <2> QED
        BY <2>1, <2>2
<1>7. /\ legacy' = [x \in MigrationsPart!LegacyKinds |-> legacy'[x]]
      /\ \A x \in MigrationsPart!LegacyKinds : legacy'[x] = legacy[x] \/ legacy'[x] = MigrationsPart!Gone
      /\ step = "read" => legacy'[k] = MigrationsPart!Gone
      /\ shared' \in SUBSET shared
    <2>1. legacy = [x \in MigrationsPart!LegacyKinds |-> legacy[x]]
        BY DEF MigrInv, Shaped
    <2>2. CASE step = "read"
        <3>1. k \in MigrationsPart!LegacyKinds /\ legacy' = [legacy EXCEPT ![k] = MigrationsPart!Gone] /\ shared' = shared
            BY <2>2, <1>2, <1>5 DEF MigrationsPart!LegacyKinds
        <3> HIDE DEF k
        <3>2. DOMAIN legacy = MigrationsPart!LegacyKinds
            BY <2>1
        <3>3. legacy' = [x \in MigrationsPart!LegacyKinds |-> IF x = k THEN MigrationsPart!Gone ELSE legacy[x]]
            BY <3>1, <3>2
        <3> QED
            BY <3>1, <3>3, <2>2
    <2>3. CASE step = "up"
        <3>1. legacy' = legacy /\ shared' = {}
            BY <2>3, <1>2
        <3> QED
            BY <3>1, <2>1, <2>3
    <2> QED
        BY <2>2, <2>3
<1>8. MigrationsPart!TypeOK'
    BY <1>1, <1>3, <1>6, <1>7 DEF MigrInv, MigrationsPart!TypeOK
<1>9. Placed(p)'
    <2>1. /\ legacy["model"] = MigrationsPart!Gone => legacy'["model"] = MigrationsPart!Gone
          /\ legacy["entries"] = MigrationsPart!Gone => legacy'["entries"] = MigrationsPart!Gone
        BY <1>7 DEF MigrationsPart!LegacyKinds
    <2>2. CASE step = "up"
        BY <2>1, <2>2, <1>1, <1>2, <1>3, <1>4 DEF Placed, Rebuilding, Altering
    <2>3. CASE step = "read"
        BY <2>1, <2>3, <1>1, <1>2, <1>3, <1>4, <1>5, <1>6, <1>7 DEF Placed, Rebuilding, Altering
    <2> QED
        BY <2>2, <2>3
<1>10. SeenTo(p)'
    BY <1>3 DEF SeenTo
<1>11. ASSUME NEW q \in Processes, q # p PROVE Placed(q)' /\ SeenTo(q)'
    <2>1. Placed(q) /\ SeenTo(q) /\ at'[q] = at[q] /\ toMove'[q] = toMove[q]
        BY <1>3, <1>6, <1>11 DEF MigrInv
    <2>2. at[q] \notin Rebuilding
        BY <1>1, <1>11, <2>1, OneOpener DEF Placed, Rebuilding
    <2>3. /\ legacy["model"] = MigrationsPart!Gone => legacy'["model"] = MigrationsPart!Gone
          /\ legacy["entries"] = MigrationsPart!Gone => legacy'["entries"] = MigrationsPart!Gone
        BY <1>7 DEF MigrationsPart!LegacyKinds
    <2>4. Placed(q)'
        BY <2>1, <2>2, <2>3, <1>1, <1>7 DEF Placed, Rebuilding, Altering
    <2>5. SeenTo(q)'
        BY <2>1, <1>1, <1>7 DEF SeenTo
    <2> QED
        BY <2>4, <2>5
<1>12. Shaped'
    BY <1>1, <1>3, <1>7 DEF MigrInv, Shaped, Altering
<1>13. MigrationsPart!NothingErased'
    <2>1. CASE step = "read"
        BY <2>1, <1>1, <1>2 DEF MigrInv, MigrationsPart!NothingErased
    <2>2. CASE step = "up"
        <3>1. \A a \in shared \cap Owned : owners[a] # {} \/ wish[a] = "deleted"
            BY <2>2, <1>1, <1>2, <1>4 DEF SeenTo
        <3> QED
            BY <3>1, <2>2, <1>1, <1>2 DEF MigrInv, MigrationsPart!NothingErased
    <2> QED
        BY <2>1, <2>2
<1>14. MigrationsPart!OwnersKept'
    BY <1>1 DEF MigrInv, MigrationsPart!OwnersKept
<1> QED
    BY <1>8, <1>9, <1>10, <1>11, <1>12, <1>13, <1>14 DEF MigrInv

LEMMA OwnerStep ==
    ASSUME MigrationsAssumed, MigrInv, NEW p \in Processes, NEW a \in Owned, MigrationsPart!OwnerSaves(p, a) \/ MigrationsPart!OwnerDeletes(p, a)
    PROVE  MigrInv'
<1>1. /\ toMove' \in [Processes -> MigrationsPart!Stage]
      /\ \A q \in Processes : toMove'[q].of = toMove[q].of /\ toMove[q].agents \ {a} \subseteq toMove'[q].agents
    BY DEF MigrInv, MigrationsPart!TypeOK, MigrationsPart!OwnerSaves, MigrationsPart!OwnerDeletes
<1>2. PICK c \in SUBSET {"own", "moved", "edited"}, w \in {"none", "own", "edited", "deleted"} :
        /\ owners' = [owners EXCEPT ![a] = c] /\ wish' = [wish EXCEPT ![a] = w]
        /\ c # {} \/ w = "deleted"
        /\ w \in {"own", "edited"} => w \in c
    <2>1. CASE MigrationsPart!OwnerSaves(p, a)
        BY <2>1 DEF MigrationsPart!OwnerSaves
    <2>2. CASE MigrationsPart!OwnerDeletes(p, a)
        BY <2>2 DEF MigrationsPart!OwnerDeletes
    <2> QED
        BY <2>1, <2>2
<1>3. UNCHANGED <<dialect, table, rebuilt, shared, legacy, configs, at, deaths, given, torn>>
    BY DEF MigrationsPart!OwnerSaves, MigrationsPart!OwnerDeletes
<1> QED
    BY <1>1, <1>2, <1>3, RowsChange

LEMMA OwnerSetsStep ==
    ASSUME MigrationsAssumed, MigrInv, NEW p \in Processes, NEW a \in Owned, NEW k \in MigrationsPart!LegacyKinds, MigrationsPart!OwnerSets(p, k, a)
    PROVE  MigrInv'
<1>1. /\ at[p] = "up" /\ UNCHANGED <<dialect, table, rebuilt, shared, owners, legacy, at, toMove, deaths, given, wish, torn>>
      /\ configs' = [configs EXCEPT ![k][a] = "edited"]
    BY DEF MigrationsPart!OwnerSets, MigrationsPart!ghosts
<1>2. configs' \in [MigrationsPart!LegacyKinds -> [Owned -> {"none", "moved", "edited"}]]
    BY <1>1 DEF MigrInv, MigrationsPart!TypeOK
<1>3. MigrationsPart!To(p, "up") /\ "up" \in MigrationsPart!Steps
    BY <1>1 DEF MigrationsPart!To, MigrInv, MigrationsPart!TypeOK, MigrationsPart!Steps
<1>4. deaths' \in 0..MaxDeaths /\ torn' \in BOOLEAN /\ torn' = torn /\ toMove' \in [Processes -> MigrationsPart!Stage]
    BY <1>1 DEF MigrInv, MigrationsPart!TypeOK
<1>5. Placed(p) /\ SeenTo(p)
    BY DEF MigrInv
<1>6. Placed(p)' /\ SeenTo(p)'
    BY <1>1, <1>5 DEF Placed, SeenTo
<1> QED
    BY <1>1, <1>2, <1>3, <1>4, <1>6, Moving DEF Altering

LEMMA MigrStep ==
    ASSUME MigrationsAssumed, MigrInv, [MigrationsPart!Next]_(MigrationsPart!vars)
    PROVE  MigrInv'
<1>1. CASE UNCHANGED MigrationsPart!vars
    BY <1>1 DEF MigrationsPart!vars, MigrInv, MigrationsPart!TypeOK, Shaped, MigrationsPart!NothingErased, MigrationsPart!OwnersKept, Placed, SeenTo
<1>2. CASE MigrationsPart!Next
    <2>1. PICK p \in Processes :
            \/ MigrationsPart!Open(p) \/ MigrationsPart!CreateTables(p) \/ MigrationsPart!CheckFiles(p) \/ MigrationsPart!RebuildSQLite(p)
            \/ MigrationsPart!AlterPostgres(p) \/ MigrationsPart!ChangeRefused(p) \/ MigrationsPart!Read(p) \/ MigrationsPart!DropOldPlace(p) \/ MigrationsPart!Dies(p)
            \/ \E a \in MigrationsPart!Agents : MigrationsPart!MoveSetting(p, a) \/ MigrationsPart!Reparent(p, a) \/ MigrationsPart!ReparentLate(p, a)
            \/ \E a \in Owned : MigrationsPart!OwnerSaves(p, a) \/ MigrationsPart!OwnerDeletes(p, a)
            \/ \E a \in Owned, k \in MigrationsPart!LegacyKinds : MigrationsPart!OwnerSets(p, k, a)
        BY <1>2, Zenon DEF MigrationsPart!Next
    <2> QED
        BY <2>1, OpenStep, CreateTablesStep, CheckFilesStep, RebuildStep, AlterStep, ChangeRefusedStep, ReadStep,
           DropStep, DiesStep, MoveSettingStep, ReparentStep, OwnerStep, OwnerSetsStep, Zenon
<1> QED
    BY <1>1, <1>2

--------------------------------------------------------------------------------
(***************************************************************************)
(* Daemon.  The counters of a wrapper are those of the crashes it has      *)
(* seen: their streak is what it counts, and its sleep the power of two    *)
(* for that count (InStep).  While nothing strays there is one command,    *)
(* one wrapper and the gateway it waits for, and at each step of the       *)
(* command the file and the processes are as it expects them (Stage):      *)
(* settled before it, about to end after a signal, on the way up after a   *)
(* start (Orderly).                                                        *)
(***************************************************************************)
WrapperStates == {"boot", "launch", "wait", "sleep", "leave", "give up", "gone", "gave up", "crash"}
GatewayStates == {"new", "starting", "up", "stopping", "clean", "signal", "crash"}
Process == [at : WrapperStates \cup GatewayStates, parent : Nat, child : Nat, count : 0..MaxRestarts,
            backoff : 1..MaxBackoff, old : BOOLEAN]
CommandKinds == {"start", "stop", "restart"}
CommandStates == {"status", "look", "sweep", "stale", "launch", "note", "watch", "done"}
Issued == [kind : CommandKinds, at : CommandStates, pid : 0..MaxPids]

DaemonTyped ==
    /\ proc \in Seq(Process) /\ Len(proc) <= MaxPids /\ command \in Seq(Issued)
    /\ pidFile \in 0..MaxPids /\ crashes \in [1..MaxPids -> Seq(BOOLEAN)] /\ strayed \in BOOLEAN

Final == {"clean", "signal", "crash", "gone", "gave up"}

\* A gateway was started by a wrapper, which waits for it as long as both live.
Kin(all, p) ==
    LET x == all[p] IN
    /\ x.parent = 0 => /\ x.at \in WrapperStates
                       /\ x.at = "wait" => x.child \in DOMAIN all /\ all[x.child].parent = p
    /\ x.parent # 0 => /\ x.at \in GatewayStates /\ x.parent \in DOMAIN all /\ all[x.parent].parent = 0
                       /\ x.at \notin Final /\ all[x.parent].at \notin Final =>
                            all[x.parent].at = "wait" /\ all[x.parent].child = p

Family == \A p \in DaemonPart!Pids : Kin(proc, p)

\* The counters of a wrapper are those of the crashes it has seen.
InStep(p) ==
    /\ proc[p].count = DaemonPart!Streak(p)
    /\ proc[p].at \in {"boot", "launch", "wait"} => proc[p].count < MaxRestarts /\ proc[p].backoff = DaemonPart!Power[proc[p].count]
    /\ proc[p].at = "sleep" => /\ proc[p].count \in 1..MaxRestarts - 1
                               /\ proc[p].backoff = DaemonPart!Power[proc[p].count - 1]
    /\ proc[p].at \in {"give up", "gave up"} => proc[p].count = MaxRestarts

Counters ==
    /\ \A p \in DaemonPart!Pids : DaemonPart!IsWrapper(p) => InStep(p)
    /\ \A p \in 1..MaxPids : p > Len(proc) => crashes[p] = <<>>

Base == DaemonTyped /\ Family /\ Counters

\* Nothing is half done: the wrapper waits, and the gateway it waits for is the one in the file.
Settled ==
    /\ \A w \in DaemonPart!Wrappers : proc[w].at = "wait" /\ DaemonPart!Alive(proc[w].child)
    /\ \A g \in DaemonPart!Gateways : proc[g].at = "up" /\ pidFile = g

\* There is no gateway, and a wrapper that is left will leave.
Leaving ==
    /\ DaemonPart!Gateways = {}
    /\ \A w \in DaemonPart!Wrappers : proc[w].at = "leave" \/ (proc[w].at = "wait" /\ DaemonPart!IsCleanShutdown(proc[proc[w].child].at))

\* The gateway g stops, and so will its wrapper.
Halting(g) ==
    /\ \A x \in DaemonPart!Gateways : x = g /\ proc[x].at = "stopping"
    /\ \A w \in DaemonPart!Wrappers : \/ proc[w].at = "leave"
                                      \/ proc[w].at = "wait" /\ proc[proc[w].child].at \in {"stopping", "clean", "signal"}

\* What holds at each step of a command, for the file has no other user that matters then.
Stage(c) ==
    LET step == command[c].at IN
    /\ step = "look" => Settled
    /\ step = "stale" => DaemonPart!Wrappers = {} /\ DaemonPart!Gateways = {}
    /\ step = "status" => Settled \/ Leaving
    /\ step \in {"sweep", "launch"} => Leaving
    /\ step = "note" => /\ command[c].pid \in DaemonPart!Wrappers /\ proc[command[c].pid].at \in {"boot", "launch", "wait"}
                        /\ \A g \in DaemonPart!Gateways : proc[g].at \in {"new", "starting", "up"}
                        /\ proc[command[c].pid].at = "wait" => DaemonPart!Alive(proc[command[c].pid].child)
    /\ step = "watch" => Halting(command[c].pid)
    /\ step = "done" =>
        /\ \A g \in DaemonPart!Gateways : /\ proc[g].at \in {"new", "starting", "up"}
                                          /\ proc[g].at # "new" => pidFile \in {g, proc[g].parent}
        /\ command[c].kind = "stop" => Leaving /\ pidFile = DaemonPart!NoFile
    /\ command[c].kind = "stop" => step \in {"look", "stale", "watch", "done"}

\* One command at a time, one wrapper, and a gateway only with it.
Orderly ==
    /\ \A c \in DOMAIN command : c # Len(command) => command[c].at = "done"
    /\ \A v, w \in DaemonPart!Wrappers : v = w
    /\ \A g \in DaemonPart!Gateways : proc[g].parent \in DaemonPart!Wrappers
    /\ command = <<>> => proc = <<>>
    /\ command # <<>> => Stage(Len(command))

DaemonInv == Base /\ (~strayed => Orderly)

\* The state of process p becomes x, and nothing else of the processes changes.
Becomes(p, x) ==
    /\ proc' \in Seq(Process) /\ Len(proc') = Len(proc) /\ DaemonPart!Pids' = DaemonPart!Pids
    /\ proc'[p] = x /\ \A q \in DaemonPart!Pids \ {p} : proc'[q] = proc[q]

LEMMA Changed ==
    ASSUME DaemonTyped, NEW p \in DaemonPart!Pids, NEW x \in Process, proc' = [proc EXCEPT ![p] = x]
    PROVE  Becomes(p, x)
<1>1. /\ proc' \in Seq(Process) /\ Len(proc') = Len(proc)
      /\ \A q \in 1..Len(proc) : proc'[q] = IF q = p THEN x ELSE proc[q]
    BY ExceptSeq DEF DaemonTyped, DaemonPart!Pids
<1> QED
    BY <1>1 DEF Becomes, DaemonPart!Pids

LEMMA ProcessTypes ==
    ASSUME DaemonTyped, NEW p \in DaemonPart!Pids
    PROVE  proc[p] \in Process /\ p \in Nat \ {0}
    BY DEF DaemonTyped, DaemonPart!Pids

LEMMA Went ==
    ASSUME DaemonTyped, NEW p \in DaemonPart!Pids, NEW to \in WrapperStates \cup GatewayStates, DaemonPart!Goes(p, to)
    PROVE  /\ Becomes(p, [proc[p] EXCEPT !.at = to])
           /\ proc'[p].at = to /\ proc'[p].parent = proc[p].parent /\ proc'[p].child = proc[p].child
           /\ proc'[p].count = proc[p].count /\ proc'[p].backoff = proc[p].backoff
<1> DEFINE x == [proc[p] EXCEPT !.at = to]
<1>1. proc[p] \in Process
    BY ProcessTypes
<1>2. /\ x \in Process /\ x.at = to /\ x.parent = proc[p].parent /\ x.child = proc[p].child
      /\ x.count = proc[p].count /\ x.backoff = proc[p].backoff
    BY <1>1 DEF Process
<1>3. proc' = [proc EXCEPT ![p] = x]
    BY DEF DaemonPart!Goes
<1> HIDE DEF x
<1>4. Becomes(p, x)
    BY <1>2, <1>3, Changed
<1> QED
    BY <1>2, <1>4 DEF Becomes, x

\* The table of powers is the same in every state.
LEMMA SamePower == DaemonPart!Power' = DaemonPart!Power
    BY DEF DaemonPart!Power

\* One of them goes to another state.
LEMMA KinGoes ==
    ASSUME NEW old, NEW new, NEW p \in DOMAIN old, NEW to, DOMAIN new = DOMAIN old,
           \A q \in DOMAIN old : Kin(old, q),
           \A q \in DOMAIN old : new[q].parent = old[q].parent /\ new[q].child = old[q].child,
           \A q \in DOMAIN old \ {p} : new[q].at = old[q].at,
           new[p].at = to, old[p].at \notin Final,
           old[p].parent = 0 => \/ to \in {"gone", "crash", "gave up"}
                                \/ to = "launch" /\ old[p].at # "wait"
                                \/ /\ to \in {"leave", "sleep", "give up"} /\ old[p].at = "wait"
                                   /\ old[old[p].child].at \in Final,
           old[p].parent # 0 => to \in GatewayStates \ {"new"}
    PROVE  \A q \in DOMAIN new : Kin(new, q)
<1> SUFFICES ASSUME NEW q \in DOMAIN old, NEW w, w = old[q].parent, NEW c, c = old[q].child
             PROVE  Kin(new, q)
    OBVIOUS
<1>1. /\ w = 0 => old[q].at \in WrapperStates /\ (old[q].at = "wait" => c \in DOMAIN old /\ old[c].parent = q)
      /\ w # 0 => /\ old[q].at \in GatewayStates /\ w \in DOMAIN old /\ old[w].parent = 0
                  /\ old[q].at \notin Final /\ old[w].at \notin Final => old[w].at = "wait" /\ old[w].child = q
    BY DEF Kin
<1>2. /\ q = p => new[q].at = to
      /\ q # p => new[q].at = old[q].at
      /\ w = p => new[w].at = to
      /\ w # p /\ w \in DOMAIN old => new[w].at = old[w].at
      /\ new[q].parent = w /\ new[q].child = c
    OBVIOUS
<1>3. CASE w = 0
    <2>1. new[q].at \in WrapperStates /\ (new[q].at = "wait" => old[q].at = "wait")
        BY <1>1, <1>2, <1>3 DEF WrapperStates
    <2>2. new[q].at = "wait" => c \in DOMAIN new /\ new[c].parent = q
        BY <1>1, <1>3, <2>1
    <2> QED
        BY <2>1, <2>2, <1>2, <1>3 DEF Kin
<1>4. CASE w # 0
    <2>1. new[q].at \in GatewayStates /\ (new[q].at \notin Final => old[q].at \notin Final)
        BY <1>1, <1>2, <1>4
    <2>2. w \in DOMAIN new /\ new[w].parent = 0 /\ new[w].child = old[w].child
        BY <1>1, <1>4
    <2>3. ASSUME new[q].at \notin Final, new[w].at \notin Final PROVE new[w].at = "wait" /\ new[w].child = q
        <3>1. old[w].at \notin Final
            BY <2>3, <1>1, <1>2, <1>4
        <3>2. old[w].at = "wait" /\ old[w].child = q
            BY <3>1, <2>1, <2>3, <1>1, <1>4
        <3>3. w # p
            <4> SUFFICES ASSUME w = p PROVE FALSE
                OBVIOUS
            <4>1. to \notin Final /\ old[p].parent = 0 /\ old[p].at = "wait" /\ old[p].child = q
                BY <2>3, <3>2, <1>1, <1>2, <1>4
            <4>2. old[q].at \notin Final
                BY <2>1, <2>3
            <4> QED
                BY <4>1, <4>2 DEF Final
        <3> QED
            BY <3>2, <3>3, <2>2, <1>1, <1>2, <1>4
    <2> QED
        BY <2>1, <2>2, <2>3, <1>2, <1>4 DEF Kin
<1> QED
    BY <1>3, <1>4

LEMMA Domains == ASSUME DaemonTyped PROVE DOMAIN proc = DaemonPart!Pids /\ Len(proc) \in Nat
    BY DEF DaemonTyped, DaemonPart!Pids

\* A process goes on: what it leaves of the family and the counters.
LEMMA GoesOn ==
    ASSUME Base, NEW p \in DaemonPart!Pids, NEW to \in WrapperStates \cup GatewayStates, DaemonPart!Goes(p, to), DaemonPart!Alive(p),
           UNCHANGED crashes, command' \in Seq(Issued), pidFile' \in 0..MaxPids, strayed' \in BOOLEAN,
           DaemonPart!IsWrapper(p) => \/ to \in {"gone", "crash"}
                                      \/ to = "launch" /\ proc[p].at = "boot"
                                      \/ to = "leave" /\ proc[p].at = "wait" /\ ~DaemonPart!Alive(proc[p].child)
                                      \/ to = "gave up" /\ proc[p].at = "give up",
           ~DaemonPart!IsWrapper(p) => to \in GatewayStates \ {"new"}
    PROVE  Base'
<1>1. /\ Becomes(p, [proc[p] EXCEPT !.at = to])
      /\ proc'[p].at = to /\ proc'[p].parent = proc[p].parent /\ proc'[p].child = proc[p].child
      /\ proc'[p].count = proc[p].count /\ proc'[p].backoff = proc[p].backoff
    BY Went DEF Base
<1>2. DaemonTyped'
    BY <1>1 DEF Base, DaemonTyped, Becomes
<1>3. /\ DaemonPart!Pids' = DaemonPart!Pids /\ \A q \in DaemonPart!Pids \ {p} : proc'[q] = proc[q]
      /\ \A q \in DaemonPart!Pids : DaemonPart!IsWrapper(q)' <=> DaemonPart!IsWrapper(q)
      /\ \A q \in DaemonPart!Pids : proc'[q].parent = proc[q].parent /\ proc'[q].child = proc[q].child
    BY <1>1 DEF Becomes, DaemonPart!IsWrapper
<1>4. DOMAIN proc = DaemonPart!Pids /\ DOMAIN proc' = DaemonPart!Pids
    <2>1. DOMAIN proc = DaemonPart!Pids
        BY Domains DEF Base
    <2>2. proc' \in Seq(Process)
        BY <1>2 DEF DaemonTyped
    <2>3. DOMAIN proc' = 1..Len(proc')
        BY <2>2, LenProperties
    <2> QED
        BY <2>1, <2>3, <1>3 DEF DaemonPart!Pids
<1>5. Family'
    <2>1. \A q \in DOMAIN proc : Kin(proc, q)
        BY <1>4 DEF Base, Family
    <2>2. /\ \A q \in DOMAIN proc \ {p} : proc'[q].at = proc[q].at
          /\ \A q \in DOMAIN proc : proc'[q].parent = proc[q].parent /\ proc'[q].child = proc[q].child
        BY <1>3, <1>4
    <2>3. /\ proc[p].parent = 0 => \/ to \in {"gone", "crash", "gave up"}
                                   \/ to = "launch" /\ proc[p].at # "wait"
                                   \/ to = "leave" /\ proc[p].at = "wait" /\ ~DaemonPart!Alive(proc[p].child)
          /\ proc[p].parent # 0 => to \in GatewayStates \ {"new"}
          /\ proc[p].at \notin Final
        BY DEF DaemonPart!IsWrapper, DaemonPart!Alive, Final
    <2>4. proc[p].parent = 0 /\ proc[p].at = "wait" /\ ~DaemonPart!Alive(proc[p].child) => proc[proc[p].child].at \in Final
        BY <2>1, <1>4 DEF Kin, DaemonPart!Alive, Final
    <2>5. \A q \in DOMAIN proc' : Kin(proc', q)
        BY <2>1, <2>2, <2>3, <2>4, <1>1, <1>4, KinGoes
    <2> QED
        BY <2>5, <1>3, <1>4 DEF Family
<1>6. Counters'
    <2>1. ASSUME NEW q \in DaemonPart!Pids, DaemonPart!IsWrapper(q) PROVE InStep(q)'
        <3>1. InStep(q) /\ DaemonPart!Streak(q)' = DaemonPart!Streak(q)
            BY <2>1 DEF Base, Counters, DaemonPart!Streak
        <3>2. CASE q # p
            BY <3>1, <3>2, <1>3, SamePower DEF InStep
        <3>3. CASE q = p
            BY <3>1, <3>3, <1>1, <2>1, SamePower DEF InStep
        <3> QED
            BY <3>2, <3>3
    <2>2. Len(proc') = Len(proc)
        BY <1>1 DEF Becomes
    <2> QED
        BY <2>1, <2>2, <1>3 DEF Base, Counters
<1> QED
    BY <1>2, <1>5, <1>6 DEF Base

LEMMA NothingGoes ==
    ASSUME Base, UNCHANGED <<proc, crashes>>, command' \in Seq(Issued), pidFile' \in 0..MaxPids, strayed' \in BOOLEAN
    PROVE  Base'
<1>1. DaemonTyped'
    BY DEF Base, DaemonTyped
<1>2. Family'
    BY DEF Base, Family, DaemonPart!Pids
<1>3. Counters'
    BY SamePower DEF Base, Counters, DaemonPart!IsWrapper, DaemonPart!Pids, InStep, DaemonPart!Streak
<1> QED
    BY <1>1, <1>2, <1>3 DEF Base

\* One starts alone, or is started by one that waits for it then.
LEMMA KinJoins ==
    ASSUME NEW old, NEW new, NEW n \in Nat, DOMAIN old = 1..n, DOMAIN new = 1..n + 1,
           \A q \in DOMAIN old : Kin(old, q), \A q \in DOMAIN old : new[q].parent = old[q].parent,
           \/ /\ new[n + 1].parent = 0 /\ new[n + 1].at = "boot"
              /\ \A q \in DOMAIN old : new[q].at = old[q].at /\ new[q].child = old[q].child
           \/ \E w \in DOMAIN old :
                /\ old[w].parent = 0 /\ old[w].at = "launch" /\ new[w].at = "wait" /\ new[w].child = n + 1
                /\ new[n + 1].parent = w /\ w # 0 /\ new[n + 1].at = "new"
                /\ \A q \in DOMAIN old \ {w} : new[q].at = old[q].at /\ new[q].child = old[q].child
    PROVE  \A q \in DOMAIN new : Kin(new, q)
<1>1. DOMAIN old \subseteq DOMAIN new /\ n + 1 \in DOMAIN new /\ n + 1 \notin DOMAIN old
      /\ \A q \in DOMAIN new : q \in DOMAIN old \/ q = n + 1
    OBVIOUS
<1>2. CASE /\ new[n + 1].parent = 0 /\ new[n + 1].at = "boot"
           /\ \A q \in DOMAIN old : new[q].at = old[q].at /\ new[q].child = old[q].child
    <2>1. Kin(new, n + 1)
        BY <1>2 DEF Kin, WrapperStates
    <2>2. ASSUME NEW q \in DOMAIN old PROVE Kin(new, q)
        <3>1. /\ old[q].parent = 0 => /\ old[q].at \in WrapperStates
                                      /\ old[q].at = "wait" => old[q].child \in DOMAIN old /\ old[old[q].child].parent = q
              /\ old[q].parent # 0 =>
                    /\ old[q].at \in GatewayStates /\ old[q].parent \in DOMAIN old /\ old[old[q].parent].parent = 0
                    /\ old[q].at \notin Final /\ old[old[q].parent].at \notin Final =>
                        old[old[q].parent].at = "wait" /\ old[old[q].parent].child = q
            BY DEF Kin
        <3>2. /\ new[q].at = old[q].at /\ new[q].child = old[q].child /\ new[q].parent = old[q].parent
              /\ \A x \in DOMAIN old : x \in DOMAIN new /\ new[x].at = old[x].at /\ new[x].child = old[x].child
                                       /\ new[x].parent = old[x].parent
            BY <1>1, <1>2, <2>2
        <3>3. CASE old[q].parent = 0
            BY <3>1, <3>2, <3>3 DEF Kin
        <3>4. CASE old[q].parent # 0
            BY <3>1, <3>2, <3>4 DEF Kin
        <3> QED
            BY <3>3, <3>4
    <2> QED
        BY <1>1, <2>1, <2>2
<1>3. ASSUME NEW w \in DOMAIN old, old[w].parent = 0, old[w].at = "launch", new[w].at = "wait", new[w].child = n + 1,
             new[n + 1].parent = w, w # 0, new[n + 1].at = "new",
             \A q \in DOMAIN old \ {w} : new[q].at = old[q].at /\ new[q].child = old[q].child
      PROVE  \A q \in DOMAIN new : Kin(new, q)
    <2>1. Kin(new, n + 1)
        BY <1>1, <1>3 DEF Kin, GatewayStates
    <2>2. Kin(new, w)
        <3>1. new[w].parent = 0 /\ new[w].child \in DOMAIN new /\ new[new[w].child].parent = w
            BY <1>1, <1>3
        <3> QED
            BY <3>1, <1>3 DEF Kin, WrapperStates
    <2>3. ASSUME NEW q \in DOMAIN old, q # w PROVE Kin(new, q)
        <3>1. /\ old[q].parent = 0 => /\ old[q].at \in WrapperStates
                                      /\ old[q].at = "wait" => old[q].child \in DOMAIN old /\ old[old[q].child].parent = q
              /\ old[q].parent # 0 =>
                    /\ old[q].at \in GatewayStates /\ old[q].parent \in DOMAIN old /\ old[old[q].parent].parent = 0
                    /\ old[q].at \notin Final /\ old[old[q].parent].at \notin Final =>
                        old[old[q].parent].at = "wait" /\ old[old[q].parent].child = q
            BY DEF Kin
        <3>2. new[q].at = old[q].at /\ new[q].child = old[q].child /\ new[q].parent = old[q].parent
            BY <1>3, <2>3
        <3>3. CASE old[q].parent = 0
            <4>1. old[q].at = "wait" => old[q].child \in DOMAIN new /\ new[old[q].child].parent = q
                BY <3>1, <3>3, <1>1
            <4> QED
                BY <3>1, <3>2, <3>3, <4>1 DEF Kin
        <3>4. CASE old[q].parent # 0
            <4> DEFINE v == old[q].parent
            <4>1. v \in DOMAIN old /\ v \in DOMAIN new /\ new[v].parent = 0 /\ old[q].at \in GatewayStates
                BY <3>1, <3>4, <1>1
            <4>2. ASSUME old[q].at \notin Final, new[v].at \notin Final
                  PROVE  new[v].at = "wait" /\ new[v].child = q
                <5>1. v # w
                    <6> SUFFICES ASSUME v = w PROVE FALSE
                        OBVIOUS
                    <6>1. old[v].at = "launch"
                        BY <1>3
                    <6>2. old[v].at \notin Final
                        BY <6>1 DEF Final
                    <6> QED
                        BY <6>1, <6>2, <4>2, <3>1, <3>4
                <5> QED
                    BY <5>1, <4>1, <4>2, <3>1, <3>4, <1>3
            <4> QED
                BY <3>2, <3>4, <4>1, <4>2 DEF Kin
        <3> QED
            BY <3>3, <3>4
    <2> QED
        BY <1>1, <2>1, <2>2, <2>3
<1> QED
    BY <1>2, <1>3

\* The component counts as this module does.
LEMMA CountsAlike == \A S : DaemonPart!Cardinality(S) = Cardinality(S)
    BY DEF DaemonPart!Cardinality, Cardinality

LEMMA Appended ==
    ASSUME NEW S, NEW s \in Seq(S), NEW x \in S
    PROVE  /\ Append(s, x) \in Seq(S) /\ Len(Append(s, x)) = Len(s) + 1
           /\ Append(s, x)[Len(s) + 1] = x /\ \A i \in 1..Len(s) : Append(s, x)[i] = s[i]
    BY AppendProperties

LEMMA CommandSteps ==
    ASSUME DaemonTyped, NEW c \in DOMAIN command, NEW to \in CommandStates, NEW pid \in 0..MaxPids, DaemonPart!StepsTo(c, to, pid)
    PROVE  /\ command' \in Seq(Issued) /\ Len(command') = Len(command) /\ DOMAIN command' = DOMAIN command
           /\ command'[c].at = to /\ command'[c].pid = pid /\ command'[c].kind = command[c].kind
           /\ \A d \in DOMAIN command \ {c} : command'[d] = command[d]
<1> DEFINE x == [command[c] EXCEPT !.at = to, !.pid = pid]
<1>1. command \in Seq(Issued) /\ DOMAIN command = 1..Len(command) /\ command[c] \in Issued
    BY DEF DaemonTyped
<1>2. x \in Issued /\ x.at = to /\ x.pid = pid /\ x.kind = command[c].kind
    BY <1>1 DEF Issued
<1>3. command' = [command EXCEPT ![c] = x]
    BY <1>1 DEF DaemonPart!StepsTo
<1> HIDE DEF x
<1>4. /\ command' \in Seq(Issued) /\ Len(command') = Len(command)
      /\ \A d \in 1..Len(command) : command'[d] = IF d = c THEN x ELSE command[d]
    BY <1>1, <1>2, <1>3, ExceptSeq
<1>5. DOMAIN command' = 1..Len(command')
    BY <1>4, LenProperties
<1> QED
    BY <1>1, <1>2, <1>4, <1>5

\* A process that starts is a new one, and has seen no crash.
LEMMA StartsCounting ==
    ASSUME DaemonAssumed, Base, NEW p \in 1..MaxPids, p > Len(proc), UNCHANGED crashes, Len(proc') = p, p \in Nat,
           proc'[p].parent = 0 => proc'[p] = DaemonPart!Wrapper,
           \A q \in DaemonPart!Pids : /\ proc'[q].parent = proc[q].parent /\ proc'[q].count = proc[q].count
                                      /\ proc'[q].backoff = proc[q].backoff
                                      /\ proc'[q].at = proc[q].at \/ (proc[q].at = "launch" /\ proc'[q].at = "wait"),
           p = Len(proc) + 1
    PROVE  Counters'
<1>1. DaemonPart!Pids' = DaemonPart!Pids \cup {p} /\ p \notin DaemonPart!Pids
    BY DEF DaemonPart!Pids, Base, DaemonTyped
<1>2. ASSUME NEW q \in DaemonPart!Pids, DaemonPart!IsWrapper(q)' PROVE InStep(q)'
    <2>1. DaemonPart!IsWrapper(q)
        BY <1>2 DEF DaemonPart!IsWrapper
    <2>2. InStep(q) /\ DaemonPart!Streak(q)' = DaemonPart!Streak(q)
        BY <2>1 DEF Base, Counters, DaemonPart!Streak
    <2> QED
        BY <2>2, SamePower DEF InStep
<1>3. ASSUME DaemonPart!IsWrapper(p)' PROVE InStep(p)'
    <2>1. proc'[p].at = "boot" /\ proc'[p].count = 0 /\ proc'[p].backoff = 1
        BY <1>3 DEF DaemonPart!IsWrapper, DaemonPart!Wrapper
    <2>2. crashes'[p] = <<>>
        BY DEF Base, Counters
    <2>3. DaemonPart!Streak(p)' = 0
        <3>1. {i \in 1..0 : \A j \in i + 1..0 : ~crashes'[p][j]} = {}
            OBVIOUS
        <3>2. DaemonPart!Streak(p)' = Cardinality({i \in 1..Len(crashes'[p]) : \A j \in i + 1..Len(crashes'[p]) : ~crashes'[p][j]})
            BY CountsAlike DEF DaemonPart!Streak
        <3>3. Len(crashes'[p]) = 0
            BY <2>2
        <3> QED
            BY <3>1, <3>2, <3>3, FS_EmptySet
    <2>4. DaemonPart!Power[0] = 1 /\ 0 \in 0..MaxRestarts
        BY DEF DaemonPart!Power, DaemonAssumed
    <2> QED
        BY <2>1, <2>3, <2>4, SamePower DEF InStep, DaemonAssumed
<1>4. \A q \in 1..MaxPids : q > Len(proc') => crashes'[q] = <<>>
    BY DEF Base, Counters, DaemonTyped
<1> QED
    BY <1>1, <1>2, <1>3, <1>4 DEF Counters

LEMMA LaunchesSound ==
    ASSUME DaemonAssumed, Base, NEW c \in DOMAIN command, DaemonPart!Launch(c)
    PROVE  /\ Base' /\ proc' = Append(proc, DaemonPart!Wrapper) /\ DaemonPart!Pids' = DaemonPart!Pids \cup {Len(proc) + 1} /\ Len(proc) + 1 \notin DaemonPart!Pids
           /\ proc'[Len(proc) + 1] = DaemonPart!Wrapper /\ \A q \in DaemonPart!Pids : proc'[q] = proc[q]
<1> DEFINE n == Len(proc)
<1>1. /\ n < MaxPids /\ proc' = Append(proc, DaemonPart!Wrapper) /\ UNCHANGED <<pidFile, crashes>> /\ n \in Nat
      /\ command' = [command EXCEPT ![c].at = "note", ![c].pid = n + 1]
      /\ strayed' = (strayed \/ DaemonPart!Wrappers # {}) /\ DOMAIN proc = DaemonPart!Pids /\ DaemonPart!Pids = 1..n
    BY Domains DEF DaemonPart!Launch, DaemonPart!StepsTo, Base, DaemonPart!Pids
<1>2. DaemonPart!Wrapper \in Process
    BY DEF DaemonPart!Wrapper, Process, WrapperStates, DaemonAssumed
<1>3. /\ proc' \in Seq(Process) /\ Len(proc') = n + 1 /\ proc'[n + 1] = DaemonPart!Wrapper
      /\ \A i \in 1..n : proc'[i] = proc[i]
    BY <1>1, <1>2, Appended DEF Base, DaemonTyped
<1>4. command' \in Seq(Issued)
    <2>1. n + 1 \in 0..MaxPids
        BY <1>1 DEF DaemonAssumed
    <2> QED
        BY <1>1, <2>1, CommandSteps DEF Base, DaemonPart!StepsTo, CommandStates
<1>5. DaemonTyped'
    <2>1. Len(proc') <= MaxPids
        BY <1>1, <1>3 DEF DaemonAssumed
    <2>2. strayed' \in BOOLEAN
        BY <1>1
    <2> QED
        BY <1>1, <1>3, <1>4, <2>1, <2>2 DEF Base, DaemonTyped
<1>6. DOMAIN proc' = 1..n + 1 /\ DaemonPart!Pids' = 1..n + 1
    BY <1>3, LenProperties DEF DaemonPart!Pids
<1>7. Family'
    <2>1. \A q \in DOMAIN proc : Kin(proc, q)
        BY <1>1 DEF Base, Family
    <2>2. proc'[n + 1].parent = 0 /\ proc'[n + 1].at = "boot"
        BY <1>3 DEF DaemonPart!Wrapper
    <2>3. \A q \in DOMAIN proc' : Kin(proc', q)
        BY <1>1, <1>3, <1>6, <2>1, <2>2, KinJoins
    <2> QED
        BY <2>3, <1>6 DEF Family
<1>8. Counters'
    BY <1>1, <1>3, StartsCounting DEF DaemonAssumed, DaemonPart!Wrapper
<1> QED
    BY <1>1, <1>3, <1>5, <1>6, <1>7, <1>8 DEF Base

LEMMA RunsSound ==
    ASSUME DaemonAssumed, Base, NEW w \in DaemonPart!Pids, DaemonPart!RunsGateway(w)
    PROVE  /\ Base' /\ DaemonPart!Pids' = DaemonPart!Pids \cup {Len(proc) + 1} /\ Len(proc) + 1 \notin DaemonPart!Pids
           /\ proc'[Len(proc) + 1].at = "new" /\ proc'[Len(proc) + 1].parent = w
           /\ proc'[w].at = "wait" /\ proc'[w].child = Len(proc) + 1 /\ proc'[w].parent = 0
           /\ \A q \in DaemonPart!Pids \ {w} : proc'[q] = proc[q]
<1> DEFINE n == Len(proc)
           x == [proc[w] EXCEPT !.at = "wait", !.child = n + 1]
           before == [proc EXCEPT ![w] = x]
<1>1. /\ DaemonPart!IsWrapper(w) /\ proc[w].at = "launch" /\ n < MaxPids /\ proc' = Append(before, DaemonPart!Gateway(w))
      /\ UNCHANGED <<pidFile, command, crashes, strayed>> /\ n \in Nat /\ DOMAIN proc = DaemonPart!Pids /\ DaemonPart!Pids = 1..n
    BY Domains DEF DaemonPart!RunsGateway, Base, DaemonPart!Pids
<1>2. w \in Nat \ {0} /\ proc[w] \in Process
    BY ProcessTypes DEF Base
<1>3. /\ x \in Process /\ x.at = "wait" /\ x.child = n + 1 /\ x.parent = 0
      /\ x.count = proc[w].count /\ x.backoff = proc[w].backoff
    <2>1. n + 1 \in Nat /\ proc[w].parent = 0
        BY <1>1 DEF DaemonPart!IsWrapper
    <2>2. /\ x.at = "wait" /\ x.child = n + 1 /\ x.parent = proc[w].parent
          /\ x.count = proc[w].count /\ x.backoff = proc[w].backoff
        BY <1>2 DEF Process
    <2>3. "wait" \in WrapperStates \cup GatewayStates
        BY DEF WrapperStates
    <2> HIDE DEF n
    <2>4. x \in Process
        BY <1>2, <2>1, <2>3 DEF Process
    <2> QED
        BY <2>1, <2>2, <2>4
<1>4. DaemonPart!Gateway(w) \in Process /\ DaemonPart!Gateway(w).at = "new" /\ DaemonPart!Gateway(w).parent = w
    <2>1. DaemonPart!Wrapper \in Process
        BY DEF DaemonPart!Wrapper, Process, WrapperStates, DaemonAssumed
    <2>2. "new" \in WrapperStates \cup GatewayStates /\ w \in Nat
        BY <1>2 DEF GatewayStates
    <2>3. \A r \in Process : /\ [r EXCEPT !.at = "new", !.parent = w] \in Process
                             /\ [r EXCEPT !.at = "new", !.parent = w].at = "new"
                             /\ [r EXCEPT !.at = "new", !.parent = w].parent = w
        BY <2>2 DEF Process
    <2> QED
        BY <2>1, <2>3 DEF DaemonPart!Gateway
<1> HIDE DEF x
<1>5. /\ before \in Seq(Process) /\ Len(before) = n /\ before[w] = x
      /\ \A q \in DaemonPart!Pids \ {w} : before[q] = proc[q]
    BY <1>1, <1>3, ExceptSeq DEF Base, DaemonTyped
<1> HIDE DEF before
<1>6. /\ proc' \in Seq(Process) /\ Len(proc') = n + 1 /\ proc'[n + 1] = DaemonPart!Gateway(w)
      /\ \A i \in 1..n : proc'[i] = before[i]
    BY <1>1, <1>4, <1>5, Appended
<1>7. DOMAIN proc' = 1..n + 1 /\ DaemonPart!Pids' = 1..n + 1
    BY <1>6, LenProperties DEF DaemonPart!Pids
<1>8. proc'[w] = x /\ \A q \in DaemonPart!Pids \ {w} : proc'[q] = proc[q]
    BY <1>1, <1>5, <1>6
<1>9. DaemonTyped'
    <2>1. Len(proc') <= MaxPids
        BY <1>1, <1>6 DEF DaemonAssumed
    <2> QED
        BY <1>1, <1>6, <2>1 DEF Base, DaemonTyped
<1>10. Family'
    <2>1. \A q \in DOMAIN proc : Kin(proc, q)
        BY <1>1 DEF Base, Family
    <2>2. \A q \in DOMAIN proc : proc'[q].parent = proc[q].parent
        BY <1>1, <1>3, <1>8 DEF DaemonPart!IsWrapper
    <2>3. \E v \in DOMAIN proc :
          /\ proc[v].parent = 0 /\ proc[v].at = "launch" /\ proc'[v].at = "wait" /\ proc'[v].child = n + 1
          /\ proc'[n + 1].parent = w /\ w # 0 /\ proc'[n + 1].at = "new"
          /\ \A q \in DOMAIN proc \ {w} : proc'[q].at = proc[q].at /\ proc'[q].child = proc[q].child
        BY <1>1, <1>2, <1>3, <1>4, <1>6, <1>8 DEF DaemonPart!IsWrapper
    <2>4. \A q \in DOMAIN proc' : Kin(proc', q)
        <3>1. DOMAIN proc = 1..n /\ DOMAIN proc' = 1..n + 1 /\ n \in Nat
            BY <1>1, <1>7
        <3> HIDE DEF n
        <3> QED
            BY <3>1, <2>1, <2>2, <2>3, KinJoins, Zenon
    <2> QED
        BY <2>4, <1>7 DEF Family
<1>11. Counters'
    <2>1. \A q \in DaemonPart!Pids : /\ proc'[q].parent = proc[q].parent /\ proc'[q].count = proc[q].count
                                     /\ proc'[q].backoff = proc[q].backoff
                                     /\ proc'[q].at = proc[q].at \/ (proc[q].at = "launch" /\ proc'[q].at = "wait")
        BY <1>1, <1>3, <1>8 DEF DaemonPart!IsWrapper
    <2>2. proc'[n + 1].parent # 0
        BY <1>2, <1>4, <1>6
    <2>3. n + 1 \in 1..MaxPids /\ n + 1 > n
        BY <1>1 DEF DaemonAssumed
    <2> QED
        BY <1>1, <1>6, <2>1, <2>2, <2>3, StartsCounting
<1> QED
    BY <1>1, <1>3, <1>4, <1>6, <1>7, <1>8, <1>9, <1>10, <1>11 DEF Base


LEMMA SameWithout ==
    ASSUME NEW A, NEW B, NEW x, x \notin A, x \notin B, A \cup {x} = B \cup {x}
    PROVE  A = B
<1>1. A = (A \cup {x}) \ {x} /\ B = (B \cup {x}) \ {x}
    OBVIOUS
<1> QED
    BY <1>1

\* Twice as many subsets with one element more.
LEMMA Doubling ==
    ASSUME NEW n \in Nat
    PROVE  2 ^ n \in Nat /\ 2 ^ (n + 1) = 2 * 2 ^ n
<1> DEFINE S == SUBSET (1..n)
           T == {A \cup {n + 1} : A \in S}
           f == [A \in S |-> A \cup {n + 1}]
<1>1. /\ IsFiniteSet(1..n) /\ Cardinality(1..n) = n
      /\ IsFiniteSet(1..n + 1) /\ Cardinality(1..n + 1) = n + 1
    BY FS_Interval
<1>2. IsFiniteSet(S) /\ Cardinality(S) = 2 ^ n
    BY <1>1, FS_SUBSET
<1>3. Cardinality(SUBSET (1..n + 1)) = 2 ^ (n + 1)
    BY <1>1, FS_SUBSET
<1>4. \A A \in S : n + 1 \notin A
    OBVIOUS
<1>5. f \in Surjection(S, T) /\ f \in Injection(S, T)
    <2>1. f \in [S -> T]
        OBVIOUS
    <2>2. \A A, B \in S : f[A] = f[B] => A = B
        <3> SUFFICES ASSUME NEW A \in S, NEW B \in S, A \cup {n + 1} = B \cup {n + 1} PROVE A = B
            OBVIOUS
        <3> HIDE DEF S
        <3>1. n + 1 \notin A /\ n + 1 \notin B
            BY <1>4
        <3> QED
            BY <3>1, SameWithout
    <2>3. \A t \in T : \E A \in S : f[A] = t
        OBVIOUS
    <2>4. DOMAIN f = S
        OBVIOUS
    <2> HIDE DEF f, S, T
    <2>5. f \in Surjection(S, T)
        BY <2>1, <2>3 DEF Surjection
    <2>6. f \in Injection(S, T)
        BY <2>1, <2>2, <2>4 DEF Injection, IsInjective
    <2> QED
        BY <2>5, <2>6
<1>6. IsFiniteSet(T) /\ Cardinality(T) = Cardinality(S)
    BY <1>2, <1>5, FS_Surjection
<1>7. SUBSET (1..n + 1) = S \cup T
    <2>1. S \cup T \subseteq SUBSET (1..n + 1)
        <3>1. 1..n \subseteq 1..n + 1 /\ n + 1 \in 1..n + 1
            OBVIOUS
        <3>2. \A A \in S : A \subseteq 1..n + 1 /\ A \cup {n + 1} \subseteq 1..n + 1
            BY <3>1
        <3> QED
            BY <3>2
    <2>2. ASSUME NEW A \in SUBSET (1..n + 1) PROVE A \in S \cup T
        <3>1. CASE n + 1 \in A
            <4>1. A \ {n + 1} \in S /\ A = (A \ {n + 1}) \cup {n + 1}
                BY <3>1
            <4> QED
                BY <4>1
        <3>2. CASE n + 1 \notin A
            BY <3>2
        <3> QED
            BY <3>1, <3>2
    <2> QED
        BY <2>1, <2>2
<1>8. S \cap T = {}
    BY <1>4
<1> HIDE DEF S, T, f
<1>9. Cardinality(S \cup T) = Cardinality(S) + Cardinality(T) - Cardinality(S \cap T)
    BY <1>2, <1>6, FS_Union
<1>10. Cardinality(S) \in Nat /\ Cardinality(S \cap T) = 0
    BY <1>2, <1>8, FS_CardinalityType, FS_EmptySet
<1> DEFINE a == 2 ^ n
           b == 2 ^ (n + 1)
<1>11. Cardinality(S) = a /\ Cardinality(S \cup T) = b
    BY <1>2, <1>3, <1>7
<1> HIDE DEF a, b
<1>12. a \in Nat /\ b = 2 * a
    BY <1>6, <1>9, <1>10, <1>11
<1> QED
    BY <1>12 DEF a, b

\* The next sleep is twice the last one, up to the bound.
LEMMA NextPower ==
    ASSUME DaemonAssumed, NEW n \in 0..MaxRestarts - 1
    PROVE  /\ DaemonPart!Power[n] \in 1..MaxBackoff
           /\ DaemonPart!Power[n + 1] = IF 2 * DaemonPart!Power[n] > MaxBackoff THEN MaxBackoff ELSE 2 * DaemonPart!Power[n]
<1>1. n \in Nat /\ n \in 0..MaxRestarts /\ n + 1 \in 0..MaxRestarts
    BY DEF DaemonAssumed
<1>2. /\ DaemonPart!Power[n] = IF 2 ^ n > MaxBackoff THEN MaxBackoff ELSE 2 ^ n
      /\ DaemonPart!Power[n + 1] = IF 2 ^ (n + 1) > MaxBackoff THEN MaxBackoff ELSE 2 ^ (n + 1)
    BY <1>1 DEF DaemonPart!Power
<1>3. 2 ^ n \in Nat /\ 2 ^ (n + 1) = 2 * 2 ^ n
    BY <1>1, Doubling
<1>4. 2 ^ n >= 1
    <2>1. IsFiniteSet(1..n) /\ Cardinality(1..n) = n
        BY <1>1, FS_Interval
    <2>2. IsFiniteSet(SUBSET (1..n)) /\ Cardinality(SUBSET (1..n)) = 2 ^ n
        BY <2>1, FS_SUBSET
    <2>3. SUBSET (1..n) # {}
        OBVIOUS
    <2>4. 2 ^ n # 0
        BY <2>2, <2>3, FS_EmptySet
    <2> QED
        BY <2>4, <1>3
<1> DEFINE a == 2 ^ n
           b == 2 ^ (n + 1)
<1>5. a \in Nat /\ a >= 1 /\ b = 2 * a
    BY <1>3, <1>4
<1>6. DaemonPart!Power[n] = (IF a > MaxBackoff THEN MaxBackoff ELSE a) /\ DaemonPart!Power[n + 1] = IF b > MaxBackoff THEN MaxBackoff ELSE b
    BY <1>2
<1> HIDE DEF a, b
<1> QED
    BY <1>5, <1>6 DEF DaemonAssumed

LEMMA OneMore ==
    ASSUME NEW n \in Nat, NEW i \in 1..n
    PROVE  i \in 1..n + 1 /\ n + 1 \in i + 1..n + 1 /\ \A j \in i + 1..n + 1 : j = n + 1 \/ j \in i + 1..n
    OBVIOUS

LEMMA StreakGrows ==
    ASSUME DaemonTyped, NEW w \in 1..MaxPids, NEW old \in BOOLEAN,
           crashes' = [crashes EXCEPT ![w] = Append(@, old)]
    PROVE  DaemonPart!Streak(w) \in Nat /\ DaemonPart!Streak(w)' = IF old THEN 1 ELSE DaemonPart!Streak(w) + 1
<1> DEFINE s == crashes[w]
           n == Len(s)
           Run(q, m) == {i \in 1..m : \A j \in i + 1..m : ~q[j]}
<1>1. s \in Seq(BOOLEAN) /\ n \in Nat /\ crashes'[w] = Append(s, old)
    BY DEF DaemonTyped
<1>2. /\ Len(Append(s, old)) = n + 1 /\ Append(s, old)[n + 1] = old
      /\ \A i \in 1..n : Append(s, old)[i] = s[i]
    BY <1>1, Appended
<1>3. DaemonPart!Streak(w) = Cardinality(Run(s, n)) /\ DaemonPart!Streak(w)' = Cardinality(Run(Append(s, old), n + 1))
    BY <1>1, <1>2, CountsAlike DEF DaemonPart!Streak
<1> HIDE DEF s, n
<1>4. IsFiniteSet(Run(s, n)) /\ Cardinality(Run(s, n)) \in Nat
    <2>1. IsFiniteSet(1..n)
        BY <1>1, FS_Interval
    <2>3. Run(s, n) \in SUBSET (1..n)
        OBVIOUS
    <2>2. IsFiniteSet(Run(s, n))
        BY <2>1, <2>3, FS_Subset
    <2> QED
        BY <2>2, FS_CardinalityType
<1>5. CASE old
    <2>1. Run(Append(s, old), n + 1) = {n + 1}
        <3>1. ASSUME NEW i \in 1..n PROVE i \notin Run(Append(s, old), n + 1)
            <4>1. n + 1 \in i + 1..n + 1
                BY <1>1
            <4> QED
                BY <4>1, <1>2, <1>5
        <3>2. n + 1 \in Run(Append(s, old), n + 1)
            BY <1>1
        <3>3. Run(Append(s, old), n + 1) \subseteq 1..n + 1
            OBVIOUS
        <3> HIDE DEF Run
        <3> QED
            BY <3>1, <3>2, <3>3, <1>1
    <2> QED
        BY <2>1, <1>3, <1>4, <1>5, FS_Singleton
<1>6. CASE ~old
    <2>1. Run(Append(s, old), n + 1) = Run(s, n) \cup {n + 1}
        <3>1. ASSUME NEW i \in 1..n PROVE i \in Run(Append(s, old), n + 1) <=> i \in Run(s, n)
            <4>1. /\ i \in 1..n + 1 /\ n + 1 \in i + 1..n + 1
                  /\ \A j \in i + 1..n + 1 : j = n + 1 \/ j \in i + 1..n
                BY <1>1, OneMore
            <4>4. \A j \in i + 1..n : j \in i + 1..n + 1
                BY <1>1
            <4>2. \A j \in i + 1..n : Append(s, old)[j] = s[j]
                BY <1>1, <1>2
            <4>3. (\A j \in i + 1..n + 1 : ~Append(s, old)[j]) <=> \A j \in i + 1..n : ~s[j]
                BY <4>1, <4>2, <4>4, <1>2, <1>6
            <4> QED
                BY <4>1, <4>3
        <3>2. n + 1 \in Run(Append(s, old), n + 1)
            BY <1>1
        <3>3. Run(Append(s, old), n + 1) \subseteq 1..n + 1 /\ Run(s, n) \subseteq 1..n
            OBVIOUS
        <3> HIDE DEF Run
        <3> QED
            BY <3>1, <3>2, <3>3, <1>1
    <2>2. n + 1 \notin Run(s, n)
        BY <1>1
    <2> HIDE DEF Run
    <2> QED
        BY <2>1, <2>2, <1>3, <1>4, <1>6, FS_AddElement
<1> QED
    BY <1>3, <1>4, <1>5, <1>6

\* The counters of the others stay what they are.
LEMMA TurnsCounted ==
    ASSUME DaemonAssumed, Base, NEW p \in DaemonPart!Pids, NEW x \in Process, Becomes(p, x),
           \A q \in (1..MaxPids) \ {p} : crashes'[q] = crashes[q], DaemonPart!IsWrapper(p)' => InStep(p)'
    PROVE  Counters'
<1> DEFINE n == Len(proc)
<1>1. n \in Nat /\ MaxPids \in Nat /\ n <= MaxPids /\ DaemonPart!Pids = 1..n /\ Len(proc') = n
    BY Domains DEF Base, DaemonTyped, DaemonAssumed, Becomes, DaemonPart!Pids
<1>2. DaemonPart!Pids' = DaemonPart!Pids
    BY DEF Becomes
<1>3. ASSUME NEW q \in DaemonPart!Pids, q # p, DaemonPart!IsWrapper(q)' PROVE InStep(q)'
    <2>1. DaemonPart!IsWrapper(q) /\ proc'[q] = proc[q]
        BY <1>3 DEF DaemonPart!IsWrapper, Becomes
    <2>2. q \in 1..MaxPids
        BY <1>1
    <2>3. InStep(q) /\ crashes'[q] = crashes[q]
        BY <2>1, <2>2, <1>3 DEF Base, Counters
    <2>4. DaemonPart!Streak(q)' = DaemonPart!Streak(q)
        BY <2>3 DEF DaemonPart!Streak
    <2> QED
        BY <2>1, <2>3, <2>4, SamePower DEF InStep
<1>4. ASSUME NEW q \in 1..MaxPids, q > Len(proc') PROVE crashes'[q] = <<>>
    <2>1. q > n /\ q # p
        BY <1>1, <1>4
    <2> QED
        BY <2>1 DEF Base, Counters
<1> QED
    BY <1>2, <1>3, <1>4 DEF Counters

\* A process that lives becomes x, and sees a crash perhaps.
LEMMA Turns ==
    ASSUME DaemonAssumed, Base, NEW p \in DaemonPart!Pids, NEW x \in Process, proc' = [proc EXCEPT ![p] = x], DaemonPart!Alive(p),
           x.parent = proc[p].parent, x.child = proc[p].child, UNCHANGED <<pidFile, command, strayed>>,
           crashes' \in [1..MaxPids -> Seq(BOOLEAN)], \A q \in (1..MaxPids) \ {p} : crashes'[q] = crashes[q],
           DaemonPart!IsWrapper(p) => /\ \/ x.at = "launch" /\ proc[p].at # "wait"
                                         \/ x.at \in {"sleep", "give up"} /\ proc[p].at = "wait" /\ ~DaemonPart!Alive(proc[p].child)
                                      /\ InStep(p)',
           ~DaemonPart!IsWrapper(p) => x.at \in GatewayStates \ {"new"}
    PROVE  Base' /\ Becomes(p, x)
<1>1. Becomes(p, x)
    BY Changed DEF Base
<1>2. DaemonTyped'
    BY <1>1 DEF Base, DaemonTyped, Becomes
<1>3. DOMAIN proc = DaemonPart!Pids /\ DOMAIN proc' = DaemonPart!Pids /\ DaemonPart!Pids' = DaemonPart!Pids
    BY <1>1, Domains, LenProperties DEF Base, Becomes, DaemonPart!Pids
<1>4. Family'
    <2>1. \A q \in DOMAIN proc : Kin(proc, q)
        BY <1>3 DEF Base, Family
    <2>2. /\ \A q \in DOMAIN proc \ {p} : proc'[q].at = proc[q].at
          /\ \A q \in DOMAIN proc : proc'[q].parent = proc[q].parent /\ proc'[q].child = proc[q].child
          /\ proc'[p].at = x.at
        BY <1>1, <1>3 DEF Becomes
    <2>3. proc[p].at \notin Final
        BY DEF DaemonPart!Alive, Final
    <2>4. proc[p].parent = 0 /\ proc[p].at = "wait" /\ ~DaemonPart!Alive(proc[p].child) => proc[proc[p].child].at \in Final
        BY <2>1, <1>3 DEF Kin, DaemonPart!Alive, Final
    <2>5. /\ proc[p].parent = 0 => \/ x.at = "launch" /\ proc[p].at # "wait"
                                   \/ /\ x.at \in {"sleep", "give up"} /\ proc[p].at = "wait"
                                      /\ proc[proc[p].child].at \in Final
          /\ proc[p].parent # 0 => x.at \in GatewayStates \ {"new"}
        BY <2>4 DEF DaemonPart!IsWrapper
    <2>6. \A q \in DOMAIN proc' : Kin(proc', q)
        BY <2>1, <2>2, <2>3, <2>5, <1>3, KinGoes
    <2> QED
        BY <2>6, <1>3 DEF Family
<1>5. Counters'
    <2>1. DaemonPart!IsWrapper(p)' => InStep(p)'
        BY <1>1 DEF DaemonPart!IsWrapper, Becomes
    <2> QED
        BY <1>1, <2>1, TurnsCounted
<1> QED
    BY <1>1, <1>2, <1>4, <1>5 DEF Base


LEMMA PidsFit == ASSUME DaemonAssumed, DaemonTyped PROVE DaemonPart!Pids \subseteq 1..MaxPids /\ DaemonPart!Pids \subseteq 0..MaxPids
<1>1. Len(proc) \in Nat /\ MaxPids \in Nat /\ Len(proc) <= MaxPids
    BY Domains DEF DaemonTyped, DaemonAssumed
<1> QED
    BY <1>1 DEF DaemonPart!Pids

LEMMA WakesSound ==
    ASSUME DaemonAssumed, Base, NEW w \in DaemonPart!Pids, DaemonPart!Wakes(w)
    PROVE  /\ Base' /\ Becomes(w, [proc[w] EXCEPT !.at = "launch", !.backoff = proc'[w].backoff])
<1> DEFINE b == IF 2 * proc[w].backoff > MaxBackoff THEN MaxBackoff ELSE 2 * proc[w].backoff
           x == [proc[w] EXCEPT !.at = "launch", !.backoff = b]
<1>1. DaemonPart!IsWrapper(w) /\ proc[w].at = "sleep" /\ UNCHANGED <<pidFile, command, crashes, strayed>>
    BY DEF DaemonPart!Wakes
<1>2. proc[w] \in Process /\ DOMAIN proc = DaemonPart!Pids
    BY ProcessTypes, Domains DEF Base
<1>3. proc' = [proc EXCEPT ![w] = x]
    BY <1>2 DEF DaemonPart!Wakes
<1>4. proc[w].backoff \in 1..MaxBackoff /\ MaxBackoff \in Nat \ {0}
    BY <1>2 DEF Process, DaemonAssumed
<1>5. b \in 1..MaxBackoff
    BY <1>4
<1>6. InStep(w)
    BY <1>1 DEF Base, Counters
<1>7. proc[w].count = DaemonPart!Streak(w) /\ proc[w].count \in 1..MaxRestarts - 1 /\ proc[w].backoff = DaemonPart!Power[proc[w].count - 1]
    BY <1>1, <1>6 DEF InStep
<1>8. b = DaemonPart!Power[proc[w].count]
    <2> DEFINE n == proc[w].count - 1
    <2>1. n \in 0..MaxRestarts - 1 /\ n + 1 = proc[w].count
        BY <1>7 DEF DaemonAssumed
    <2> HIDE DEF n
    <2>2. DaemonPart!Power[n + 1] = IF 2 * DaemonPart!Power[n] > MaxBackoff THEN MaxBackoff ELSE 2 * DaemonPart!Power[n]
        BY <2>1, NextPower
    <2> QED
        BY <2>1, <2>2, <1>7 DEF n
<1> HIDE DEF b
<1>9. /\ x \in Process /\ x.at = "launch" /\ x.parent = proc[w].parent /\ x.child = proc[w].child
      /\ x.count = proc[w].count /\ x.backoff = b
    BY <1>2, <1>5 DEF Process, WrapperStates
<1> HIDE DEF x
<1>10. Becomes(w, x)
    BY <1>3, <1>9, Changed DEF Base
<1>11. InStep(w)'
    <2>1. proc'[w] = x
        BY <1>10 DEF Becomes
    <2>2. DaemonPart!Streak(w)' = DaemonPart!Streak(w)
        BY <1>1 DEF DaemonPart!Streak
    <2>3. MaxRestarts \in Nat
        BY DEF DaemonAssumed
    <2>4. proc[w].count < MaxRestarts
        BY <1>7, <2>3
    <2> QED
        BY <2>1, <2>2, <2>4, <1>7, <1>8, <1>9, SamePower DEF InStep
<1>12. Base'
    <2>1. DaemonPart!Alive(w)
        BY <1>1 DEF DaemonPart!Alive
    <2>2. crashes' \in [1..MaxPids -> Seq(BOOLEAN)] /\ crashes' = crashes
        BY <1>1 DEF Base, DaemonTyped
    <2> QED
        BY <1>1, <1>3, <1>9, <1>11, <2>1, <2>2, Turns
<1> QED
    BY <1>10, <1>12, <1>9 DEF x, Becomes

LEMMA SettlesSound ==
    ASSUME DaemonAssumed, Base, NEW g \in DaemonPart!Pids, DaemonPart!Settles(g)
    PROVE  Base' /\ Becomes(g, [proc[g] EXCEPT !.old = TRUE])
<1> DEFINE x == [proc[g] EXCEPT !.old = TRUE]
<1>1. ~DaemonPart!IsWrapper(g) /\ proc[g].at = "up" /\ UNCHANGED <<pidFile, command, crashes, strayed>>
    BY DEF DaemonPart!Settles
<1>2. proc[g] \in Process /\ DOMAIN proc = DaemonPart!Pids
    BY ProcessTypes, Domains DEF Base
<1>3. proc' = [proc EXCEPT ![g] = x]
    BY <1>2 DEF DaemonPart!Settles
<1>4. x \in Process /\ x.at = "up" /\ x.parent = proc[g].parent /\ x.child = proc[g].child
    BY <1>1, <1>2 DEF Process
<1> HIDE DEF x
<1>5. DaemonPart!Alive(g) /\ "up" \in GatewayStates \ {"new"}
    BY <1>1 DEF DaemonPart!Alive, GatewayStates
<1>6. crashes' \in [1..MaxPids -> Seq(BOOLEAN)] /\ crashes' = crashes
    BY <1>1 DEF Base, DaemonTyped
<1>7. Base' /\ Becomes(g, x)
    BY <1>1, <1>3, <1>4, <1>5, <1>6, Turns
<1> QED
    BY <1>7 DEF x

LEMMA ReapsCrash ==
    ASSUME DaemonAssumed, Base, NEW w \in DaemonPart!Pids, DaemonPart!Reaps(w), ~DaemonPart!IsCleanShutdown(proc[proc[w].child].at)
    PROVE  /\ Base' /\ proc'[w].at \in {"sleep", "give up"} /\ proc'[w].child = proc[w].child
           /\ proc'[w].parent = 0 /\ Becomes(w, proc'[w])
<1> DEFINE old == proc[proc[w].child].old
           n == DaemonPart!Counted(w, old).count
           b == DaemonPart!Counted(w, old).backoff
           x == [proc[w] EXCEPT !.at = IF n >= MaxRestarts THEN "give up" ELSE "sleep", !.count = n, !.backoff = b]
<1>1. /\ DaemonPart!IsWrapper(w) /\ proc[w].at = "wait" /\ ~DaemonPart!Alive(proc[w].child) /\ UNCHANGED <<pidFile, command, strayed>>
      /\ crashes' = [crashes EXCEPT ![w] = Append(crashes[w], old)]
    BY DEF DaemonPart!Reaps, Base, DaemonTyped
<1>2. proc[w] \in Process /\ DOMAIN proc = DaemonPart!Pids /\ w \in 1..MaxPids
    BY ProcessTypes, Domains, PidsFit DEF Base
<1>3. proc' = [proc EXCEPT ![w] = x]
    BY <1>2 DEF DaemonPart!Reaps
<1>4. old \in BOOLEAN
    <2>1. Kin(proc, w)
        BY DEF Base, Family
    <2>2. proc[w].child \in DaemonPart!Pids
        BY <2>1, <1>1, <1>2 DEF Kin, DaemonPart!IsWrapper
    <2>3. proc[proc[w].child] \in Process
        BY <2>2, ProcessTypes DEF Base
    <2> QED
        BY <2>3 DEF Process
<1>5. /\ n = (IF old THEN 0 ELSE proc[w].count) + 1
      /\ b = IF old THEN 1 ELSE proc[w].backoff
    BY DEF DaemonPart!Counted
<1>6. InStep(w)
    BY <1>1 DEF Base, Counters
<1>7. /\ proc[w].count = DaemonPart!Streak(w) /\ proc[w].count < MaxRestarts /\ proc[w].backoff = DaemonPart!Power[proc[w].count]
      /\ proc[w].count \in 0..MaxRestarts /\ proc[w].backoff \in 1..MaxBackoff
    BY <1>1, <1>2, <1>6 DEF InStep, Process
<1>8. DaemonPart!Streak(w)' = (IF old THEN 1 ELSE DaemonPart!Streak(w) + 1)
    BY <1>1, <1>2, <1>4, StreakGrows DEF Base
<1> HIDE DEF old, n, b
<1>9. MaxRestarts \in Nat \ {0} /\ MaxBackoff \in Nat \ {0}
    BY DEF DaemonAssumed
<1>10. DaemonPart!Power[0] = 1
    BY <1>9 DEF DaemonPart!Power
<1>11. n \in 1..MaxRestarts /\ b \in 1..MaxBackoff /\ n = DaemonPart!Streak(w)' /\ b = DaemonPart!Power[n - 1]
    <2>1. CASE old
        BY <2>1, <1>5, <1>8, <1>9, <1>10
    <2>2. CASE ~old
        <3>1. n = proc[w].count + 1 /\ n - 1 = proc[w].count
            BY <2>2, <1>5, <1>7
        <3> QED
            BY <3>1, <2>2, <1>5, <1>7, <1>8, <1>9
    <2> QED
        BY <2>1, <2>2
<1>12. /\ x \in Process /\ x.at = (IF n >= MaxRestarts THEN "give up" ELSE "sleep")
       /\ x.parent = proc[w].parent /\ x.child = proc[w].child /\ x.count = n /\ x.backoff = b
    <2> DEFINE to == IF n >= MaxRestarts THEN "give up" ELSE "sleep"
    <2>1. to \in WrapperStates \cup GatewayStates
        BY DEF WrapperStates
    <2>2. n \in 0..MaxRestarts
        BY <1>9, <1>11
    <2> HIDE DEF to
    <2>3. [proc[w] EXCEPT !.at = to, !.count = n, !.backoff = b] \in Process
        BY <2>1, <2>2, <1>2, <1>11 DEF Process
    <2>4. /\ x = [proc[w] EXCEPT !.at = to, !.count = n, !.backoff = b] /\ x.at = to
          /\ x.parent = proc[w].parent /\ x.child = proc[w].child /\ x.count = n /\ x.backoff = b
        BY <1>2 DEF Process, to
    <2> QED
        BY <2>3, <2>4 DEF to
<1> HIDE DEF x
<1>13. Becomes(w, x)
    BY <1>3, <1>12, Changed DEF Base
<1>14. InStep(w)'
    <2>1. proc'[w] = x
        BY <1>13 DEF Becomes
    <2>2. n >= MaxRestarts => n = MaxRestarts
        BY <1>9, <1>11
    <2>3. ~(n >= MaxRestarts) => n \in 1..MaxRestarts - 1
        BY <1>9, <1>11
    <2> QED
        BY <2>1, <2>2, <2>3, <1>11, <1>12, SamePower DEF InStep
<1>15. Base'
    <2>1. DaemonPart!Alive(w)
        BY <1>1 DEF DaemonPart!Alive
    <2>2. /\ crashes' \in [1..MaxPids -> Seq(BOOLEAN)]
          /\ \A q \in (1..MaxPids) \ {w} : crashes'[q] = crashes[q]
        <3>1. crashes \in [1..MaxPids -> Seq(BOOLEAN)]
            BY DEF Base, DaemonTyped
        <3>2. Append(crashes[w], old) \in Seq(BOOLEAN)
            BY <3>1, <1>2, <1>4, Appended
        <3> QED
            BY <3>1, <3>2, <1>1
    <2>3. x.at \in {"sleep", "give up"}
        BY <1>12
    <2> QED
        BY <1>1, <1>3, <1>12, <1>14, <2>1, <2>2, <2>3, Turns
<1> QED
    BY <1>1, <1>12, <1>13, <1>15 DEF Becomes, DaemonPart!IsWrapper

\* The steps of a process.
LEMMA BaseProcess ==
    ASSUME DaemonAssumed, Base, NEW p \in DaemonPart!Pids,
           \/ DaemonPart!WritesOwn(p) \/ DaemonPart!RunsGateway(p) \/ DaemonPart!Reaps(p) \/ DaemonPart!Wakes(p) \/ DaemonPart!LeavesLoop(p)
           \/ DaemonPart!WritePIDFile(p) \/ DaemonPart!ComesUp(p) \/ DaemonPart!FailsToStart(p) \/ DaemonPart!Settles(p)
           \/ DaemonPart!RemovePIDFile(p) \/ DaemonPart!Crashes(p)
    PROVE  Base'
<1>1. command \in Seq(Issued) /\ pidFile \in 0..MaxPids /\ strayed \in BOOLEAN
    BY DEF Base, DaemonTyped
<1>2. p \in 0..MaxPids /\ DaemonPart!NoFile \in 0..MaxPids
    BY PidsFit DEF Base, DaemonPart!NoFile, DaemonAssumed
<1>3. CASE DaemonPart!WritesOwn(p)
    <2>1. /\ DaemonPart!IsWrapper(p) /\ proc[p].at = "boot" /\ pidFile' = p /\ DaemonPart!Goes(p, "launch")
          /\ UNCHANGED <<command, crashes, strayed>> /\ DaemonPart!Alive(p)
        BY <1>3 DEF DaemonPart!WritesOwn, DaemonPart!Alive
    <2> QED
        BY <2>1, <1>1, <1>2, GoesOn DEF WrapperStates
<1>4. CASE DaemonPart!RunsGateway(p)
    BY <1>4, RunsSound
<1>5. CASE DaemonPart!Reaps(p)
    <2>1. CASE DaemonPart!IsCleanShutdown(proc[proc[p].child].at)
        <3>1. /\ DaemonPart!IsWrapper(p) /\ proc[p].at = "wait" /\ ~DaemonPart!Alive(proc[p].child) /\ DaemonPart!Goes(p, "leave")
              /\ UNCHANGED <<pidFile, command, crashes, strayed>> /\ DaemonPart!Alive(p)
            BY <1>5, <2>1 DEF DaemonPart!Reaps, DaemonPart!Alive
        <3> QED
            BY <3>1, <1>1, GoesOn DEF WrapperStates
    <2>2. CASE ~DaemonPart!IsCleanShutdown(proc[proc[p].child].at)
        BY <1>5, <2>2, ReapsCrash
    <2> QED
        BY <2>1, <2>2
<1>6. CASE DaemonPart!Wakes(p)
    BY <1>6, WakesSound
<1>7. CASE DaemonPart!LeavesLoop(p)
    <2> DEFINE to == IF proc[p].at = "leave" THEN "gone" ELSE "gave up"
    <2>1. /\ DaemonPart!IsWrapper(p) /\ pidFile' = DaemonPart!NoFile /\ DaemonPart!Goes(p, to) /\ UNCHANGED <<command, crashes, strayed>>
          /\ proc[p].at \in {"leave", "give up"} /\ DaemonPart!Alive(p)
        BY <1>7 DEF DaemonPart!LeavesLoop, DaemonPart!Alive
    <2>2. to = "gone" \/ (to = "gave up" /\ proc[p].at = "give up")
        BY <2>1
    <2>3. to \in WrapperStates \cup GatewayStates
        BY DEF WrapperStates
    <2> HIDE DEF to
    <2> QED
        BY <2>1, <2>2, <2>3, <1>1, <1>2, GoesOn
<1>8. CASE DaemonPart!WritePIDFile(p)
    <2>1. /\ ~DaemonPart!IsWrapper(p) /\ pidFile' = p /\ DaemonPart!Goes(p, "starting") /\ UNCHANGED <<command, crashes, strayed>> /\ DaemonPart!Alive(p)
        BY <1>8 DEF DaemonPart!WritePIDFile, DaemonPart!Alive
    <2> QED
        BY <2>1, <1>1, <1>2, GoesOn DEF GatewayStates
<1>9. CASE DaemonPart!ComesUp(p)
    <2>1. /\ ~DaemonPart!IsWrapper(p) /\ DaemonPart!Goes(p, "up") /\ UNCHANGED <<pidFile, command, crashes, strayed>> /\ DaemonPart!Alive(p)
        BY <1>9 DEF DaemonPart!ComesUp, DaemonPart!Alive
    <2> QED
        BY <2>1, <1>1, GoesOn DEF GatewayStates
<1>10. CASE DaemonPart!FailsToStart(p)
    <2>1. /\ ~DaemonPart!IsWrapper(p) /\ pidFile' = DaemonPart!NoFile /\ DaemonPart!Goes(p, "crash") /\ UNCHANGED <<command, crashes>> /\ DaemonPart!Alive(p)
          /\ strayed' \in BOOLEAN
        BY <1>10, <1>1 DEF DaemonPart!FailsToStart, DaemonPart!Alive
    <2> QED
        BY <2>1, <1>1, <1>2, GoesOn DEF GatewayStates
<1>11. CASE DaemonPart!Settles(p)
    BY <1>11, SettlesSound
<1>12. CASE DaemonPart!RemovePIDFile(p)
    <2>1. /\ ~DaemonPart!IsWrapper(p) /\ pidFile' = DaemonPart!NoFile /\ DaemonPart!Goes(p, "clean") /\ UNCHANGED <<command, crashes, strayed>> /\ DaemonPart!Alive(p)
        BY <1>12 DEF DaemonPart!RemovePIDFile, DaemonPart!Alive
    <2> QED
        BY <2>1, <1>1, <1>2, GoesOn DEF GatewayStates
<1>13. CASE DaemonPart!Crashes(p)
    <2>1. /\ ~DaemonPart!IsWrapper(p) /\ DaemonPart!Goes(p, "crash") /\ UNCHANGED <<pidFile, command, crashes>> /\ DaemonPart!Alive(p)
          /\ strayed' \in BOOLEAN
        BY <1>13, <1>1 DEF DaemonPart!Crashes, DaemonPart!Gateways
    <2> QED
        BY <2>1, <1>1, GoesOn DEF GatewayStates
<1> QED
    BY <1>3, <1>4, <1>5, <1>6, <1>7, <1>8, <1>9, <1>10, <1>11, <1>12, <1>13

LEMMA BeginAppends ==
    ASSUME DaemonAssumed, DaemonTyped, NEW kind \in CommandKinds, DaemonPart!Begin(kind)
    PROVE  /\ command' \in Seq(Issued) /\ Len(command') = Len(command) + 1
           /\ DOMAIN command' = 1..Len(command) + 1 /\ DOMAIN command = 1..Len(command) /\ Len(command) \in Nat
           /\ command'[Len(command) + 1].kind = kind
           /\ command'[Len(command) + 1].at = IF kind = "start" THEN "status" ELSE "look"
           /\ \A c \in DOMAIN command : command'[c] = command[c]
<1> DEFINE x == [kind |-> kind, at |-> IF kind = "start" THEN "status" ELSE "look", pid |-> 0]
<1>1. x \in Issued
    <2>1. 0 \in 0..MaxPids
        BY DEF DaemonAssumed
    <2> QED
        BY <2>1 DEF Issued, CommandStates
<1>2. command' = Append(command, x) /\ command \in Seq(Issued)
    BY DEF DaemonPart!Begin, DaemonTyped
<1>3. x.kind = kind /\ x.at = IF kind = "start" THEN "status" ELSE "look"
    OBVIOUS
<1> HIDE DEF x
<1>4. /\ command' \in Seq(Issued) /\ Len(command') = Len(command) + 1 /\ command'[Len(command) + 1] = x
      /\ \A i \in 1..Len(command) : command'[i] = command[i]
    BY <1>1, <1>2, Appended
<1>5. DOMAIN command = 1..Len(command) /\ DOMAIN command' = 1..Len(command') /\ Len(command) \in Nat
    BY <1>2, <1>4, LenProperties
<1> QED
    BY <1>3, <1>4, <1>5

\* Where a command may go next.
LEMMA OverIsStep == ASSUME DaemonTyped, NEW c \in DOMAIN command PROVE DaemonPart!Over(c) \in {"status", "done"} /\ DaemonPart!Over(c) \in CommandStates
    BY DEF DaemonPart!Over, CommandStates

\* The steps of a command.
LEMMA BaseCommand ==
    ASSUME DaemonAssumed, Base, NEW c \in DOMAIN command,
           \/ DaemonPart!GetStatus(c) \/ DaemonPart!Sweep(c) \/ DaemonPart!Launch(c) \/ DaemonPart!NotePid(c) \/ DaemonPart!Stop(c) \/ DaemonPart!SeesItDead(c) \/ DaemonPart!ForceKill(c)
    PROVE  Base'
<1>1. /\ command \in Seq(Issued) /\ pidFile \in 0..MaxPids /\ strayed \in BOOLEAN /\ command[c] \in Issued
      /\ 0 \in 0..MaxPids /\ DaemonPart!NoFile = 0 /\ DaemonPart!Over(c) \in CommandStates
    BY OverIsStep DEF Base, DaemonTyped, DaemonPart!NoFile, DaemonAssumed
<1>2. \A to \in CommandStates, pid \in 0..MaxPids : DaemonPart!StepsTo(c, to, pid) => command' \in Seq(Issued)
    BY CommandSteps DEF Base
<1>3. command[c].pid \in 0..MaxPids
    BY <1>1 DEF Issued
<1>4. CASE DaemonPart!GetStatus(c)
    <2> DEFINE to == IF DaemonPart!Alive(pidFile) THEN "done" ELSE IF pidFile = DaemonPart!NoFile THEN "launch" ELSE "sweep"
    <2>1. to \in CommandStates
        BY DEF CommandStates
    <2>2. DaemonPart!StepsTo(c, to, pidFile) /\ UNCHANGED <<pidFile, proc, crashes, strayed>>
        BY <1>4 DEF DaemonPart!GetStatus
    <2> HIDE DEF to
    <2>3. command' \in Seq(Issued)
        BY <2>1, <2>2, <1>1, <1>2
    <2> QED
        BY <2>2, <2>3, <1>1, NothingGoes
<1>5. CASE DaemonPart!Sweep(c)
    <2> DEFINE to == IF command[c].at = "sweep" THEN "launch" ELSE DaemonPart!Over(c)
    <2>1. to \in CommandStates
        BY <1>1 DEF CommandStates
    <2>2. DaemonPart!StepsTo(c, to, 0) /\ pidFile' = DaemonPart!NoFile /\ UNCHANGED <<proc, crashes, strayed>>
        BY <1>5 DEF DaemonPart!Sweep
    <2> HIDE DEF to
    <2>3. command' \in Seq(Issued)
        BY <2>1, <2>2, <1>1, <1>2
    <2> QED
        BY <2>2, <2>3, <1>1, NothingGoes
<1>6. CASE DaemonPart!Launch(c)
    BY <1>6, LaunchesSound
<1>7. CASE DaemonPart!NotePid(c)
    <2>1. DaemonPart!StepsTo(c, "done", 0) /\ pidFile' = command[c].pid /\ UNCHANGED <<proc, crashes, strayed>>
        BY <1>7 DEF DaemonPart!NotePid
    <2>2. command' \in Seq(Issued)
        BY <2>1, <1>1, <1>2 DEF CommandStates
    <2> QED
        BY <2>1, <2>2, <1>1, <1>3, NothingGoes
<1>8. CASE DaemonPart!Stop(c)
    <2>1. UNCHANGED <<pidFile, crashes, strayed>>
        BY <1>8 DEF DaemonPart!Stop
    <2>2. CASE pidFile = DaemonPart!NoFile /\ DaemonPart!StepsTo(c, DaemonPart!Over(c), 0) /\ UNCHANGED proc
        BY <2>1, <2>2, <1>1, <1>2, NothingGoes
    <2>3. CASE pidFile # DaemonPart!NoFile /\ ~DaemonPart!Alive(pidFile) /\ DaemonPart!StepsTo(c, "stale", 0) /\ UNCHANGED proc
        <3>1. command' \in Seq(Issued)
            BY <2>3, <1>1, <1>2 DEF CommandStates
        <3> QED
            BY <2>1, <2>3, <3>1, <1>1, NothingGoes
    <2>4. CASE DaemonPart!Alive(pidFile) /\ DaemonPart!StepsTo(c, "watch", pidFile) /\ DaemonPart!Goes(pidFile, DaemonPart!Signalled(pidFile))
        <3>1. command' \in Seq(Issued)
            BY <2>4, <1>1, <1>2 DEF CommandStates
        <3>2. /\ DaemonPart!IsWrapper(pidFile) => DaemonPart!Signalled(pidFile) = "gone"
              /\ ~DaemonPart!IsWrapper(pidFile) => DaemonPart!Signalled(pidFile) \in {"signal", "stopping"}
            BY DEF DaemonPart!Signalled
        <3>3. /\ DaemonPart!Signalled(pidFile) \in WrapperStates \cup GatewayStates
              /\ ~DaemonPart!IsWrapper(pidFile) => DaemonPart!Signalled(pidFile) \in GatewayStates \ {"new"}
            BY <3>2 DEF WrapperStates, GatewayStates
        <3>4. pidFile \in DaemonPart!Pids
            BY <2>4 DEF DaemonPart!Alive
        <3> QED
            BY <2>1, <2>4, <3>1, <3>2, <3>3, <3>4, <1>1, GoesOn
    <2> QED
        BY <2>2, <2>3, <2>4, <1>8 DEF DaemonPart!Stop
<1>9. CASE DaemonPart!SeesItDead(c)
    <2>1. DaemonPart!StepsTo(c, DaemonPart!Over(c), 0) /\ pidFile' = DaemonPart!NoFile /\ UNCHANGED <<proc, crashes, strayed>>
        BY <1>9 DEF DaemonPart!SeesItDead
    <2> QED
        BY <2>1, <1>1, <1>2, NothingGoes
<1>10. CASE DaemonPart!ForceKill(c)
    <2>1. /\ DaemonPart!StepsTo(c, DaemonPart!Over(c), 0) /\ pidFile' = DaemonPart!NoFile /\ UNCHANGED crashes /\ strayed' = TRUE
          /\ DaemonPart!Goes(command[c].pid, "crash") /\ DaemonPart!Alive(command[c].pid)
        BY <1>10 DEF DaemonPart!ForceKill
    <2>2. command[c].pid \in DaemonPart!Pids /\ "crash" \in GatewayStates \ {"new"}
        BY <2>1 DEF DaemonPart!Alive, GatewayStates
    <2>3. command' \in Seq(Issued)
        BY <2>1, <1>1, <1>2
    <2> QED
        BY <2>1, <2>2, <2>3, <1>1, GoesOn
<1> QED
    BY <1>4, <1>5, <1>6, <1>7, <1>8, <1>9, <1>10

LEMMA BaseStep == ASSUME DaemonAssumed, Base, DaemonPart!Next PROVE Base'
<1>1. ASSUME NEW kind \in {"start", "stop", "restart"}, DaemonPart!Begin(kind) PROVE Base'
    <2>1. command' \in Seq(Issued)
        BY <1>1, BeginAppends DEF CommandKinds, Base
    <2>2. UNCHANGED <<pidFile, proc, crashes>> /\ strayed' \in BOOLEAN /\ pidFile \in 0..MaxPids
        BY <1>1 DEF DaemonPart!Begin, Base, DaemonTyped
    <2> QED
        BY <2>1, <2>2, NothingGoes
<1> QED
    BY <1>1, BaseProcess, BaseCommand DEF DaemonPart!Next


\* A gateway and its wrapper are alone.
LEMMA Pair ==
    ASSUME Base, Orderly, NEW g \in DaemonPart!Gateways, NEW w, w = proc[g].parent
    PROVE  /\ w \in DaemonPart!Wrappers /\ w \in DaemonPart!Pids /\ DaemonPart!IsWrapper(w) /\ proc[w].at = "wait" /\ proc[w].child = g
           /\ DaemonPart!Wrappers = {w} /\ DaemonPart!Gateways = {g} /\ g \in DaemonPart!Pids /\ ~DaemonPart!IsWrapper(g) /\ g # w
<1>1. ASSUME NEW h \in DaemonPart!Gateways
      PROVE  LET v == proc[h].parent IN
             v \in DaemonPart!Wrappers /\ v \in DaemonPart!Pids /\ DaemonPart!IsWrapper(v) /\ proc[v].at = "wait" /\ proc[v].child = h
    <2> DEFINE v == proc[h].parent
    <2>1. v \in DaemonPart!Wrappers
        BY DEF Orderly
    <2>2. v \in DaemonPart!Pids /\ DaemonPart!IsWrapper(v) /\ DaemonPart!Alive(v) /\ h \in DaemonPart!Pids /\ ~DaemonPart!IsWrapper(h) /\ DaemonPart!Alive(h)
        BY <2>1 DEF DaemonPart!Wrappers, DaemonPart!Gateways
    <2>3. Kin(proc, h) /\ proc[h].parent # 0
        BY <2>2 DEF Base, Family, DaemonPart!IsWrapper
    <2>4. proc[h].at \notin Final /\ proc[v].at \notin Final
        BY <2>2 DEF DaemonPart!Alive, Final
    <2> QED
        BY <2>1, <2>2, <2>3, <2>4 DEF Kin
<1>2. w \in DaemonPart!Wrappers /\ w \in DaemonPart!Pids /\ DaemonPart!IsWrapper(w) /\ proc[w].at = "wait" /\ proc[w].child = g
    BY <1>1
<1>3. DaemonPart!Wrappers = {w}
    BY <1>2 DEF Orderly
<1>4. \A h \in DaemonPart!Gateways : h = g
    <2> TAKE h \in DaemonPart!Gateways
    <2>1. proc[h].parent \in DaemonPart!Wrappers /\ proc[proc[h].parent].child = h
        BY <1>1
    <2>2. proc[h].parent = w
        BY <2>1, <1>3
    <2> QED
        BY <2>1, <2>2, <1>2
<1>5. g \in DaemonPart!Pids /\ ~DaemonPart!IsWrapper(g)
    BY DEF DaemonPart!Gateways
<1> QED
    BY <1>2, <1>3, <1>4, <1>5

\* What a wrapper waits for.
LEMMA Awaited ==
    ASSUME Base, NEW w \in DaemonPart!Wrappers, proc[w].at = "wait", NEW g, g = proc[w].child
    PROVE  /\ w \in DaemonPart!Pids /\ w # 0 /\ DaemonPart!IsWrapper(w) /\ g \in DaemonPart!Pids /\ ~DaemonPart!IsWrapper(g) /\ proc[g].parent = w /\ g # w
           /\ DaemonPart!Alive(g) => g \in DaemonPart!Gateways
           /\ ~DaemonPart!Alive(g) => proc[g].at \in Final
<1>1. w \in DaemonPart!Pids /\ DaemonPart!IsWrapper(w)
    BY DEF DaemonPart!Wrappers
<1>2. DOMAIN proc = DaemonPart!Pids /\ w # 0
    BY <1>1, Domains, ProcessTypes DEF Base
<1>3. Kin(proc, w)
    BY <1>1 DEF Base, Family
<1>4. g \in DaemonPart!Pids /\ proc[g].parent = w
    BY <1>1, <1>2, <1>3 DEF Kin, DaemonPart!IsWrapper
<1> QED
    BY <1>1, <1>2, <1>4 DEF DaemonPart!IsWrapper, DaemonPart!Gateways, DaemonPart!Alive, Final

\* Who is left when one process changes.
LEMMA Remaining ==
    ASSUME NEW p \in DaemonPart!Pids, NEW x, Becomes(p, x), DaemonPart!Alive(p), x.parent = proc[p].parent
    PROVE  /\ \A q \in DaemonPart!Pids : DaemonPart!IsWrapper(q)' <=> DaemonPart!IsWrapper(q)
           /\ x.at \notin Final => DaemonPart!Wrappers' = DaemonPart!Wrappers /\ DaemonPart!Gateways' = DaemonPart!Gateways
           /\ DaemonPart!IsWrapper(p) /\ x.at \in Final => DaemonPart!Wrappers' = DaemonPart!Wrappers \ {p} /\ DaemonPart!Gateways' = DaemonPart!Gateways
           /\ ~DaemonPart!IsWrapper(p) /\ x.at \in Final => DaemonPart!Wrappers' = DaemonPart!Wrappers /\ DaemonPart!Gateways' = DaemonPart!Gateways \ {p}
<1>1. DaemonPart!Pids' = DaemonPart!Pids /\ proc'[p] = x /\ \A q \in DaemonPart!Pids \ {p} : proc'[q] = proc[q]
    BY DEF Becomes
<1>2. \A q \in DaemonPart!Pids : DaemonPart!IsWrapper(q)' <=> DaemonPart!IsWrapper(q)
    BY <1>1 DEF DaemonPart!IsWrapper
<1>3. \A q \in DaemonPart!Pids : (q \in DaemonPart!Wrappers <=> DaemonPart!IsWrapper(q) /\ proc[q].at \notin Final)
                   /\ (q \in DaemonPart!Gateways <=> ~DaemonPart!IsWrapper(q) /\ proc[q].at \notin Final)
    BY DEF DaemonPart!Wrappers, DaemonPart!Gateways, DaemonPart!Alive, Final
<1>4. \A q \in DaemonPart!Pids' : (q \in DaemonPart!Wrappers' <=> DaemonPart!IsWrapper(q)' /\ proc'[q].at \notin Final)
                               /\ (q \in DaemonPart!Gateways' <=> ~DaemonPart!IsWrapper(q)' /\ proc'[q].at \notin Final)
    BY DEF DaemonPart!Wrappers, DaemonPart!Gateways, DaemonPart!Alive, Final
<1>5. DaemonPart!Wrappers \subseteq DaemonPart!Pids /\ DaemonPart!Gateways \subseteq DaemonPart!Pids /\ DaemonPart!Wrappers' \subseteq DaemonPart!Pids /\ DaemonPart!Gateways' \subseteq DaemonPart!Pids
    BY <1>1 DEF DaemonPart!Wrappers, DaemonPart!Gateways
<1>6. proc[p].at \notin Final
    BY DEF DaemonPart!Alive, Final
<1> QED
    BY <1>1, <1>2, <1>3, <1>4, <1>5, <1>6

\* The last command, while a process moves.
LEMMA LastCommand ==
    ASSUME Base, Orderly, NEW p \in DaemonPart!Pids, NEW c, c = Len(command)
    PROVE  /\ c \in DOMAIN command /\ command[c] \in Issued /\ Stage(c) /\ command # <<>>
           /\ \A d \in DOMAIN command : d # c => command[d].at = "done"
<1>1. proc # <<>>
    BY DEF DaemonPart!Pids
<1>2. command # <<>> /\ command \in Seq(Issued)
    BY <1>1 DEF Orderly, Base, DaemonTyped
<1>3. c \in DOMAIN command
    BY <1>2, LenProperties
<1> QED
    BY <1>2, <1>3 DEF Orderly

LEMMA OrderlyKept ==
    ASSUME Base, Orderly, NEW p \in DaemonPart!Pids, command' = command, Stage(Len(command))',
           \A v, w \in DaemonPart!Wrappers' : v = w, \A g \in DaemonPart!Gateways' : proc'[g].parent \in DaemonPart!Wrappers'
    PROVE  Orderly'
<1>1. command # <<>> /\ \A d \in DOMAIN command : d # Len(command) => command[d].at = "done"
    BY LastCommand
<1> QED
    BY <1>1 DEF Orderly

\* A wrapper that neither waits nor leaves has no gateway, and was started by the last command.
LEMMA Busy ==
    ASSUME Base, Orderly, NEW w \in DaemonPart!Wrappers, proc[w].at \notin {"wait", "leave"}, NEW c, c = Len(command)
    PROVE  /\ DaemonPart!Gateways = {} /\ DaemonPart!Wrappers = {w}
           /\ \/ command[c].at = "note" /\ command[c].pid = w /\ proc[w].at \in {"boot", "launch"}
              \/ command[c].at = "done"
           /\ command[c].kind # "stop"
<1>1. w \in DaemonPart!Pids /\ DaemonPart!Wrappers = {w}
    BY DEF DaemonPart!Wrappers, Orderly
<1>2. c \in DOMAIN command /\ command[c] \in Issued /\ Stage(c)
    BY <1>1, LastCommand
<1>3. DaemonPart!Gateways = {}
    <2> SUFFICES ASSUME NEW g \in DaemonPart!Gateways PROVE FALSE
        OBVIOUS
    <2>1. proc[proc[g].parent].at = "wait" /\ DaemonPart!Wrappers = {proc[g].parent}
        BY Pair
    <2> QED
        BY <2>1
<1>4. ~Settled /\ ~Leaving /\ \A g : ~Halting(g)
    BY DEF Settled, Leaving, Halting
<1>5. command[c].at \in {"note", "done"}
    BY <1>2, <1>4 DEF Stage, Issued, CommandStates
<1>6. command[c].at = "note" => command[c].pid = w /\ proc[w].at \in {"boot", "launch"}
    BY <1>1, <1>2 DEF Stage
<1>7. command[c].kind # "stop"
    BY <1>2, <1>4, <1>5 DEF Stage
<1> QED
    BY <1>1, <1>3, <1>5, <1>6, <1>7

\* Nobody is left.
LEMMA NobodyLeft ==
    ASSUME Base, Orderly, NEW p \in DaemonPart!Pids, command' = command, DaemonPart!Wrappers' = {}, DaemonPart!Gateways' = {}, pidFile' = DaemonPart!NoFile,
           command[Len(command)].at # "note"
    PROVE  Orderly'
<1>1. Stage(Len(command))
    BY LastCommand
<1>2. Settled' /\ Leaving' /\ \A g : Halting(g)'
    BY DEF Settled, Leaving, Halting
<1>3. Stage(Len(command))'
    BY <1>1, <1>2 DEF Stage
<1> QED
    BY <1>3, OrderlyKept

\* The wrapper writes its pid, runs a gateway, wakes or leaves.
LEMMA OrderlyWrapper ==
    ASSUME DaemonAssumed, Base, Orderly, NEW w \in DaemonPart!Pids, DaemonPart!WritesOwn(w) \/ DaemonPart!RunsGateway(w) \/ DaemonPart!Wakes(w) \/ DaemonPart!LeavesLoop(w)
    PROVE  Orderly'
<1> DEFINE c == Len(command)
<1>1. /\ w \in DaemonPart!Wrappers /\ proc[w].at \notin {"wait"} /\ DaemonPart!Alive(w) /\ DaemonPart!IsWrapper(w) /\ UNCHANGED command
    BY DEF DaemonPart!WritesOwn, DaemonPart!RunsGateway, DaemonPart!Wakes, DaemonPart!LeavesLoop, DaemonPart!Wrappers, DaemonPart!Alive
<1>2. /\ c \in DOMAIN command /\ command[c] \in Issued /\ Stage(c)
    BY LastCommand
<1>3. DaemonPart!Wrappers = {w} /\ DaemonPart!Gateways = {}
    <2>1. DaemonPart!Wrappers = {w}
        BY <1>1 DEF Orderly
    <2>2. ASSUME NEW g \in DaemonPart!Gateways PROVE FALSE
        <3>1. proc[proc[g].parent].at = "wait" /\ DaemonPart!Wrappers = {proc[g].parent}
            BY Pair
        <3> QED
            BY <3>1, <2>1, <1>1
    <2> QED
        BY <2>1, <2>2
<1>4. CASE DaemonPart!WritesOwn(w)
    <2>1. DaemonPart!Goes(w, "launch") /\ proc[w].at = "boot"
        BY <1>4 DEF DaemonPart!WritesOwn
    <2>2. Becomes(w, [proc[w] EXCEPT !.at = "launch"]) /\ proc'[w].at = "launch" /\ proc'[w].parent = proc[w].parent
        BY <2>1, Went DEF Base, WrapperStates
    <2>3. DaemonPart!Wrappers' = {w} /\ DaemonPart!Gateways' = {}
        <3>1. proc'[w] = [proc[w] EXCEPT !.at = "launch"]
            BY <2>2 DEF Becomes
        <3>2. Becomes(w, proc'[w])
            BY <2>2, <3>1
        <3>3. proc'[w].at \notin Final
            BY <2>2 DEF Final
        <3> QED
            BY <2>2, <3>2, <3>3, <1>1, <1>3, Remaining
    <2>4. /\ (command[c].at = "note" /\ command[c].pid = w) \/ command[c].at = "done"
          /\ command[c].kind # "stop"
        BY <2>1, <1>1, Busy
    <2>5. Stage(c)'
        BY <2>2, <2>3, <2>4, <1>1 DEF Stage
    <2> QED
        BY <2>3, <2>5, <1>1, OrderlyKept
<1>5. CASE DaemonPart!RunsGateway(w)
    <2> PICK n : n = Len(proc) + 1
        OBVIOUS
    <2>1. /\ DaemonPart!Pids' = DaemonPart!Pids \cup {n} /\ n \notin DaemonPart!Pids
          /\ proc'[n].at = "new" /\ proc'[n].parent = w
          /\ proc'[w].at = "wait" /\ proc'[w].child = n /\ proc'[w].parent = 0
          /\ \A q \in DaemonPart!Pids \ {w} : proc'[q] = proc[q]
        BY <1>5, RunsSound
    <2>2. w # 0 /\ proc[w].at = "launch"
        BY <1>5, ProcessTypes DEF Base, DaemonPart!RunsGateway
    <2>3. DaemonPart!Wrappers' = {w} /\ DaemonPart!Gateways' = {n}
        <3>1. \A q \in DaemonPart!Pids \ {w} : q \notin DaemonPart!Wrappers' /\ q \notin DaemonPart!Gateways'
            <4> TAKE q \in DaemonPart!Pids \ {w}
            <4>1. q \notin DaemonPart!Wrappers /\ q \notin DaemonPart!Gateways
                BY <1>3
            <4> QED
                BY <4>1, <2>1 DEF DaemonPart!Wrappers, DaemonPart!Gateways, DaemonPart!Alive, DaemonPart!IsWrapper
        <3>2. w \in DaemonPart!Wrappers' /\ n \in DaemonPart!Gateways' /\ n \notin DaemonPart!Wrappers' /\ w \notin DaemonPart!Gateways'
            BY <2>1, <2>2 DEF DaemonPart!Wrappers, DaemonPart!Gateways, DaemonPart!Alive, DaemonPart!IsWrapper
        <3>3. DaemonPart!Wrappers' \subseteq DaemonPart!Pids \cup {n} /\ DaemonPart!Gateways' \subseteq DaemonPart!Pids \cup {n}
            BY <2>1 DEF DaemonPart!Wrappers, DaemonPart!Gateways
        <3> QED
            BY <3>1, <3>2, <3>3
    <2>4. /\ (command[c].at = "note" /\ command[c].pid = w) \/ command[c].at = "done"
          /\ command[c].kind # "stop"
        BY <2>2, <1>1, Busy
    <2>5. DaemonPart!Alive(n)'
        BY <2>1 DEF DaemonPart!Alive
    <2>6. Stage(c)'
        <3>1. CASE command[c].at = "note" /\ command[c].pid = w
            <4>1. DaemonPart!Alive(proc[command[c].pid].child)'
                BY <3>1, <2>1, <2>5, <1>1
            <4> QED
                BY <3>1, <4>1, <2>1, <2>3, <2>4, <1>1 DEF Stage
        <3>2. CASE command[c].at = "done"
            BY <3>2, <2>1, <2>3, <2>4, <1>1 DEF Stage
        <3> QED
            BY <3>1, <3>2, <2>4
    <2> QED
        BY <2>1, <2>3, <2>6, <1>1, OrderlyKept
<1>6. CASE DaemonPart!Wakes(w)
    <2>1. proc[w].at = "sleep" /\ Becomes(w, [proc[w] EXCEPT !.at = "launch", !.backoff = proc'[w].backoff])
        BY <1>6, WakesSound DEF DaemonPart!Wakes
    <2>2. proc'[w].at = "launch" /\ proc'[w].parent = proc[w].parent /\ Becomes(w, proc'[w])
        BY <2>1, ProcessTypes DEF Becomes, Base, Process
    <2>3. DaemonPart!Wrappers' = {w} /\ DaemonPart!Gateways' = {}
        <3>1. proc'[w].at \notin Final
            BY <2>2 DEF Final
        <3> QED
            BY <2>2, <3>1, <1>1, <1>3, Remaining
    <2>4. command[c].at = "done" /\ command[c].kind # "stop"
        BY <2>1, <1>1, Busy
    <2>5. Stage(c)'
        BY <2>3, <2>4, <1>1 DEF Stage
    <2> QED
        BY <2>3, <2>5, <1>1, OrderlyKept
<1>7. CASE DaemonPart!LeavesLoop(w)
    <2> DEFINE to == IF proc[w].at = "leave" THEN "gone" ELSE "gave up"
    <2>1. DaemonPart!Goes(w, to) /\ to \in {"gone", "gave up"} /\ pidFile' = DaemonPart!NoFile /\ proc[w].at \in {"leave", "give up"}
        BY <1>7 DEF DaemonPart!LeavesLoop
    <2> HIDE DEF to
    <2>2. to \in WrapperStates \cup GatewayStates /\ to \in Final
        BY <2>1 DEF WrapperStates, Final
    <2>3. Becomes(w, [proc[w] EXCEPT !.at = to]) /\ proc'[w].at = to /\ proc'[w].parent = proc[w].parent
        BY <2>1, <2>2, Went DEF Base
    <2>4. DaemonPart!Wrappers' = {} /\ DaemonPart!Gateways' = {}
        <3>1. proc'[w] = [proc[w] EXCEPT !.at = to]
            BY <2>3 DEF Becomes
        <3>2. Becomes(w, proc'[w])
            BY <2>3, <3>1
        <3> QED
            BY <2>2, <2>3, <3>2, <1>1, <1>3, Remaining
    <2>5. command[c].at # "note"
        BY <2>1, <1>2, <1>3 DEF Stage
    <2> QED
        BY <2>1, <2>4, <2>5, <1>1, NobodyLeft
<1> QED
    BY <1>4, <1>5, <1>6, <1>7

\* The gateway has ended: its wrapper leaves, sleeps or gives up.
LEMMA OrderlyReaps ==
    ASSUME DaemonAssumed, Base, Orderly, NEW w \in DaemonPart!Pids, DaemonPart!Reaps(w)
    PROVE  Orderly'
<1> DEFINE c == Len(command)
           child == proc[w].child
           clean == DaemonPart!IsCleanShutdown(proc[child].at)
<1>1. /\ w \in DaemonPart!Wrappers /\ proc[w].at = "wait" /\ DaemonPart!Alive(w) /\ DaemonPart!IsWrapper(w) /\ ~DaemonPart!Alive(child)
      /\ UNCHANGED <<pidFile, command>>
    BY DEF DaemonPart!Reaps, DaemonPart!Wrappers, DaemonPart!Alive
<1>2. /\ c \in DOMAIN command /\ command[c] \in Issued /\ Stage(c)
    BY LastCommand
<1>3. child \in DaemonPart!Pids /\ child # w /\ proc[child].at \in Final
    BY <1>1, Awaited
<1>4. DaemonPart!Wrappers = {w} /\ DaemonPart!Gateways = {}
    <2>1. DaemonPart!Wrappers = {w}
        BY <1>1 DEF Orderly
    <2>2. ASSUME NEW g \in DaemonPart!Gateways PROVE FALSE
        <3>1. DaemonPart!Wrappers = {proc[g].parent} /\ proc[proc[g].parent].child = g
            BY Pair
        <3>2. DaemonPart!Alive(g)
            BY DEF DaemonPart!Gateways
        <3> QED
            BY <3>1, <3>2, <2>1, <1>1
    <2> QED
        BY <2>1, <2>2
<1>5. ~Settled /\ (Leaving <=> clean) /\ \A g : Halting(g) => clean
    BY <1>1, <1>3, <1>4 DEF Settled, Leaving, Halting, DaemonPart!IsCleanShutdown, Final
<1>6. command[c].at \notin {"look", "stale", "note"}
    BY <1>1, <1>2, <1>4, <1>5 DEF Stage
<1>7. /\ DaemonPart!Pids' = DaemonPart!Pids /\ proc'[w].parent = 0
      /\ proc'[w].at \in (IF clean THEN {"leave"} ELSE {"sleep", "give up"})
      /\ Becomes(w, proc'[w])
    <2>1. CASE clean
        <3>1. DaemonPart!Goes(w, "leave")
            BY <2>1 DEF DaemonPart!Reaps
        <3>2. Becomes(w, [proc[w] EXCEPT !.at = "leave"]) /\ proc'[w].at = "leave" /\ proc'[w].parent = proc[w].parent
            BY <3>1, Went DEF Base, WrapperStates
        <3> QED
            BY <2>1, <3>2, <1>1 DEF Becomes, DaemonPart!IsWrapper
    <2>2. CASE ~clean
        <3>1. /\ proc'[w].at \in {"sleep", "give up"} /\ proc'[w].parent = 0 /\ Becomes(w, proc'[w])
            BY <2>2, ReapsCrash
        <3> QED
            BY <2>2, <3>1 DEF Becomes
    <2> QED
        BY <2>1, <2>2
<1>8. DaemonPart!Wrappers' = {w} /\ DaemonPart!Gateways' = {}
    <2>1. proc'[w].at \notin Final /\ proc'[w].parent = proc[w].parent
        BY <1>1, <1>7 DEF Final, DaemonPart!IsWrapper
    <2> QED
        BY <2>1, <1>1, <1>4, <1>7, Remaining
<1>9. clean => Leaving' /\ \A g : Halting(g)'
    BY <1>7, <1>8 DEF Leaving, Halting
<1>10. CASE clean
    <2>1. Stage(c)'
        BY <1>10, <1>1, <1>2, <1>6, <1>8, <1>9 DEF Stage
    <2> QED
        BY <2>1, <1>1, <1>8, OrderlyKept
<1>11. CASE ~clean
    <2>1. command[c].at = "done" /\ command[c].kind # "stop"
        BY <1>11, <1>2, <1>5, <1>6 DEF Stage, Issued, CommandStates
    <2>2. Stage(c)'
        BY <2>1, <1>1, <1>8 DEF Stage
    <2> QED
        BY <2>2, <1>1, <1>8, OrderlyKept
<1> QED
    BY <1>10, <1>11

\* The gateway comes up, stops or dies.
LEMMA OrderlyGateway ==
    ASSUME DaemonAssumed, Base, Orderly, ~strayed', NEW g \in DaemonPart!Pids,
           \/ DaemonPart!WritePIDFile(g) \/ DaemonPart!ComesUp(g) \/ DaemonPart!FailsToStart(g) \/ DaemonPart!RemovePIDFile(g) \/ DaemonPart!Crashes(g)
    PROVE  Orderly'
<1> DEFINE c == Len(command)
           w == proc[g].parent
<1>1. g \in DaemonPart!Gateways /\ ~DaemonPart!IsWrapper(g) /\ DaemonPart!Alive(g) /\ UNCHANGED command
    BY DEF DaemonPart!WritePIDFile, DaemonPart!ComesUp, DaemonPart!FailsToStart, DaemonPart!RemovePIDFile, DaemonPart!Crashes, DaemonPart!Gateways, DaemonPart!Alive
<1>2. /\ c \in DOMAIN command /\ command[c] \in Issued /\ Stage(c)
    BY LastCommand
<1>3. /\ w \in DaemonPart!Wrappers /\ w \in DaemonPart!Pids /\ DaemonPart!IsWrapper(w) /\ proc[w].at = "wait" /\ proc[w].child = g
      /\ DaemonPart!Wrappers = {w} /\ DaemonPart!Gateways = {g} /\ g # w
    BY <1>1, Pair
<1>4. ~Leaving
    BY <1>3 DEF Leaving
<1>5. command[c].at \notin {"stale", "sweep", "launch"}
    BY <1>2, <1>3, <1>4 DEF Stage
<1>6. ASSUME NEW to \in GatewayStates, DaemonPart!Goes(g, to)
      PROVE  /\ proc'[g].at = to /\ proc'[g].parent = w /\ proc'[w] = proc[w] /\ DaemonPart!Pids' = DaemonPart!Pids
             /\ to \notin Final => DaemonPart!Wrappers' = {w} /\ DaemonPart!Gateways' = {g}
             /\ to \in Final => DaemonPart!Wrappers' = {w} /\ DaemonPart!Gateways' = {}
    <2>1. /\ Becomes(g, [proc[g] EXCEPT !.at = to]) /\ proc'[g].at = to /\ proc'[g].parent = w
        BY <1>6, Went DEF Base
    <2>2. Becomes(g, proc'[g])
        BY <2>1 DEF Becomes
    <2>3. /\ to \notin Final => DaemonPart!Wrappers' = DaemonPart!Wrappers /\ DaemonPart!Gateways' = DaemonPart!Gateways
          /\ to \in Final => DaemonPart!Wrappers' = DaemonPart!Wrappers /\ DaemonPart!Gateways' = DaemonPart!Gateways \ {g}
        BY <2>1, <2>2, <1>1, Remaining
    <2> QED
        BY <2>1, <2>2, <2>3, <1>3 DEF Becomes
<1>7. CASE DaemonPart!WritePIDFile(g) \/ DaemonPart!ComesUp(g)
    <2> DEFINE to == IF proc[g].at = "new" THEN "starting" ELSE "up"
    <2>1. /\ DaemonPart!Goes(g, to) /\ proc[g].at \in {"new", "starting"}
          /\ proc[g].at = "new" => pidFile' = g
          /\ proc[g].at # "new" => pidFile' = pidFile
        BY <1>7 DEF DaemonPart!WritePIDFile, DaemonPart!ComesUp
    <2>2. to \in GatewayStates /\ to \notin Final /\ to \in {"new", "starting", "up"}
        BY DEF GatewayStates, Final
    <2> HIDE DEF to
    <2>3. /\ proc'[g].at = to /\ proc'[g].parent = w /\ proc'[w] = proc[w] /\ DaemonPart!Pids' = DaemonPart!Pids
          /\ DaemonPart!Wrappers' = {w} /\ DaemonPart!Gateways' = {g}
        BY <2>1, <2>2, <1>6
    <2>4. ~Settled /\ \A x : ~Halting(x)
        BY <2>1, <1>3 DEF Settled, Halting
    <2>5. command[c].at \in {"note", "done"} /\ command[c].kind # "stop"
        BY <2>4, <1>2, <1>4, <1>5 DEF Stage, Issued, CommandStates
    <2>6. Stage(c)'
        <3>1. CASE command[c].at = "note"
            <4>1. command[c].pid = w
                BY <3>1, <1>2, <1>3 DEF Stage
            <4>2. proc'[w].child = g /\ proc'[w].at = "wait"
                BY <2>3, <1>3
            <4>3. g \in DaemonPart!Pids' /\ proc'[g].at \notin {"clean", "signal", "crash", "gone", "gave up"}
                BY <2>2, <2>3
            <4>4. DaemonPart!Alive(proc[command[c].pid].child)'
                BY <4>1, <4>2, <4>3, <1>1 DEF DaemonPart!Alive
            <4> QED
                BY <3>1, <4>1, <4>2, <4>4, <2>2, <2>3, <2>5, <1>1 DEF Stage
        <3>2. CASE command[c].at = "done"
            <4>1. proc[g].at # "new" => pidFile \in {g, w}
                BY <3>2, <1>2, <1>3 DEF Stage
            <4>2. pidFile' \in {g, w}
                BY <4>1, <2>1
            <4> QED
                BY <3>2, <4>2, <2>2, <2>3, <2>5, <1>1 DEF Stage
        <3> QED
            BY <3>1, <3>2, <2>5
    <2> QED
        BY <2>3, <2>6, <1>1, OrderlyKept
<1>8. CASE DaemonPart!RemovePIDFile(g)
    <2>1. DaemonPart!Goes(g, "clean") /\ proc[g].at = "stopping"
        BY <1>8 DEF DaemonPart!RemovePIDFile
    <2>2. /\ proc'[g].at = "clean" /\ proc'[g].parent = w /\ proc'[w] = proc[w] /\ DaemonPart!Pids' = DaemonPart!Pids
          /\ DaemonPart!Wrappers' = {w} /\ DaemonPart!Gateways' = {}
        BY <2>1, <1>6 DEF GatewayStates, Final
    <2>3. ~Settled
        BY <2>1, <1>3 DEF Settled
    <2>4. command[c].at = "watch"
        BY <2>1, <2>3, <1>2, <1>3, <1>4, <1>5 DEF Stage, Issued, CommandStates
    <2>5. Halting(command[c].pid)'
        BY <2>2, <1>3 DEF Halting
    <2>6. Stage(c)'
        BY <2>4, <2>5, <1>1 DEF Stage
    <2> QED
        BY <2>2, <2>6, <1>1, OrderlyKept
<1>9. CASE DaemonPart!FailsToStart(g) \/ DaemonPart!Crashes(g)
    <2>1. DaemonPart!Goes(g, "crash") /\ DaemonPart!UnderWay = {}
        BY <1>9 DEF DaemonPart!FailsToStart, DaemonPart!Crashes
    <2>2. DaemonPart!Wrappers' = {w} /\ DaemonPart!Gateways' = {}
        BY <2>1, <1>6 DEF GatewayStates, Final
    <2>3. command[c].at = "done"
        BY <2>1, <1>2 DEF DaemonPart!UnderWay
    <2>4. command[c].kind # "stop"
        BY <2>3, <1>2, <1>4 DEF Stage
    <2>5. Stage(c)'
        BY <2>2, <2>3, <2>4, <1>1 DEF Stage
    <2> QED
        BY <2>2, <2>5, <1>1, OrderlyKept
<1> QED
    BY <1>7, <1>8, <1>9

\* A gateway that has been up for a minute is still the same to everybody.
LEMMA OrderlySettles ==
    ASSUME DaemonAssumed, Base, Orderly, NEW g \in DaemonPart!Pids, DaemonPart!Settles(g)
    PROVE  Orderly'
<1> DEFINE c == Len(command)
<1>1. /\ Becomes(g, [proc[g] EXCEPT !.old = TRUE]) /\ proc[g].at = "up" /\ DaemonPart!Alive(g) /\ ~DaemonPart!IsWrapper(g)
      /\ UNCHANGED <<pidFile, command>>
    BY SettlesSound DEF DaemonPart!Settles, DaemonPart!Alive
<1>2. \A q \in DaemonPart!Pids : proc'[q].at = proc[q].at /\ proc'[q].parent = proc[q].parent /\ proc'[q].child = proc[q].child
    BY <1>1, ProcessTypes DEF Becomes, Base, Process
<1>3. DaemonPart!Pids' = DaemonPart!Pids
    BY <1>1 DEF Becomes
<1>4. \A q : DaemonPart!Alive(q)' <=> DaemonPart!Alive(q)
    BY <1>2, <1>3 DEF DaemonPart!Alive
<1>5. DaemonPart!Wrappers' = DaemonPart!Wrappers /\ DaemonPart!Gateways' = DaemonPart!Gateways
    BY <1>2, <1>3, <1>4 DEF DaemonPart!Wrappers, DaemonPart!Gateways, DaemonPart!IsWrapper
<1>6. DaemonPart!Wrappers \subseteq DaemonPart!Pids /\ DaemonPart!Gateways \subseteq DaemonPart!Pids
    BY DEF DaemonPart!Wrappers, DaemonPart!Gateways
<1>7. /\ c \in DOMAIN command /\ command[c] \in Issued /\ Stage(c)
    BY LastCommand
<1>8. CASE command[c].at = "look" \/ (command[c].at = "status" /\ Settled)
    <2>1. Settled
        BY <1>7, <1>8 DEF Stage
    <2>2. Settled'
        BY <2>1, <1>1, <1>2, <1>4, <1>5, <1>6 DEF Settled
    <2>3. Stage(c)'
        BY <2>2, <1>1, <1>7, <1>8 DEF Stage
    <2> QED
        BY <2>3, <1>1, <1>2, <1>5, <1>6, OrderlyKept DEF Orderly
<1>9. CASE command[c].at = "note"
    <2>1. Stage(c)'
        <3>1. /\ command[c].pid \in DaemonPart!Wrappers /\ proc[command[c].pid].at \in {"boot", "launch", "wait"}
              /\ \A h \in DaemonPart!Gateways : proc[h].at \in {"new", "starting", "up"}
              /\ proc[command[c].pid].at = "wait" => DaemonPart!Alive(proc[command[c].pid].child)
              /\ command[c].kind # "stop"
            BY <1>7, <1>9 DEF Stage
        <3>2. PICK v \in DaemonPart!Wrappers : v = command[c].pid
            BY <3>1
        <3>3. /\ v \in DaemonPart!Wrappers' /\ proc'[v].at \in {"boot", "launch", "wait"}
              /\ \A h \in DaemonPart!Gateways' : proc'[h].at \in {"new", "starting", "up"}
            BY <3>1, <3>2, <1>2, <1>5, <1>6
        <3>4. proc'[v].at = "wait" => DaemonPart!Alive(proc[v].child)'
            BY <3>1, <3>2, <1>2, <1>4, <1>6
        <3> QED
            BY <3>1, <3>2, <3>3, <3>4, <1>1, <1>9 DEF Stage
    <2> QED
        BY <2>1, <1>1, <1>2, <1>5, <1>6, OrderlyKept DEF Orderly
<1>10. CASE command[c].at = "done"
    <2>1. g \in DaemonPart!Gateways
        BY <1>1 DEF DaemonPart!Gateways
    <2>2. command[c].kind # "stop"
        BY <2>1, <1>7, <1>10 DEF Stage, Leaving
    <2>3. Stage(c)'
        BY <2>2, <1>1, <1>2, <1>5, <1>6, <1>7, <1>10 DEF Stage
    <2> QED
        BY <2>3, <1>1, <1>2, <1>5, <1>6, OrderlyKept DEF Orderly
<1>11. command[c].at \notin {"stale", "sweep", "launch", "watch"} /\ (command[c].at = "status" => Settled)
    BY <1>1, <1>7 DEF Stage, Leaving, Halting, DaemonPart!Gateways
<1> QED
    BY <1>7, <1>8, <1>9, <1>10, <1>11 DEF Issued, CommandStates

\* When nothing is half done, a file that names no live process means that there is none.
LEMMA NobodyThere ==
    ASSUME Base, Orderly, Settled, ~DaemonPart!Alive(pidFile)
    PROVE  DaemonPart!Wrappers = {} /\ DaemonPart!Gateways = {}
<1>1. ASSUME NEW g \in DaemonPart!Gateways PROVE FALSE
    BY DEF Settled, DaemonPart!Gateways
<1>2. ASSUME NEW w \in DaemonPart!Wrappers PROVE FALSE
    <2>1. proc[w].at = "wait" /\ DaemonPart!Alive(proc[w].child)
        BY DEF Settled
    <2>2. proc[w].child \in DaemonPart!Gateways
        BY <2>1, Awaited
    <2> QED
        BY <2>2, <1>1
<1> QED
    BY <1>1, <1>2

\* A calm daemon is settled: as many gateways as wrappers.
LEMMA CalmIsSettled == ASSUME Base, Orderly, DaemonPart!Calm PROVE Settled
<1>1. ASSUME NEW w \in DaemonPart!Wrappers PROVE proc[w].at = "wait" /\ DaemonPart!Alive(proc[w].child)
    <2>1. DaemonPart!Gateways # {}
        <3>1. IsFiniteSet(DaemonPart!Pids)
            BY Domains, FS_Interval DEF DaemonPart!Pids, Base
        <3>2. IsFiniteSet(DaemonPart!Wrappers) /\ IsFiniteSet(DaemonPart!Gateways)
            BY <3>1, FS_Subset DEF DaemonPart!Wrappers, DaemonPart!Gateways
        <3>3. Cardinality(DaemonPart!Wrappers) # 0
            BY <3>2, FS_EmptySet
        <3> QED
            BY <3>2, <3>3, FS_EmptySet, CountsAlike DEF DaemonPart!Calm
    <2>2. PICK g \in DaemonPart!Gateways : TRUE
        BY <2>1
    <2>3. DaemonPart!Wrappers = {proc[g].parent} /\ proc[proc[g].parent].child = g
        BY Pair
    <2> QED
        BY <2>3 DEF DaemonPart!Calm, DaemonPart!Gateways
<1> QED
    BY <1>1 DEF Settled, DaemonPart!Calm

\* A command begins.
LEMMA OrderlyBegin ==
    ASSUME DaemonAssumed, Base, ~strayed => Orderly, ~strayed', NEW kind \in CommandKinds, DaemonPart!Begin(kind)
    PROVE  Orderly'
<1>1. DaemonPart!Calm /\ Orderly /\ UNCHANGED <<pidFile, proc>>
    BY DEF DaemonPart!Begin, Base, DaemonTyped
<1>2. /\ Len(command') = Len(command) + 1 /\ Len(command) \in Nat
      /\ DOMAIN command' = 1..Len(command) + 1 /\ DOMAIN command = 1..Len(command)
      /\ command'[Len(command) + 1].kind = kind
      /\ command'[Len(command) + 1].at = IF kind = "start" THEN "status" ELSE "look"
      /\ \A c \in DOMAIN command : command'[c] = command[c]
    BY BeginAppends DEF Base
<1>3. Settled'
    <2>1. Settled
        BY <1>1, CalmIsSettled
    <2> QED
        BY <2>1, <1>1 DEF Settled, DaemonPart!Wrappers, DaemonPart!Gateways, DaemonPart!Alive, DaemonPart!IsWrapper, DaemonPart!Pids
<1>4. \A c \in DOMAIN command' : c # Len(command') => command'[c].at = "done"
    <2> SUFFICES ASSUME NEW c \in DOMAIN command', c # Len(command') PROVE command'[c].at = "done"
        OBVIOUS
    <2>1. c \in DOMAIN command
        BY <1>2
    <2>2. command[c].at = "done"
        BY <2>1, <1>1 DEF DaemonPart!Calm, DaemonPart!UnderWay
    <2> QED
        BY <2>1, <2>2, <1>2
<1>5. Stage(Len(command))'
    BY <1>2, <1>3 DEF Stage, CommandKinds
<1>6. command' # <<>>
    BY <1>2
<1>7. (\A v, w \in DaemonPart!Wrappers : v = w)' /\ (\A g \in DaemonPart!Gateways : proc[g].parent \in DaemonPart!Wrappers)'
    <2>1. DaemonPart!Wrappers' = DaemonPart!Wrappers /\ DaemonPart!Gateways' = DaemonPart!Gateways
        BY <1>1 DEF DaemonPart!Wrappers, DaemonPart!Gateways, DaemonPart!Alive, DaemonPart!IsWrapper, DaemonPart!Pids
    <2> QED
        BY <2>1, <1>1 DEF Orderly
<1> QED
    BY <1>4, <1>5, <1>6, <1>7 DEF Orderly

\* A command that steps is the last one.
LEMMA Stepping ==
    ASSUME Base, Orderly, NEW c \in DOMAIN command, command[c].at # "done"
    PROVE  c = Len(command) /\ Stage(c) /\ command[c] \in Issued /\ command # <<>>
<1>1. c = Len(command) /\ command # <<>>
    BY DEF Orderly
<1> QED
    BY <1>1 DEF Orderly, Base, DaemonTyped

\* It steps, and the processes stay.
LEMMA OrderlySteps ==
    ASSUME Base, Orderly, NEW c \in DOMAIN command, command[c].at # "done",
           NEW to \in CommandStates, NEW pid \in 0..MaxPids, DaemonPart!StepsTo(c, to, pid), proc' = proc,
           /\ to = "status" => Leaving
           /\ to = "stale" => DaemonPart!Wrappers = {} /\ DaemonPart!Gateways = {}
           /\ to = "launch" \/ to = "sweep" => Leaving
           /\ to = "done" =>
               /\ \A g \in DaemonPart!Gateways : /\ proc[g].at \in {"new", "starting", "up"}
                                                 /\ proc[g].at # "new" => pidFile' \in {g, proc[g].parent}
               /\ command[c].kind = "stop" => Leaving /\ pidFile' = DaemonPart!NoFile,
           to \in {"status", "stale", "launch", "sweep", "done"},
           command[c].kind = "stop" => to \in {"stale", "done"}
    PROVE  Orderly'
<1>1. c = Len(command) /\ Stage(c) /\ command[c] \in Issued /\ command # <<>>
    BY Stepping
<1>2. /\ command' \in Seq(Issued) /\ Len(command') = Len(command) /\ DOMAIN command' = DOMAIN command
      /\ command'[c].at = to /\ command'[c].pid = pid /\ command'[c].kind = command[c].kind
      /\ \A d \in DOMAIN command \ {c} : command'[d] = command[d]
    BY CommandSteps DEF Base
<1>3. DaemonPart!Wrappers' = DaemonPart!Wrappers /\ DaemonPart!Gateways' = DaemonPart!Gateways
    BY DEF DaemonPart!Wrappers, DaemonPart!Gateways, DaemonPart!Alive, DaemonPart!IsWrapper, DaemonPart!Pids
<1>4. Leaving' <=> Leaving
    BY <1>3 DEF Leaving, DaemonPart!IsCleanShutdown
<1>5. Stage(Len(command))'
    <2>1. Len(command') = c
        BY <1>1, <1>2
    <2> QED
        BY <2>1, <1>2, <1>3, <1>4 DEF Stage
<1>6. \A d \in DOMAIN command' : d # Len(command') => command'[d].at = "done"
    BY <1>1, <1>2 DEF Orderly
<1>7. command' # <<>>
    BY <1>2
<1> QED
    BY <1>3, <1>5, <1>6, <1>7 DEF Orderly

\* The steps of a command.
LEMMA OrderlyCommand ==
    ASSUME DaemonAssumed, Base, Orderly, ~strayed', NEW c \in DOMAIN command,
           \/ DaemonPart!GetStatus(c) \/ DaemonPart!Sweep(c) \/ DaemonPart!Launch(c) \/ DaemonPart!NotePid(c) \/ DaemonPart!Stop(c) \/ DaemonPart!SeesItDead(c) \/ DaemonPart!ForceKill(c)
    PROVE  Orderly'
<1>1. command[c].at # "done"
    BY DEF DaemonPart!GetStatus, DaemonPart!Sweep, DaemonPart!Launch, DaemonPart!NotePid, DaemonPart!Stop, DaemonPart!SeesItDead, DaemonPart!ForceKill
<1>2. c = Len(command) /\ Stage(c) /\ command[c] \in Issued /\ command # <<>>
    BY <1>1, Stepping
<1>3. /\ command \in Seq(Issued) /\ pidFile \in 0..MaxPids /\ 0 \in 0..MaxPids /\ DaemonPart!NoFile = 0
      /\ DaemonPart!Over(c) \in CommandStates /\ command[c].pid \in 0..MaxPids
    BY <1>2, OverIsStep DEF Base, DaemonTyped, DaemonPart!NoFile, DaemonAssumed, Issued
<1>4. /\ DaemonPart!Over(c) \in {"status", "done"} /\ (command[c].kind = "stop" => DaemonPart!Over(c) = "done")
    BY DEF DaemonPart!Over
<1>5. DaemonPart!Wrappers = {} /\ DaemonPart!Gateways = {} => Leaving
    BY DEF Leaving
<1>6. CASE DaemonPart!GetStatus(c)
    <2> DEFINE to == IF DaemonPart!Alive(pidFile) THEN "done" ELSE IF pidFile = DaemonPart!NoFile THEN "launch" ELSE "sweep"
    <2>1. to \in CommandStates
        BY DEF CommandStates
    <2>2. /\ DaemonPart!StepsTo(c, to, pidFile) /\ UNCHANGED <<pidFile, proc>> /\ command[c].at = "status"
          /\ command[c].kind # "stop"
        BY <1>2, <1>6 DEF DaemonPart!GetStatus, Stage
    <2>3. Settled \/ Leaving
        BY <2>2, <1>2 DEF Stage
    <2>4. ~DaemonPart!Alive(pidFile) => Leaving
        BY <2>3, <1>5, NobodyThere
    <2>5. \A g \in DaemonPart!Gateways : proc[g].at \in {"new", "starting", "up"} /\ pidFile' = g
        BY <2>2, <2>3 DEF Settled, Leaving
    <2>6. to \in {"done", "launch", "sweep"} /\ (to # "done" => Leaving)
        BY <2>4
    <2> HIDE DEF to
    <2> QED
        BY <2>1, <2>2, <2>5, <2>6, <1>1, <1>3, OrderlySteps
<1>7. CASE DaemonPart!Sweep(c)
    <2> DEFINE to == IF command[c].at = "sweep" THEN "launch" ELSE DaemonPart!Over(c)
    <2>1. to \in CommandStates
        BY <1>3 DEF CommandStates
    <2>2. /\ DaemonPart!StepsTo(c, to, 0) /\ pidFile' = DaemonPart!NoFile /\ UNCHANGED proc /\ command[c].at \in {"sweep", "stale"}
        BY <1>7 DEF DaemonPart!Sweep
    <2>3. Leaving /\ (command[c].at = "sweep" => command[c].kind # "stop")
        BY <2>2, <1>2, <1>5 DEF Stage
    <2>4. DaemonPart!Gateways = {}
        BY <2>3 DEF Leaving
    <2>5. to \in {"launch", "status", "done"} /\ (command[c].kind = "stop" => to = "done")
        BY <2>2, <2>3, <1>4
    <2> HIDE DEF to
    <2> QED
        BY <2>1, <2>2, <2>3, <2>4, <2>5, <1>1, <1>3, OrderlySteps
<1>8. CASE DaemonPart!Launch(c)
    <2> PICK n : n = Len(proc) + 1
        OBVIOUS
    <2>1. /\ DaemonPart!Pids' = DaemonPart!Pids \cup {n} /\ n \notin DaemonPart!Pids /\ proc'[n] = DaemonPart!Wrapper
          /\ \A q \in DaemonPart!Pids : proc'[q] = proc[q]
        BY <1>8, LaunchesSound
    <2>2. DaemonPart!StepsTo(c, "note", n) /\ DaemonPart!Wrappers = {} /\ command[c].at = "launch"
        BY <1>8 DEF DaemonPart!Launch, Base, DaemonTyped
    <2>3. DaemonPart!Gateways = {} /\ command[c].kind # "stop"
        BY <2>2, <1>2 DEF Stage, Leaving
    <2>4. DaemonPart!Wrappers' = {n} /\ DaemonPart!Gateways' = {}
        <3>1. \A q \in DaemonPart!Pids : q \notin DaemonPart!Wrappers' /\ q \notin DaemonPart!Gateways'
            <4> TAKE q \in DaemonPart!Pids
            <4>1. q \notin DaemonPart!Wrappers /\ q \notin DaemonPart!Gateways
                BY <2>2, <2>3
            <4> QED
                BY <4>1, <2>1 DEF DaemonPart!Wrappers, DaemonPart!Gateways, DaemonPart!Alive, DaemonPart!IsWrapper
        <3>2. n \in DaemonPart!Wrappers' /\ n \notin DaemonPart!Gateways'
            <4>1. n \in DaemonPart!Pids' /\ proc'[n].at = "boot" /\ proc'[n].parent = 0
                BY <2>1 DEF DaemonPart!Wrapper
            <4> QED
                BY <4>1 DEF DaemonPart!Wrappers, DaemonPart!Gateways, DaemonPart!Alive, DaemonPart!IsWrapper
        <3>3. DaemonPart!Wrappers' \subseteq DaemonPart!Pids \cup {n} /\ DaemonPart!Gateways' \subseteq DaemonPart!Pids \cup {n}
            BY <2>1 DEF DaemonPart!Wrappers, DaemonPart!Gateways
        <3> QED
            BY <3>1, <3>2, <3>3
    <2>5. n \in 0..MaxPids
        <3>1. Base'
            BY <1>8, LaunchesSound
        <3>2. n \in DaemonPart!Pids' /\ DaemonPart!Pids' \subseteq 0..MaxPids
            <4>1. DaemonTyped'
                BY <3>1 DEF Base
            <4>2. Len(proc') \in Nat /\ MaxPids \in Nat /\ Len(proc') <= MaxPids
                BY <4>1, LenProperties DEF DaemonTyped, DaemonAssumed
            <4> QED
                BY <4>2, <2>1 DEF DaemonPart!Pids
        <3> QED
            BY <3>2
    <2>6. /\ command' \in Seq(Issued) /\ Len(command') = Len(command) /\ DOMAIN command' = DOMAIN command
          /\ command'[c].at = "note" /\ command'[c].pid = n /\ command'[c].kind = command[c].kind
          /\ \A d \in DOMAIN command \ {c} : command'[d] = command[d]
        BY <2>2, <2>5, CommandSteps DEF Base, CommandStates
    <2>7. Stage(Len(command))'
        <3>1. Len(command') = c /\ proc'[n].at = "boot"
            BY <2>1, <2>6, <1>2 DEF DaemonPart!Wrapper
        <3> QED
            BY <3>1, <2>3, <2>4, <2>6 DEF Stage
    <2>8. \A d \in DOMAIN command' : d # Len(command') => command'[d].at = "done"
        BY <2>6, <1>2 DEF Orderly
    <2>9. command' # <<>>
        BY <2>6
    <2> QED
        BY <2>4, <2>7, <2>8, <2>9 DEF Orderly
<1>9. CASE DaemonPart!NotePid(c)
    <2>1. DaemonPart!StepsTo(c, "done", 0) /\ pidFile' = command[c].pid /\ UNCHANGED proc /\ command[c].at = "note"
        BY <1>9 DEF DaemonPart!NotePid
    <2>2. /\ command[c].pid \in DaemonPart!Wrappers /\ \A g \in DaemonPart!Gateways : proc[g].at \in {"new", "starting", "up"}
          /\ command[c].kind # "stop"
        BY <2>1, <1>2 DEF Stage
    <2>3. \A g \in DaemonPart!Gateways : proc[g].parent = command[c].pid
        BY <2>2, Pair
    <2> QED
        BY <2>1, <2>2, <2>3, <1>1, <1>3, OrderlySteps DEF CommandStates
<1>10. CASE DaemonPart!Stop(c)
    <2>1. command[c].at = "look" /\ pidFile' = pidFile
        BY <1>10 DEF DaemonPart!Stop
    <2>2. Settled
        BY <2>1, <1>2 DEF Stage
    <2>3. CASE pidFile = DaemonPart!NoFile /\ DaemonPart!StepsTo(c, DaemonPart!Over(c), 0) /\ UNCHANGED proc
        <3>1. ~DaemonPart!Alive(pidFile)
            BY <2>3, ProcessTypes DEF DaemonPart!Alive, DaemonPart!NoFile, Base
        <3>2. DaemonPart!Wrappers = {} /\ DaemonPart!Gateways = {}
            BY <3>1, <2>2, NobodyThere
        <3> QED
            BY <3>2, <2>1, <2>3, <1>1, <1>3, <1>4, <1>5, OrderlySteps
    <2>4. CASE pidFile # DaemonPart!NoFile /\ ~DaemonPart!Alive(pidFile) /\ DaemonPart!StepsTo(c, "stale", 0) /\ UNCHANGED proc
        <3>1. DaemonPart!Wrappers = {} /\ DaemonPart!Gateways = {}
            BY <2>4, <2>2, NobodyThere
        <3> QED
            BY <3>1, <2>4, <1>1, <1>3, OrderlySteps DEF CommandStates
    <2>5. CASE DaemonPart!Alive(pidFile) /\ DaemonPart!StepsTo(c, "watch", pidFile) /\ DaemonPart!Goes(pidFile, DaemonPart!Signalled(pidFile))
        <3> PICK g : g = pidFile
            OBVIOUS
        <3>1. g \in DaemonPart!Gateways
            <4>1. CASE g \in DaemonPart!Wrappers
                <5>1. proc[g].at = "wait" /\ DaemonPart!Alive(proc[g].child)
                    BY <4>1, <2>2 DEF Settled
                <5>2. proc[g].child \in DaemonPart!Gateways /\ proc[g].child # g
                    BY <4>1, <5>1, Awaited
                <5> QED
                    BY <5>2, <2>2 DEF Settled
            <4> QED
                BY <4>1, <2>5 DEF DaemonPart!Wrappers, DaemonPart!Gateways, DaemonPart!Alive
        <3>2. proc[g].at = "up" /\ DaemonPart!Alive(g) /\ ~DaemonPart!IsWrapper(g) /\ g \in DaemonPart!Pids
            BY <3>1, <2>2 DEF Settled, DaemonPart!Gateways
        <3>3. DaemonPart!Goes(g, "stopping")
            BY <3>2, <2>5 DEF DaemonPart!Signalled
        <3> DEFINE w == proc[g].parent
        <3>4. /\ w \in DaemonPart!Wrappers /\ w \in DaemonPart!Pids /\ DaemonPart!IsWrapper(w) /\ proc[w].at = "wait" /\ proc[w].child = g
              /\ DaemonPart!Wrappers = {w} /\ DaemonPart!Gateways = {g} /\ g # w
            BY <3>1, Pair
        <3>5. /\ Becomes(g, [proc[g] EXCEPT !.at = "stopping"]) /\ proc'[g].at = "stopping" /\ proc'[g].parent = w
            BY <3>2, <3>3, Went DEF Base, GatewayStates
        <3>6. proc'[w] = proc[w] /\ Becomes(g, proc'[g])
            BY <3>4, <3>5 DEF Becomes
        <3>7. DaemonPart!Wrappers' = {w} /\ DaemonPart!Gateways' = {g}
            BY <3>2, <3>4, <3>5, <3>6, Remaining DEF Final
        <3>8. /\ command' \in Seq(Issued) /\ Len(command') = Len(command) /\ DOMAIN command' = DOMAIN command
              /\ command'[c].at = "watch" /\ command'[c].pid = g /\ command'[c].kind = command[c].kind
              /\ \A d \in DOMAIN command \ {c} : command'[d] = command[d]
            BY <2>5, <1>3, CommandSteps DEF Base, CommandStates
        <3>9. Stage(Len(command))'
            <4>1. Len(command') = c
                BY <3>8, <1>2
            <4>2. /\ \A x \in DaemonPart!Gateways' : x = g /\ proc'[x].at = "stopping"
                  /\ \A v \in DaemonPart!Wrappers' : proc'[v].at = "wait" /\ proc'[proc'[v].child].at = "stopping"
                BY <3>4, <3>5, <3>6, <3>7
            <4>3. Halting(command[c].pid)'
                BY <4>2, <3>8 DEF Halting
            <4> QED
                BY <4>1, <4>3, <3>8 DEF Stage
        <3>10. \A d \in DOMAIN command' : d # Len(command') => command'[d].at = "done"
            BY <3>8, <1>2 DEF Orderly
        <3>11. command' # <<>>
            BY <3>8
        <3> QED
            BY <3>5, <3>7, <3>9, <3>10, <3>11 DEF Orderly
    <2> QED
        BY <2>3, <2>4, <2>5, <1>10 DEF DaemonPart!Stop
<1>11. CASE DaemonPart!SeesItDead(c)
    <2>1. /\ DaemonPart!StepsTo(c, DaemonPart!Over(c), 0) /\ pidFile' = DaemonPart!NoFile /\ UNCHANGED proc
          /\ command[c].at = "watch" /\ ~DaemonPart!Alive(command[c].pid)
        BY <1>11 DEF DaemonPart!SeesItDead
    <2>2. Halting(command[c].pid)
        BY <2>1, <1>2 DEF Stage
    <2>3. DaemonPart!Gateways = {}
        BY <2>1, <2>2 DEF Halting, DaemonPart!Gateways
    <2>4. Leaving
        <3>1. ASSUME NEW w \in DaemonPart!Wrappers, proc[w].at # "leave"
              PROVE  proc[w].at = "wait" /\ DaemonPart!IsCleanShutdown(proc[proc[w].child].at)
            <4>1. proc[w].at = "wait" /\ proc[proc[w].child].at \in {"stopping", "clean", "signal"}
                BY <3>1, <2>2 DEF Halting
            <4>2. proc[proc[w].child].at \in Final
                BY <4>1, <2>3, Awaited
            <4> QED
                BY <4>1, <4>2 DEF Final, DaemonPart!IsCleanShutdown
        <3> QED
            BY <3>1, <2>3 DEF Leaving
    <2> QED
        BY <2>1, <2>3, <2>4, <1>1, <1>3, <1>4, OrderlySteps
<1>12. CASE DaemonPart!ForceKill(c)
    BY <1>12 DEF DaemonPart!ForceKill
<1> QED
    BY <1>6, <1>7, <1>8, <1>9, <1>10, <1>11, <1>12


LEMMA StrayedStays == ASSUME Base, DaemonPart!Next, ~strayed' PROVE ~strayed
    BY DEF DaemonPart!Next, DaemonPart!WritesOwn, DaemonPart!RunsGateway, DaemonPart!Reaps, DaemonPart!Wakes, DaemonPart!LeavesLoop, DaemonPart!WritePIDFile, DaemonPart!ComesUp, DaemonPart!FailsToStart, DaemonPart!Settles,
           DaemonPart!RemovePIDFile, DaemonPart!Crashes, DaemonPart!Begin, DaemonPart!GetStatus, DaemonPart!Sweep, DaemonPart!Launch, DaemonPart!NotePid, DaemonPart!Stop, DaemonPart!SeesItDead, DaemonPart!ForceKill, Base, DaemonTyped

LEMMA DaemonStep == ASSUME DaemonAssumed, DaemonInv, [DaemonPart!Next]_(DaemonPart!vars) PROVE DaemonInv'
<1>1. CASE DaemonPart!Next
    <2>1. Base'
        BY <1>1, BaseStep DEF DaemonInv
    <2>2. ASSUME ~strayed' PROVE Orderly'
        <3>1. Base /\ Orderly
            BY <1>1, <2>2, StrayedStays DEF DaemonInv
        <3>2. ASSUME NEW p \in DaemonPart!Pids,
                     \/ DaemonPart!WritesOwn(p) \/ DaemonPart!RunsGateway(p) \/ DaemonPart!Reaps(p) \/ DaemonPart!Wakes(p) \/ DaemonPart!LeavesLoop(p)
                     \/ DaemonPart!WritePIDFile(p) \/ DaemonPart!ComesUp(p) \/ DaemonPart!FailsToStart(p) \/ DaemonPart!Settles(p)
                     \/ DaemonPart!RemovePIDFile(p) \/ DaemonPart!Crashes(p)
              PROVE  Orderly'
            BY <2>2, <3>1, <3>2, OrderlyWrapper, OrderlyReaps, OrderlyGateway, OrderlySettles
        <3>3. ASSUME NEW kind \in {"start", "stop", "restart"}, DaemonPart!Begin(kind) PROVE Orderly'
            BY <2>2, <3>1, <3>3, OrderlyBegin DEF CommandKinds
        <3> QED
            BY <1>1, <2>2, <3>1, <3>2, <3>3, OrderlyCommand DEF DaemonPart!Next
    <2> QED
        BY <2>1, <2>2 DEF DaemonInv
<1>2. CASE UNCHANGED DaemonPart!vars
    <2>1. UNCHANGED <<pidFile, proc, command, crashes, strayed>>
        BY <1>2 DEF DaemonPart!vars
    <2>2. Base'
        BY <2>1, NothingGoes DEF DaemonInv, Base, DaemonTyped
    <2>3. DaemonPart!Wrappers' = DaemonPart!Wrappers /\ DaemonPart!Gateways' = DaemonPart!Gateways
        BY <2>1 DEF DaemonPart!Wrappers, DaemonPart!Gateways, DaemonPart!Alive, DaemonPart!IsWrapper, DaemonPart!Pids
    <2>4. Orderly' <=> Orderly
        BY <2>1, <2>3 DEF Orderly, Stage, Settled, Leaving, Halting, DaemonPart!Alive, DaemonPart!Pids, DaemonPart!IsCleanShutdown
    <2> QED
        BY <2>1, <2>2, <2>4 DEF DaemonInv
<1> QED
    BY <1>1, <1>2

LEMMA DaemonInit == ASSUME DaemonAssumed, DaemonPart!Init PROVE DaemonInv
<1>1. proc = <<>> /\ command = <<>> /\ pidFile = 0 /\ crashes = [p \in 1..MaxPids |-> <<>>] /\ strayed = FALSE
    BY DEF DaemonPart!Init, DaemonPart!NoFile
<1>2. DaemonTyped
    <2>1. proc \in Seq(Process) /\ Len(proc) = 0 /\ command \in Seq(Issued)
        BY <1>1
    <2>2. crashes \in [1..MaxPids -> Seq(BOOLEAN)]
        <3>1. <<>> \in Seq(BOOLEAN)
            OBVIOUS
        <3> QED
            BY <3>1, <1>1
    <2> QED
        <3>1. Len(proc) <= MaxPids /\ 0 \in 0..MaxPids
            BY <2>1 DEF DaemonAssumed
        <3>2. pidFile \in 0..MaxPids /\ strayed \in BOOLEAN
            BY <3>1, <1>1
        <3> QED
            BY <2>1, <2>2, <3>1, <3>2 DEF DaemonTyped
<1>3. DaemonPart!Pids = {} /\ Len(proc) = 0
    BY <1>1 DEF DaemonPart!Pids
<1>4. Family /\ Counters
    BY <1>1, <1>3 DEF Family, Counters
<1>5. DaemonPart!Wrappers = {} /\ DaemonPart!Gateways = {}
    BY <1>3 DEF DaemonPart!Wrappers, DaemonPart!Gateways
<1>6. Orderly
    BY <1>1, <1>5 DEF Orderly
<1> QED
    BY <1>2, <1>4, <1>6 DEF DaemonInv, Base

LEMMA DaemonIsKept == ASSUME DaemonAssumed, DaemonInv PROVE DaemonPart!DaemonKept
<1>1. DaemonPart!GivesUpInTime
    <2> SUFFICES ASSUME NEW p \in DaemonPart!Pids, DaemonPart!IsWrapper(p)
                 PROVE  /\ proc[p].at = "sleep" => DaemonPart!Streak(p) < MaxRestarts /\ proc[p].backoff = DaemonPart!Power[DaemonPart!Streak(p) - 1]
                        /\ proc[p].at = "gave up" => DaemonPart!Streak(p) = MaxRestarts
        BY DEF DaemonPart!GivesUpInTime
    <2>1. InStep(p)
        BY DEF DaemonInv, Base, Counters
    <2>2. MaxRestarts \in Nat /\ \A n \in 1..MaxRestarts - 1 : n < MaxRestarts
        BY DEF DaemonAssumed
    <2> QED
        BY <2>1, <2>2 DEF InStep
<1>2. DaemonPart!OneDaemon
    <2> SUFFICES ASSUME ~strayed
                 PROVE  /\ Cardinality(DaemonPart!Wrappers) <= 1 /\ Cardinality(DaemonPart!Gateways) <= 1
                        /\ DaemonPart!UnderWay = {} /\ (\E g \in DaemonPart!Gateways : proc[g].at = "up") => pidFile \in DaemonPart!Gateways \cup DaemonPart!Wrappers
                        /\ \A c \in DOMAIN command :
                              /\ command[c].kind = "stop" /\ command[c].at = "done" /\ c = Len(command)
                              => /\ DaemonPart!Gateways = {} /\ pidFile = DaemonPart!NoFile
                                 /\ \A w \in DaemonPart!Wrappers : proc[w].at \in {"wait", "leave"}
        BY CountsAlike DEF DaemonPart!OneDaemon
    <2>1. Base /\ Orderly
        BY DEF DaemonInv
    <2>2. \A g, h \in DaemonPart!Gateways : g = h
        BY <2>1, Pair
    <2>3. Cardinality(DaemonPart!Wrappers) <= 1 /\ Cardinality(DaemonPart!Gateways) <= 1
        <3>1. ASSUME NEW S, \A x, y \in S : x = y PROVE Cardinality(S) <= 1
            <4>1. CASE S = {}
                BY <4>1, FS_EmptySet
            <4>2. CASE S # {}
                <5>1. PICK x \in S : S = {x}
                    BY <3>1, <4>2
                <5>2. Cardinality({x}) = 1
                    BY FS_Singleton
                <5> QED
                    BY <5>1, <5>2
            <4> QED
                BY <4>1, <4>2
        <3>2. \A x, y \in DaemonPart!Wrappers : x = y
            BY <2>1 DEF Orderly
        <3> QED
            BY <3>1, <3>2, <2>2
    <2>4. ASSUME DaemonPart!UnderWay = {}, NEW g \in DaemonPart!Gateways, proc[g].at = "up" PROVE pidFile \in DaemonPart!Gateways \cup DaemonPart!Wrappers
        <3> DEFINE c == Len(command)
        <3>1. c \in DOMAIN command /\ Stage(c)
            BY <2>1, LastCommand DEF DaemonPart!Gateways
        <3>2. command[c].at = "done"
            BY <2>4, <3>1 DEF DaemonPart!UnderWay
        <3>3. pidFile \in {g, proc[g].parent}
            BY <2>4, <3>1, <3>2 DEF Stage
        <3> QED
            BY <3>3, <2>1 DEF Orderly
    <2>5. ASSUME NEW c \in DOMAIN command, command[c].kind = "stop", command[c].at = "done", c = Len(command)
          PROVE  DaemonPart!Gateways = {} /\ pidFile = DaemonPart!NoFile /\ \A w \in DaemonPart!Wrappers : proc[w].at \in {"wait", "leave"}
        <3>1. Stage(c)
            BY <2>1, <2>5 DEF Orderly
        <3> QED
            BY <3>1, <2>5 DEF Stage, Leaving
    <2> QED
        BY <2>3, <2>4, <2>5
<1> QED
    BY <1>1, <1>2 DEF DaemonPart!DaemonKept

--------------------------------------------------------------------------------
(***************************************************************************)
(* What a component does among the others is what it does alone.           *)
(***************************************************************************)
LEMMA E2BRuns == [AllNext]_allVars => [E2BPart!Next]_(E2BPart!vars)
    BY DEF AllNext, Only, allVars, e2bVars, E2BPart!vars

LEMMA AccountsRun == [AllNext]_allVars => [AccountsPart!Next]_(AccountsPart!vars)
    BY DEF AllNext, Only, allVars, accountsVars, AccountsPart!vars

LEMMA CronRuns == [AllNext]_allVars => [CronPart!Next]_(CronPart!vars)
    BY DEF AllNext, Only, allVars, cronVars, CronPart!vars

LEMMA RoutingRuns == [AllNext]_allVars => [RoutingPart!Next]_(RoutingPart!vars)
    BY DEF AllNext, Only, allVars, routingVars, RoutingPart!vars

LEMMA RowsRun == [AllNext]_allVars => [RowsPart!Next]_(RowsPart!vars)
    BY DEF AllNext, Only, allVars, rowsVars, RowsPart!vars

LEMMA SettingsRun == [AllNext]_allVars => [SettingsPart!Next]_(SettingsPart!vars)
    BY DEF AllNext, Only, allVars, settingsVars, SettingsPart!vars

LEMMA MigrationsRun == [AllNext]_allVars => [MigrationsPart!Next]_(MigrationsPart!vars)
    BY DEF AllNext, Only, allVars, migrationsVars, MigrationsPart!vars

LEMMA DaemonRuns == [AllNext]_allVars => [DaemonPart!Next]_(DaemonPart!vars)
    BY DEF AllNext, Only, allVars, daemonVars, DaemonPart!vars

LEMMA DaemonTypes == DaemonInv => DaemonPart!TypeOK
<1> SUFFICES ASSUME DaemonTyped PROVE DaemonPart!TypeOK
    BY DEF DaemonInv, Base
<1>1. \A p \in DaemonPart!Pids : proc[p].count \in 0 .. MaxRestarts /\ proc[p].backoff \in 1 .. MaxBackoff
    <2>1. \A x \in Process : x.count \in 0 .. MaxRestarts /\ x.backoff \in 1 .. MaxBackoff
        BY DEF Process
    <2>2. \A p \in DaemonPart!Pids : proc[p] \in Process
        BY DEF DaemonTyped, DaemonPart!Pids
    <2> QED
        BY <2>1, <2>2
<1>2. \A c \in DOMAIN command : command[c].at \in CommandStates
    <2>1. \A x \in Issued : x.at \in CommandStates
        BY DEF Issued
    <2>2. \A c \in DOMAIN command : command[c] \in Issued
        BY DEF DaemonTyped
    <2> QED
        BY <2>1, <2>2
<1>3. pidFile \in 0 .. MaxPids /\ Len(proc) \in 0 .. MaxPids /\ strayed \in BOOLEAN
    BY DEF DaemonTyped
<1> QED
    BY <1>1, <1>2, <1>3 DEF CommandStates, DaemonPart!TypeOK

LEMMA ServicesTypes ==
    AllSpec => [](/\ RoutingPart!TypeOK /\ SettingsPart!TypeOK /\ RowsPart!TypeOK /\ CronPart!TypeOK
                  /\ AccountsPart!TypeOK /\ E2BPart!TypeOK /\ MigrationsPart!TypeOK /\ DaemonPart!TypeOK)
<1> USE ServicesAssumption
<1>1. AllSpec => []RoutingInv
    BY RoutingInit, RoutingStep, RoutingRuns, PTL DEF AllSpec, AllInit
<1>2. AllSpec => []SettingsInv
    BY SettingsInit, SettingsStep, SettingsRun, PTL DEF AllSpec, AllInit
<1>3. AllSpec => []RowsInv
    BY RowsInit, RowsStep, RowsRun, PTL DEF AllSpec, AllInit
<1>4. AllSpec => []CronInv
    BY CronInit, CronStep, CronRuns, PTL DEF AllSpec, AllInit
<1>5. AllSpec => []AccountsInv
    BY AccountsInit, AccountsStep, AccountsRun, PTL DEF AllSpec, AllInit
<1>6. AllSpec => []E2BInv
    BY E2BInit, E2BStep, E2BRuns, PTL DEF AllSpec, AllInit
<1>7. AllSpec => []MigrInv
    BY MigrInit, MigrStep, MigrationsRun, PTL DEF AllSpec, AllInit
<1>8. AllSpec => []DaemonInv
    BY DaemonInit, DaemonStep, DaemonRuns, PTL DEF AllSpec, AllInit
<1>9. /\ RoutingInv => RoutingPart!TypeOK
      /\ SettingsInv => SettingsPart!TypeOK
      /\ RowsInv => RowsPart!TypeOK
      /\ CronInv => CronPart!TypeOK
    BY RoutingMeets, PatchesTakeEffect, RowsAreSound, CronFires
<1>10. /\ AccountsInv => AccountsPart!TypeOK
       /\ E2BInv => E2BPart!TypeOK
       /\ MigrInv => MigrationsPart!TypeOK
    BY DEF AccountsInv, E2BInv, MigrInv
<1> QED
    BY <1>1, <1>2, <1>3, <1>4, <1>5, <1>6, <1>7, <1>8, <1>9, <1>10, DaemonTypes, PTL

\* However calls share an executor, replace its sandbox under one another and lose answers, none
\* runs twice in one sandbox, and every sandbox that is up is the pool's, being closed, or known
\* to be let go (E2BExecutor.Exec and recreate, E2BPool.Get and Close).
THEOREM RemoteCallsStaySound == AllSpec => []RemoteCallsSound
<1>1. AllSpec => []E2BInv
    BY E2BInit, E2BStep, E2BRuns, ServicesAssumption, PTL DEF AllSpec, AllInit
<1>2. E2BInv => RemoteCallsSound
    BY DEF E2BInv, RemoteCallsSound, E2BPart!RemoteCallsSound
<1> QED
    BY <1>1, <1>2, PTL

\* A deleted account does not come back, whatever the requests under way have read of it, and
\* nobody gets in by a row it left behind (DeleteUser, UpdateUser, Resolve).
THEOREM DeletionStaysFinal == AllSpec => []AccountDeletionIsFinal
<1>1. AllSpec => []AccountsInv
    BY AccountsInit, AccountsStep, AccountsRun, ServicesAssumption, PTL DEF AllSpec, AllInit
<1>2. AccountsInv => AccountDeletionIsFinal
    BY AccountsFinal DEF AccountDeletionIsFinal
<1> QED
    BY <1>1, <1>2, PTL

\* An agent meets a message once however many bots saw it, a bot is answered only when it names
\* the agent, and a job fires once for a time however many processes poll (Router and bus
\* dedup, Scheduler.poll and TryLockCronJob).
THEOREM AgentsTriggeredOnce == AllSpec => []TriggeredOnce
<1>1. AllSpec => []RoutingInv
    BY RoutingInit, RoutingStep, RoutingRuns, ServicesAssumption, PTL DEF AllSpec, AllInit
<1>2. AllSpec => []CronInv
    BY CronInit, CronStep, CronRuns, ServicesAssumption, PTL DEF AllSpec, AllInit
<1>3. RoutingInv /\ CronInv => TriggeredOnce
    BY RoutingMeets, CronFires, ServicesAssumption DEF TriggeredOnce
<1> QED
    BY <1>1, <1>2, <1>3, PTL

\* An update of the settings that no other one overlaps has the effect it asks for and no other;
\* channel rows share a credential only after a race, and no row holds the mask (saveUserConfig
\* a namespace at a time, SaveConfig and the handlers that check before it).
THEOREM ConfigurationStaysSound == AllSpec => []ConfigurationSound
<1>1. AllSpec => []SettingsInv
    BY SettingsInit, SettingsStep, SettingsRun, ServicesAssumption, PTL DEF AllSpec, AllInit
<1>2. AllSpec => []RowsInv
    BY RowsInit, RowsStep, RowsRun, ServicesAssumption, PTL DEF AllSpec, AllInit
<1>3. SettingsInv /\ RowsInv => ConfigurationSound
    BY PatchesTakeEffect, RowsAreSound, ServicesAssumption DEF ConfigurationSound
<1> QED
    BY <1>1, <1>2, <1>3, PTL

\* Migrations that are killed at any statement and run again by any process lose no setting, file
\* or owner, and whoever is up has migrated; the wrapper gives up on the last crash allowed in a
\* row and backs off in powers of two, and while nothing strays there is one daemon, in the file
\* (migrate, RunLoop, Start, Stop).
THEOREM RestartsStaySound == AllSpec => []RestartsSound
<1>1. AllSpec => []MigrInv
    BY MigrInit, MigrStep, MigrationsRun, ServicesAssumption, PTL DEF AllSpec, AllInit
<1>2. AllSpec => []DaemonInv
    BY DaemonInit, DaemonStep, DaemonRuns, ServicesAssumption, PTL DEF AllSpec, AllInit
<1>3. MigrInv /\ DaemonInv => RestartsSound
    BY UpIsMigrated, DaemonIsKept, ServicesAssumption DEF RestartsSound
<1> QED
    BY <1>1, <1>2, <1>3, PTL

================================================================================
