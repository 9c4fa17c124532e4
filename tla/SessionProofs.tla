----------------------------- MODULE SessionProofs -----------------------------
(***************************************************************************)
(* Theorems about Session, for any number of pods, actors and messages.    *)
(*                                                                         *)
(* 1. Types (TypeCorrect), whatever overlaps.                              *)
(*                                                                         *)
(* 2. When the operations on a session come one after the other, as the    *)
(*    chat queue makes them, nothing is lost between pods (RewritesCurrent,*)
(*    GetIsFresh, AppendsExtend) and the file mirrors the cache            *)
(*    (FileIsMirrored).  The argument: the one actor at work holds the     *)
(*    object its pod caches (HoldsCached), and that object has what is     *)
(*    durable from the end of Get on (InStep), in store mode because Get   *)
(*    has just copied the row (RowCopied) and in file mode because only    *)
(*    one pod has a cache at all (OnePod).                                 *)
(***************************************************************************)
EXTENDS Session, FiniteSetTheorems, WellFoundedInduction, TLAPS

Serial == ~Overlap

\* An actor works on the session object it holds.
Idling  == {"idle", "reload", "remove"}
Working == Loc \ Idling

\* What TypeOK says of snap, got and read, as sets of functions.
FunctionsOK ==
    /\ snap \in [Objects -> Seq(Message) \cup {NoSnapshot}]
    /\ got \in [Actors -> Seq(Message) \cup {NoRow}]
    /\ read \in [Actors -> Seq(Message)]

\* An operation runs on a pod; only store mode reads a row, and not to delete.
PodInv ==
    \A a \in Actors :
        /\ pc[a] # "idle" => pod[a] \in Pods
        /\ pc[a] = "reload" => mode = "store" /\ op[a] # "delete"

TypeInv == TypeOK /\ FunctionsOK /\ PodInv

OneAtATime == \A a, b \in Actors : pc[a] # "idle" /\ pc[b] # "idle" => a = b

\* The object an actor works on is the one its pod caches.
HoldsCached == \A a \in Actors : pc[a] \in Working => cached[pod[a]] = obj[a]

\* In file mode one process has the session in its cache, and none while the
\* file is about to be removed.
OnePod ==
    mode = "file" =>
        /\ \A p, q \in Pods : cached[p] # NoObject /\ cached[q] # NoObject => p = q
        /\ \A a \in Actors, p \in Pods : pc[a] = "remove" => cached[p] = NoObject

\* The row Get has read is still the row when Get uses it.
RowCopied ==
    \A a \in Actors :
        pc[a] = "reload" => got[a] = IF exists THEN durable ELSE NoRow

\* From the end of Get to the end of the operation the object has the history.
InStep == \A a \in Actors : pc[a] \in Working /\ exists => mem[obj[a]] = durable

SerialInv ==
    /\ OneAtATime
    /\ HoldsCached
    /\ OnePod
    /\ RowCopied
    /\ InStep
    /\ RewriteFromCurrent
    /\ FileMirrorsCache

--------------------------------------------------------------------------------
(***************************************************************************)
(* The operators.                                                          *)
(***************************************************************************)
LEMMA LastOf ==
    ASSUME NEW n \in Nat, NEW S \in SUBSET (1 .. n), S # {}
    PROVE  \E i \in S : \A j \in S : j <= i
<1> DEFINE T == {n - i : i \in S}
           R == OpToRel(<, Nat)
<1>1. T \subseteq Nat /\ T # {}
    <2>1. ASSUME NEW i \in S PROVE n - i \in Nat
        <3>1. i \in 1 .. n
            OBVIOUS
        <3> QED
            BY <3>1
    <2> QED
        BY <2>1
<1>2. IsWellFoundedOn(R, Nat)
    BY NatLessThanWellFounded
<1> HIDE DEF T, R
<1>3. PICK x \in T : \A y \in T : ~(<<y, x>> \in R)
    BY <1>1, <1>2, WFMin
<1>4. \A y \in T : ~(y < x)
    <2>1. \A y \in Nat : y < x => <<y, x>> \in R
        BY <1>1 DEF R, OpToRel
    <2> QED
        BY <1>1, <1>3, <2>1
<1>5. PICK i \in S : x = n - i
    BY DEF T
<1>6. ASSUME NEW j \in S PROVE j <= i
    <2>1. n - j \in T
        BY DEF T
    <2> QED
        BY <1>4, <1>5, <2>1
<1> QED
    BY <1>6

\* /retry and /undo cut a list before its last user message.
LEMMA LastUserIs ==
    ASSUME NEW s \in Seq(Message)
    PROVE  LastUser(s) \in 0 .. Len(s)
<1> DEFINE users == {i \in 1 .. Len(s) : s[i].role = "user"}
           c == CHOOSE i \in users : \A j \in users : j <= i
<1>1. CASE users = {}
    <2>1. LastUser(s) = 0
        BY <1>1 DEF LastUser
    <2> QED
        BY <2>1
<1>2. CASE users # {}
    <2>1. Len(s) \in Nat /\ users \in SUBSET (1 .. Len(s))
        OBVIOUS
    <2>2. \E i \in users : \A j \in users : j <= i
        BY <1>2, <2>1, LastOf
    <2>3. c \in users
        BY <2>2
    <2>4. LastUser(s) = c
        BY <1>2 DEF LastUser
    <2> HIDE DEF c
    <2> QED
        BY <2>1, <2>3, <2>4
<1> QED
    BY <1>1, <1>2

LEMMA CutIsList ==
    ASSUME NEW s \in Seq(Message)
    PROVE  RetryCut(s) \in Seq(Message)
<1>1. LastUser(s) \in 0 .. Len(s)
    BY LastUserIs
<1> DEFINE n == LastUser(s)
<1> HIDE DEF n
<1>2. SubSeq(s, 1, n - 1) \in Seq(Message)
    <2>1. n \in 0 .. Len(s)
        BY <1>1 DEF n
    <2>2. CASE n = 0
        <3>1. SubSeq(s, 1, n - 1) = <<>>
            BY <2>2
        <3>2. <<>> \in Seq(Message)
            OBVIOUS
        <3> QED
            BY <3>1, <3>2
    <2>3. CASE n # 0
        BY <2>1, <2>3
    <2> QED
        BY <2>2, <2>3
<1> QED
    BY <1>2 DEF RetryCut, n

\* There is a fresh object for an actor that holds none, on a pod that caches
\* none.
LEMMA FreshIs ==
    ASSUME NEW a \in Actors, NEW p \in Pods,
           cached \in [Pods -> Objects \cup {NoObject}],
           obj \in [Actors -> Objects \cup {NoObject}],
           cached[p] = NoObject, obj[a] = NoObject
    PROVE  /\ Fresh \in Objects
           /\ \A q \in Pods : cached[q] # Fresh
           /\ \A b \in Actors : obj[b] # Fresh
<1> USE SessionAssumption, ObjectsSuffice
<1> DEFINE P == Pods \ {p}
           A == Actors \ {a}
           C == {cached[q] : q \in P}
           H == {obj[b] : b \in A}
<1>1. /\ IsFiniteSet(P) /\ Cardinality(P) = Cardinality(Pods) - 1
      /\ IsFiniteSet(A) /\ Cardinality(A) = Cardinality(Actors) - 1
    <2>1. IsFiniteSet(P) /\ Cardinality(P) = Cardinality(Pods) - 1
        BY FS_RemoveElement
    <2>2. IsFiniteSet(A) /\ Cardinality(A) = Cardinality(Actors) - 1
        BY FS_RemoveElement
    <2> QED
        BY <2>1, <2>2
<1>2. IsFiniteSet(C) /\ Cardinality(C) <= Cardinality(P)
    <2> DEFINE f == [q \in P |-> cached[q]]
    <2>1. f \in Surjection(P, C)
        BY DEF Surjection
    <2> HIDE DEF f, C, P
    <2> QED
        BY <1>1, <2>1, FS_Surjection
<1>3. IsFiniteSet(H) /\ Cardinality(H) <= Cardinality(A)
    <2> DEFINE f == [b \in A |-> obj[b]]
    <2>1. f \in Surjection(A, H)
        BY DEF Surjection
    <2> HIDE DEF f, H, A
    <2> QED
        BY <1>1, <2>1, FS_Surjection
<1>4. IsFiniteSet(C \cup H) /\ Cardinality(C \cup H) <= Cardinality(C) + Cardinality(H)
    <2> HIDE DEF C, H
    <2>1. /\ IsFiniteSet(C \cup H)
          /\ Cardinality(C \cup H) = Cardinality(C) + Cardinality(H) - Cardinality(C \cap H)
        BY <1>2, <1>3, FS_Union
    <2>2. IsFiniteSet(C \cap H)
        BY <1>2, FS_Subset
    <2>3. /\ Cardinality(C) \in Nat /\ Cardinality(H) \in Nat
          /\ Cardinality(C \cap H) \in Nat
        BY <1>2, <1>3, <2>2, FS_CardinalityType
    <2> QED
        BY <2>1, <2>3
<1>5. \E o \in Objects : o \notin C \cup H
    <2> HIDE DEF C, H, P, A
    <2> SUFFICES ASSUME Objects \subseteq C \cup H PROVE FALSE
        OBVIOUS
    <2>1. Cardinality(Objects) <= Cardinality(C \cup H)
        BY <1>4, FS_Subset
    <2>2. /\ Cardinality(C) \in Nat /\ Cardinality(H) \in Nat
          /\ Cardinality(C \cup H) \in Nat /\ Cardinality(Objects) \in Nat
          /\ Cardinality(Pods) \in Nat /\ Cardinality(Actors) \in Nat
        BY <1>2, <1>3, <1>4, FS_CardinalityType
    <2> QED
        BY <1>1, <1>2, <1>3, <1>4, <2>1, <2>2
<1>6. \A o \in Objects : o \in InUse => o \in C \cup H
    BY DEF InUse
<1>7. Fresh \in Objects \ InUse
    BY <1>5, <1>6 DEF Fresh
<1> QED
    BY <1>7 DEF InUse

--------------------------------------------------------------------------------
(***************************************************************************)
(* Types: the data, and what actors are at.                                *)
(***************************************************************************)
DataOK ==
    /\ mode \in Modes
    /\ exists \in BOOLEAN
    /\ durable \in Seq(Message)
    /\ ~exists => durable = <<>>
    /\ cached \in [Pods -> Objects \cup {NoObject}]
    /\ mem \in [Objects -> Seq(Message)]
    /\ snap \in [Objects -> Seq(Message) \cup {NoSnapshot}]
    /\ count \in 0 .. MaxMessages

ActorOK(a) ==
    /\ obj[a] = NoObject <=> pc[a] \in Idling
    /\ pc[a] # "idle" => pod[a] \in Pods
    /\ pc[a] = "reload" => mode = "store" /\ op[a] # "delete"

ActorsOK ==
    /\ pc \in [Actors -> Loc]
    /\ op \in [Actors -> Ops]
    /\ pod \in [Actors -> Pods \cup {NoPod}]
    /\ obj \in [Actors -> Objects \cup {NoObject}]
    /\ got \in [Actors -> Seq(Message) \cup {NoRow}]
    /\ read \in [Actors -> Seq(Message)]
    /\ \A a \in Actors : ActorOK(a)

LEMMA TypeParts == TypeInv <=> DataOK /\ ActorsOK
<1>1. TypeInv => DataOK
    BY DEF TypeInv, TypeOK, FunctionsOK, DataOK
<1>2. TypeInv => ActorsOK
    BY DEF TypeInv, TypeOK, FunctionsOK, PodInv, ActorsOK, ActorOK, Idling
<1>3. DataOK /\ ActorsOK => TypeInv
    <2> SUFFICES ASSUME DataOK, ActorsOK PROVE TypeInv
        OBVIOUS
    <2>1. FunctionsOK /\ PodInv
        BY DEF FunctionsOK, PodInv, DataOK, ActorsOK, ActorOK
    <2>2. \A o \in Objects : snap[o] # NoSnapshot => snap[o] \in Seq(Message)
        BY <2>1 DEF FunctionsOK
    <2>3. \A a \in Actors :
            /\ obj[a] = NoObject <=> pc[a] \in {"idle", "reload", "remove"}
            /\ got[a] # NoRow => got[a] \in Seq(Message)
            /\ read[a] \in Seq(Message)
        BY DEF ActorsOK, ActorOK, Idling
    <2>4. TypeOK
        BY <2>2, <2>3 DEF TypeOK, DataOK, ActorsOK
    <2> QED
        BY <2>1, <2>4 DEF TypeInv
<1> QED
    BY <1>1, <1>2, <1>3

\* What only a step's data part or only its actor part has to establish.
LEMMA DoneActors ==
    ASSUME NEW a \in Actors, ActorsOK, Done(a), mode' = mode
    PROVE  ActorsOK'
<1>1. \A b \in Actors \ {a} :
        /\ pc'[b] = pc[b] /\ op'[b] = op[b] /\ pod'[b] = pod[b]
        /\ obj'[b] = obj[b]
    BY DEF ActorsOK, Done
<1>2. pc'[a] = "idle" /\ obj'[a] = NoObject
    BY DEF ActorsOK, Done
<1>3. /\ pc' \in [Actors -> Loc]
      /\ op' \in [Actors -> Ops]
      /\ pod' \in [Actors -> Pods \cup {NoPod}]
      /\ obj' \in [Actors -> Objects \cup {NoObject}]
    BY DEF ActorsOK, Done, Loc, Ops
<1>4. got' \in [Actors -> Seq(Message) \cup {NoRow}]
    BY DEF ActorsOK, Done
<1>5. read' \in [Actors -> Seq(Message)]
    <2>1. <<>> \in Seq(Message)
        OBVIOUS
    <2> QED
        BY <2>1 DEF ActorsOK, Done
<1>6. ASSUME NEW b \in Actors PROVE ActorOK(b)'
    <2>1. CASE b = a
        BY <1>2, <2>1 DEF ActorOK, Idling
    <2>2. CASE b # a
        <3>1. ActorOK(b)
            BY DEF ActorsOK
        <3> QED
            BY <1>1, <2>2, <3>1 DEF ActorOK, Idling
    <2> QED
        BY <2>1, <2>2
<1> QED
    BY <1>3, <1>4, <1>5, <1>6 DEF ActorsOK

\* The actor goes on with its object.
LEMMA StepActors ==
    ASSUME NEW a \in Actors, NEW loc \in Working, ActorsOK,
           pc[a] \in Working, pc' = [pc EXCEPT ![a] = loc],
           read' \in [Actors -> Seq(Message)],
           UNCHANGED <<mode, op, pod, obj, got>>
    PROVE  ActorsOK'
<1>1. pc' \in [Actors -> Loc]
    BY DEF ActorsOK, Working
<1>2. ASSUME NEW b \in Actors PROVE ActorOK(b)'
    <2>1. ActorOK(b)
        BY DEF ActorsOK
    <2>2. CASE b = a
        <3>1. pc'[b] = loc /\ pc[b] \in Working
            BY <2>2 DEF ActorsOK
        <3> QED
            BY <2>1, <3>1 DEF ActorOK, Idling, Working, Loc
    <2>3. CASE b # a
        <3>1. pc'[b] = pc[b]
            BY <2>3 DEF ActorsOK
        <3> QED
            BY <2>1, <3>1 DEF ActorOK, Idling
    <2> QED
        BY <2>2, <2>3
<1> QED
    BY <1>1, <1>2 DEF ActorsOK

LEMMA GotoActors ==
    ASSUME NEW a \in Actors, NEW loc \in Working, ActorsOK,
           pc[a] \in Working, Goto(a, loc), mode' = mode
    PROVE  ActorsOK'
<1>1. read' \in [Actors -> Seq(Message)]
    BY DEF ActorsOK, Goto
<1> QED
    BY <1>1, StepActors DEF Goto

\* The actor has a session object now.
LEMMA ProceedActors ==
    ASSUME NEW a \in Actors, NEW p \in Pods, NEW k \in Ops \ {"delete"},
           ActorsOK, Proceed(a, p, k), Target(p) \in Objects, mode' = mode
    PROVE  ActorsOK'
<1>1. CASE k = "poll"
    BY <1>1, DoneActors DEF Proceed
<1>2. CASE k # "poll"
    <2>1. /\ pc' = [pc EXCEPT ![a] = First(k)]
          /\ op' = [op EXCEPT ![a] = k]
          /\ pod' = [pod EXCEPT ![a] = p]
          /\ obj' = [obj EXCEPT ![a] = Target(p)]
          /\ got' = [got EXCEPT ![a] = NoRow]
          /\ read' = read
        BY <1>2 DEF Proceed
    <2>2. First(k) \in Working
        <3>1. k \in {"turn", "inject", "clear", "retry", "undo", "compact"}
            BY <1>2 DEF Ops
        <3> QED
            BY <3>1 DEF First, Working, Loc, Idling
    <2>3. /\ pc' \in [Actors -> Loc]
          /\ op' \in [Actors -> Ops]
          /\ pod' \in [Actors -> Pods \cup {NoPod}]
        BY <2>1, <2>2 DEF ActorsOK, Working
    <2>4. /\ obj' \in [Actors -> Objects \cup {NoObject}]
          /\ got' \in [Actors -> Seq(Message) \cup {NoRow}]
          /\ read' \in [Actors -> Seq(Message)]
        BY <2>1 DEF ActorsOK
    <2>5. ASSUME NEW b \in Actors PROVE ActorOK(b)'
        <3>1. CASE b = a
            <4>1. pc'[b] \in Working /\ pod'[b] = p /\ obj'[b] \in Objects
                BY <2>1, <2>2, <3>1 DEF ActorsOK
            <4>2. pc'[b] \notin Idling /\ obj'[b] # NoObject
                BY <4>1, SessionAssumption DEF Working
            <4> QED
                BY <4>1, <4>2 DEF ActorOK, Idling
        <3>2. CASE b # a
            <4>1. /\ pc'[b] = pc[b] /\ op'[b] = op[b] /\ pod'[b] = pod[b]
                  /\ obj'[b] = obj[b]
                BY <2>1, <3>2 DEF ActorsOK
            <4>2. ActorOK(b)
                BY DEF ActorsOK
            <4> QED
                BY <4>1, <4>2 DEF ActorOK, Idling
        <3> QED
            BY <3>1, <3>2
    <2> QED
        BY <2>3, <2>4, <2>5 DEF ActorsOK
<1> QED
    BY <1>1, <1>2

LEMMA Holds ==
    ASSUME NEW a \in Actors, ActorsOK, pc[a] \in Working
    PROVE  obj[a] \in Objects /\ pod[a] \in Pods
<1>1. ActorOK(a) /\ obj[a] \in Objects \cup {NoObject} /\ pc[a] \notin Idling
    BY DEF ActorsOK, Working
<1> QED
    BY <1>1 DEF ActorOK, Idling

\* The writes.
LEMMA AppendData ==
    ASSUME NEW a \in Actors, NEW role \in {"user", "assistant"}, DataOK,
           obj[a] \in Objects, AppendMessage(a, role),
           UNCHANGED <<mode, cached, snap>>
    PROVE  /\ DataOK'
           /\ \E m \in Message :
                /\ mem' = [mem EXCEPT ![obj[a]] = Append(mem[obj[a]], m)]
                /\ exists' = TRUE
                /\ durable' = Append(IF mode = "store" THEN mem[obj[a]] ELSE durable, m)
<1> DEFINE m == [n |-> count + 1, role |-> role]
<1>1. count < MaxMessages /\ count' = count + 1
    BY DEF AppendMessage
<1>2. count' \in 0 .. MaxMessages /\ count + 1 \in 1 .. MaxMessages
    BY <1>1, SessionAssumption DEF DataOK
<1>3. m \in Message
    BY <1>2 DEF Message
<1>4. mem' = [mem EXCEPT ![obj[a]] = Append(mem[obj[a]], m)]
    BY DEF AppendMessage
<1>5. exists' = TRUE
      /\ durable' = Append(IF mode = "store" THEN mem[obj[a]] ELSE durable, m)
    BY DEF AppendMessage, Persist, Write
<1> HIDE DEF m
<1>6. mem[obj[a]] \in Seq(Message) /\ durable \in Seq(Message)
    BY DEF DataOK
<1>7. Append(mem[obj[a]], m) \in Seq(Message) /\ Append(durable, m) \in Seq(Message)
    BY <1>3, <1>6
<1>8. durable' \in Seq(Message)
    BY <1>5, <1>7
<1>9. mem' \in [Objects -> Seq(Message)]
    BY <1>4, <1>7 DEF DataOK
<1>10. DataOK'
    BY <1>2, <1>5, <1>8, <1>9 DEF DataOK
<1> QED
    BY <1>3, <1>4, <1>5, <1>10

LEMMA ReplaceData ==
    ASSUME NEW a \in Actors, NEW list \in Seq(Message), DataOK,
           obj[a] \in Objects, ReplaceMessages(a, list),
           UNCHANGED <<mode, cached, snap, count>>
    PROVE  DataOK'
<1>1. mem' \in [Objects -> Seq(Message)]
    BY DEF DataOK, ReplaceMessages
<1>2. exists' = TRUE /\ durable' = list
    BY DEF ReplaceMessages, Write
<1> QED
    BY <1>1, <1>2 DEF DataOK

LEMMA NewData ==
    ASSUME NEW p \in Pods, NEW list \in Seq(Message), DataOK,
           Fresh \in Objects, NewSession(p, list), UNCHANGED <<mode, history, count>>
    PROVE  DataOK'
<1>1. cached' \in [Pods -> Objects \cup {NoObject}]
    BY DEF DataOK, NewSession
<1>2. mem' \in [Objects -> Seq(Message)]
    BY DEF DataOK, NewSession
<1>3. snap' \in [Objects -> Seq(Message) \cup {NoSnapshot}]
    BY DEF DataOK, NewSession
<1> QED
    BY <1>1, <1>2, <1>3 DEF DataOK, history

LEMMA SameData ==
    ASSUME DataOK, UNCHANGED <<mode, history, objects, count>>
    PROVE  DataOK'
BY DEF DataOK, history, objects

LEMMA RemoveData ==
    ASSUME DataOK, Remove, UNCHANGED <<mode, cached, snap, count>>,
           mem' \in [Objects -> Seq(Message)]
    PROVE  DataOK'
<1>1. exists' = FALSE /\ durable' = <<>>
    BY DEF Remove
<1>2. <<>> \in Seq(Message)
    OBVIOUS
<1> QED
    BY <1>1, <1>2 DEF DataOK

\* Get's object, found or new.
LEMMA TargetIs ==
    ASSUME NEW a \in Actors, NEW p \in Pods, DataOK, ActorsOK, pc[a] \in Idling
    PROVE  /\ Target(p) \in Objects
           /\ cached[p] = NoObject =>
                /\ Fresh \in Objects
                /\ \A q \in Pods : cached[q] # Fresh
                /\ \A b \in Actors : obj[b] # Fresh
<1>1. cached[p] \in Objects \cup {NoObject}
    BY DEF DataOK
<1>2. obj[a] = NoObject
    BY DEF ActorsOK, ActorOK
<1>3. ASSUME cached[p] = NoObject
      PROVE  /\ Fresh \in Objects
             /\ \A q \in Pods : cached[q] # Fresh
             /\ \A b \in Actors : obj[b] # Fresh
    <2>1. /\ cached \in [Pods -> Objects \cup {NoObject}]
          /\ obj \in [Actors -> Objects \cup {NoObject}]
        BY DEF DataOK, ActorsOK
    <2> QED
        BY <1>2, <1>3, <2>1, FreshIs
<1>4. Target(p) \in Objects
    <2>1. CASE cached[p] = NoObject
        BY <1>3, <2>1 DEF Target
    <2>2. CASE cached[p] # NoObject
        BY <1>1, <2>2 DEF Target
    <2> QED
        BY <2>1, <2>2
<1> QED
    BY <1>3, <1>4

--------------------------------------------------------------------------------
(***************************************************************************)
(* Types: every step keeps them.                                           *)
(***************************************************************************)
LEMMA GetFileTypes ==
    ASSUME NEW a \in Actors, NEW p \in Pods, NEW k \in Ops \ {"delete"},
           DataOK, ActorsOK, GetFile(a, p, k)
    PROVE  DataOK' /\ ActorsOK'
<1>1. pc[a] \in Idling
    BY DEF GetFile, MayBegin, Idling
<1>2. Target(p) \in Objects /\ (cached[p] = NoObject => Fresh \in Objects)
    BY <1>1, TargetIs
<1>3. mode' = mode /\ Proceed(a, p, k) /\ UNCHANGED <<mode, history, count>>
    BY DEF GetFile
<1>4. ActorsOK'
    BY <1>2, <1>3, ProceedActors
<1>5. CASE cached[p] = NoObject
    <2>1. NewSession(p, durable) /\ durable \in Seq(Message)
        BY <1>5 DEF GetFile, DataOK
    <2> QED
        BY <1>2, <1>3, <1>4, <1>5, <2>1, NewData
<1>6. CASE cached[p] # NoObject
    <2>1. UNCHANGED objects
        BY <1>6 DEF GetFile
    <2> QED
        BY <1>3, <1>4, <2>1, SameData
<1> QED
    BY <1>5, <1>6

LEMMA GetRowTypes ==
    ASSUME NEW a \in Actors, NEW p \in Pods, NEW k \in Ops \ {"delete"},
           DataOK, ActorsOK, GetRow(a, p, k)
    PROVE  DataOK' /\ ActorsOK'
<1>1. DataOK'
    BY SameData DEF GetRow
<1>2. /\ pc[a] = "idle" /\ mode = "store"
      /\ got' = [got EXCEPT ![a] = IF exists THEN durable ELSE NoRow]
      /\ pc' = [pc EXCEPT ![a] = "reload"]
      /\ op' = [op EXCEPT ![a] = k]
      /\ pod' = [pod EXCEPT ![a] = p]
      /\ UNCHANGED <<mode, obj, read>>
    BY DEF GetRow, MayBegin
<1>3. /\ pc' \in [Actors -> Loc]
      /\ op' \in [Actors -> Ops]
      /\ pod' \in [Actors -> Pods \cup {NoPod}]
      /\ obj' \in [Actors -> Objects \cup {NoObject}]
    BY <1>2 DEF ActorsOK, Loc
<1>4. got' \in [Actors -> Seq(Message) \cup {NoRow}]
    BY <1>2 DEF ActorsOK, DataOK
<1>5. ASSUME NEW b \in Actors PROVE ActorOK(b)'
    <2>1. ActorOK(b)
        BY DEF ActorsOK
    <2>2. CASE b = a
        <3>1. /\ pc'[b] = "reload" /\ op'[b] = k /\ pod'[b] = p /\ obj'[b] = obj[b]
              /\ mode' = "store" /\ pc[b] = "idle"
            BY <1>2, <2>2 DEF ActorsOK
        <3> QED
            BY <2>1, <3>1 DEF ActorOK, Idling
    <2>3. CASE b # a
        <3>1. /\ pc'[b] = pc[b] /\ op'[b] = op[b] /\ pod'[b] = pod[b]
              /\ obj'[b] = obj[b] /\ mode' = mode
            BY <1>2, <2>3 DEF ActorsOK
        <3> QED
            BY <2>1, <3>1 DEF ActorOK, Idling
    <2> QED
        BY <2>2, <2>3
<1>6. read' \in [Actors -> Seq(Message)]
    BY <1>2 DEF ActorsOK
<1> QED
    BY <1>1, <1>3, <1>4, <1>5, <1>6 DEF ActorsOK

LEMMA ReloadTypes ==
    ASSUME NEW a \in Actors, DataOK, ActorsOK, Reload(a)
    PROVE  DataOK' /\ ActorsOK'
<1> DEFINE p == pod[a]
           list == IF got[a] = NoRow THEN <<>> ELSE got[a]
<1>1. pc[a] = "reload" /\ pc[a] \in Idling
    BY DEF Reload, Idling
<1>2. p \in Pods /\ op[a] \in Ops \ {"delete"}
    <2>1. ActorOK(a) /\ op[a] \in Ops
        BY DEF ActorsOK
    <2> QED
        BY <1>1, <2>1 DEF ActorOK
<1>3. list \in Seq(Message)
    <2>1. got[a] \in Seq(Message) \cup {NoRow}
        BY DEF ActorsOK
    <2>2. <<>> \in Seq(Message)
        OBVIOUS
    <2> QED
        BY <2>1, <2>2
<1>4. /\ Proceed(a, p, op[a])
      /\ UNCHANGED <<mode, history, count>>
      /\ mode' = mode
    BY DEF Reload
<1>5. /\ cached[p] = NoObject => NewSession(p, list)
      /\ cached[p] # NoObject =>
            /\ mem' = IF got[a] = NoRow THEN mem
                      ELSE [mem EXCEPT ![cached[p]] = got[a]]
            /\ UNCHANGED <<cached, snap>>
    BY DEF Reload
<1>6. got[a] # NoRow => list = got[a]
    OBVIOUS
<1> HIDE DEF p, list
<1>7. Target(p) \in Objects /\ (cached[p] = NoObject => Fresh \in Objects)
    BY <1>1, <1>2, TargetIs
<1>8. ActorsOK'
    BY <1>2, <1>4, <1>7, ProceedActors
<1>9. CASE cached[p] = NoObject
    BY <1>2, <1>3, <1>4, <1>5, <1>7, <1>8, <1>9, NewData
<1>10. CASE cached[p] # NoObject
    <2>1. mem' \in [Objects -> Seq(Message)]
        <3>1. mem \in [Objects -> Seq(Message)]
            BY DEF DataOK
        <3> QED
            BY <1>3, <1>5, <1>6, <1>10, <3>1
    <2> QED
        BY <1>4, <1>5, <1>8, <1>10, <2>1 DEF DataOK, history
<1> QED
    BY <1>9, <1>10

LEMMA TurnTypes ==
    ASSUME NEW a \in Actors, DataOK, ActorsOK, TurnStep(a)
    PROVE  DataOK' /\ ActorsOK'
<1> USE DEF Working, Loc, Idling
<1>1. CASE AppendUser(a)
    <2>1. pc[a] \in Working /\ mode' = mode /\ "read" \in Working
        BY <1>1 DEF AppendUser
    <2>2. DataOK'
        BY <1>1, <2>1, Holds, AppendData DEF AppendUser
    <2>3. ActorsOK'
        <3>1. Goto(a, "read") \/ Done(a)
            BY <1>1 DEF AppendUser
        <3> HIDE DEF Working
        <3> QED
            BY <2>1, <3>1, GotoActors, DoneActors
    <2> QED
        BY <2>2, <2>3
<1>2. CASE Read(a)
    <2>1. pc[a] \in Working
        BY <1>2 DEF Read
    <2>2. DataOK'
        BY <1>2, SameData DEF Read
    <2> DEFINE loc == IF op[a] = "retry" THEN "snapshot" ELSE "compact"
    <2>3. loc \in Working
        OBVIOUS
    <2>4. obj[a] \in Objects
        BY <2>1, Holds
    <2>5. read' \in [Actors -> Seq(Message)]
        BY <1>2, <2>4 DEF Read, DataOK, ActorsOK
    <2>6. pc' = [pc EXCEPT ![a] = loc] /\ UNCHANGED <<mode, op, pod, obj, got>>
        BY <1>2 DEF Read
    <2> HIDE DEF loc, Working
    <2>7. ActorsOK'
        BY <2>1, <2>3, <2>5, <2>6, StepActors
    <2> QED
        BY <2>2, <2>7
<1>3. CASE Compact(a) \/ NoCompaction(a)
    <2>1. pc[a] \in Working /\ mode' = mode /\ "reply" \in Working
        BY <1>3 DEF Compact, NoCompaction
    <2>2. obj[a] \in Objects /\ read[a] \in Seq(Message)
        BY <2>1, Holds DEF ActorsOK
    <2>3. DataOK'
        <3>1. CASE Compact(a)
            BY <2>2, <3>1, ReplaceData DEF Compact
        <3>2. CASE NoCompaction(a)
            BY <3>2, SameData DEF NoCompaction
        <3> QED
            BY <1>3, <3>1, <3>2
    <2>4. Goto(a, "reply") \/ Done(a)
        BY <1>3 DEF Compact, NoCompaction
    <2> HIDE DEF Working
    <2>5. ActorsOK'
        BY <2>1, <2>4, GotoActors, DoneActors
    <2> QED
        BY <2>3, <2>5
<1>4. CASE Reply(a)
    <2>1. pc[a] \in Working /\ mode' = mode
        BY <1>4 DEF Reply
    <2>2. DataOK'
        BY <1>4, <2>1, Holds, AppendData DEF Reply
    <2> QED
        BY <1>4, <2>1, <2>2, DoneActors DEF Reply
<1>5. CASE ProviderFails(a)
    BY <1>5, SameData, DoneActors DEF ProviderFails
<1> QED
    BY <1>1, <1>2, <1>3, <1>4, <1>5 DEF TurnStep

LEMMA CommandTypes ==
    ASSUME NEW a \in Actors, DataOK, ActorsOK, CommandStep(a)
    PROVE  DataOK' /\ ActorsOK'
<1> USE DEF Working, Loc, Idling
<1>1. CASE NothingToRetry(a)
    BY <1>1, SameData, DoneActors DEF NothingToRetry
<1>2. CASE Snapshot(a)
    <2>1. pc[a] \in Working /\ mode' = mode /\ "trim" \in Working
        BY <1>2 DEF Snapshot
    <2>2. obj[a] \in Objects
        BY <2>1, Holds
    <2>3. snap' \in [Objects -> Seq(Message) \cup {NoSnapshot}]
        BY <1>2, <2>2 DEF Snapshot, DataOK
    <2>4. DataOK'
        BY <1>2, <2>3 DEF Snapshot, DataOK, history
    <2>5. Goto(a, "trim")
        BY <1>2 DEF Snapshot
    <2> HIDE DEF Working
    <2> QED
        BY <2>1, <2>4, <2>5, GotoActors
<1>3. CASE RetryTrims(a)
    <2>1. obj[a] \in Objects /\ read[a] \in Seq(Message)
        BY <1>3, Holds DEF RetryTrims, ActorsOK
    <2>2. RetryCut(read[a]) \in Seq(Message)
        BY <2>1, CutIsList
    <2> QED
        BY <1>3, <2>1, <2>2, ReplaceData, DoneActors DEF RetryTrims
<1>4. CASE UndoByHand(a)
    <2>1. pc[a] \in Working /\ "trim" \in Working
        BY <1>4 DEF UndoByHand
    <2>2. DataOK'
        BY <1>4, SameData DEF UndoByHand
    <2>3. obj[a] \in Objects
        BY <2>1, Holds
    <2>4. read' \in [Actors -> Seq(Message)]
        BY <1>4, <2>3 DEF UndoByHand, DataOK, ActorsOK
    <2>5. pc' = [pc EXCEPT ![a] = "trim"] /\ UNCHANGED <<mode, op, pod, obj, got>>
        BY <1>4 DEF UndoByHand
    <2> HIDE DEF Working
    <2> QED
        BY <2>1, <2>2, <2>4, <2>5, StepActors
<1>5. CASE UndoTrims(a)
    <2>1. obj[a] \in Objects /\ read[a] \in Seq(Message)
        BY <1>5, Holds DEF UndoTrims, ActorsOK
    <2>2. UndoCut(read[a]) \in Seq(Message)
        BY <2>1, CutIsList DEF UndoCut
    <2>3. DataOK'
        <3>1. CASE Len(read[a]) < 2
            BY <1>5, <3>1, SameData DEF UndoTrims, objects
        <3>2. CASE ~(Len(read[a]) < 2)
            BY <1>5, <2>1, <2>2, <3>2, ReplaceData DEF UndoTrims
        <3> QED
            BY <3>1, <3>2
    <2> QED
        BY <1>5, <2>3, DoneActors DEF UndoTrims
<1>6. CASE Undo(a)
    <2>1. obj[a] \in Objects
        BY <1>6, Holds DEF Undo
    <2>2. snap[obj[a]] \in Seq(Message)
        BY <1>6, <2>1 DEF Undo, DataOK
    <2>3. mem' \in [Objects -> Seq(Message)]
        BY <1>6, <2>1, <2>2 DEF Undo, DataOK
    <2>4. snap' \in [Objects -> Seq(Message) \cup {NoSnapshot}]
        BY <1>6, <2>1 DEF Undo, DataOK
    <2>5. \/ exists' = TRUE /\ durable' = snap[obj[a]]
          \/ UNCHANGED <<exists, durable>>
        BY <1>6 DEF Undo, Write, history
    <2>6. UNCHANGED <<mode, cached, count>>
        BY <1>6 DEF Undo
    <2>7. DataOK'
        BY <2>2, <2>3, <2>4, <2>5, <2>6 DEF DataOK
    <2> QED
        BY <1>6, <2>7, DoneActors DEF Undo
<1>7. CASE Clear(a)
    <2>1. obj[a] \in Objects
        BY <1>7, Holds DEF Clear
    <2>2. mem' \in [Objects -> Seq(Message)]
        <3>1. <<>> \in Seq(Message)
            OBVIOUS
        <3> QED
            BY <1>7, <3>1 DEF Clear, DataOK
    <2> QED
        BY <1>7, <2>2, RemoveData, DoneActors DEF Clear
<1>8. CASE EndDelete(a)
    <2>1. mem' \in [Objects -> Seq(Message)]
        BY <1>8 DEF EndDelete, objects, DataOK
    <2> QED
        BY <1>8, <2>1, RemoveData, DoneActors DEF EndDelete, objects
<1> QED
    BY <1>1, <1>2, <1>3, <1>4, <1>5, <1>6, <1>7, <1>8 DEF CommandStep

LEMMA DeleteTypes ==
    ASSUME NEW a \in Actors, NEW p \in Pods, DataOK, ActorsOK, BeginDelete(a, p)
    PROVE  DataOK' /\ ActorsOK'
<1>1. /\ pc[a] = "idle"
      /\ cached' = [cached EXCEPT ![p] = NoObject]
      /\ op' = [op EXCEPT ![a] = "delete"]
      /\ pod' = [pod EXCEPT ![a] = p]
      /\ pc' = [pc EXCEPT ![a] = "remove"]
      /\ UNCHANGED <<mode, history, mem, snap, obj, got, read, count>>
    BY DEF BeginDelete, MayBegin
<1>2. DataOK'
    BY <1>1 DEF DataOK, history
<1>3. /\ pc' \in [Actors -> Loc]
      /\ op' \in [Actors -> Ops]
      /\ pod' \in [Actors -> Pods \cup {NoPod}]
    BY <1>1 DEF ActorsOK, Loc, Ops
<1>4. ASSUME NEW b \in Actors PROVE ActorOK(b)'
    <2>1. ActorOK(b)
        BY DEF ActorsOK
    <2>2. CASE b = a
        <3>1. pc'[b] = "remove" /\ pod'[b] = p /\ obj'[b] = obj[b] /\ pc[b] = "idle"
            BY <1>1, <2>2 DEF ActorsOK
        <3> QED
            BY <2>1, <3>1 DEF ActorOK, Idling
    <2>3. CASE b # a
        <3>1. /\ pc'[b] = pc[b] /\ op'[b] = op[b] /\ pod'[b] = pod[b]
              /\ obj'[b] = obj[b] /\ mode' = mode
            BY <1>1, <2>3 DEF ActorsOK
        <3> QED
            BY <2>1, <3>1 DEF ActorOK, Idling
    <2> QED
        BY <2>2, <2>3
<1> QED
    BY <1>1, <1>2, <1>3, <1>4 DEF ActorsOK

LEMMA CrashTypes ==
    ASSUME NEW p \in Pods, DataOK, ActorsOK, Crash(p)
    PROVE  DataOK' /\ ActorsOK'
<1>1. DataOK'
    BY DEF DataOK, Crash, history
<1>2. \A b \in Actors :
        /\ pod[b] = p => pc'[b] = "idle" /\ obj'[b] = NoObject
        /\ pod[b] # p =>
            /\ pc'[b] = pc[b] /\ op'[b] = op[b] /\ pod'[b] = pod[b]
            /\ obj'[b] = obj[b]
    BY DEF Crash
<1>3. pc' \in [Actors -> Loc] /\ op' \in [Actors -> Ops]
    BY DEF Crash, ActorsOK, Loc, Ops
<1>4. /\ pod' \in [Actors -> Pods \cup {NoPod}]
      /\ obj' \in [Actors -> Objects \cup {NoObject}]
      /\ got' \in [Actors -> Seq(Message) \cup {NoRow}]
    BY DEF Crash, ActorsOK
<1>5. read' \in [Actors -> Seq(Message)]
    <2>1. <<>> \in Seq(Message)
        OBVIOUS
    <2> QED
        BY <2>1 DEF Crash, ActorsOK
<1>6. ASSUME NEW b \in Actors PROVE ActorOK(b)'
    <2>1. ActorOK(b) /\ mode' = mode
        BY DEF ActorsOK, Crash
    <2> QED
        BY <1>2, <2>1 DEF ActorOK, Idling
<1> QED
    BY <1>1, <1>3, <1>4, <1>5, <1>6 DEF ActorsOK

LEMMA InitTypes == Init => DataOK /\ ActorsOK
<1> SUFFICES ASSUME Init PROVE DataOK /\ ActorsOK
    OBVIOUS
<1>1. <<>> \in Seq(Message)
    OBVIOUS
<1>2. DataOK
    <2>1. mode \in Modes /\ exists \in BOOLEAN /\ durable \in Seq(Message)
        BY <1>1 DEF Init
    <2>2. ~exists => durable = <<>>
        BY DEF Init
    <2>3. /\ cached \in [Pods -> Objects \cup {NoObject}]
          /\ mem \in [Objects -> Seq(Message)]
          /\ snap \in [Objects -> Seq(Message) \cup {NoSnapshot}]
        BY <1>1 DEF Init
    <2>4. count \in 0 .. MaxMessages
        BY SessionAssumption DEF Init
    <2> QED
        BY <2>1, <2>2, <2>3, <2>4 DEF DataOK
<1>3. /\ pc \in [Actors -> Loc]
      /\ op \in [Actors -> Ops]
      /\ pod \in [Actors -> Pods \cup {NoPod}]
      /\ obj \in [Actors -> Objects \cup {NoObject}]
      /\ got \in [Actors -> Seq(Message) \cup {NoRow}]
      /\ read \in [Actors -> Seq(Message)]
    BY <1>1 DEF Init, Loc, Ops
<1>4. \A a \in Actors : ActorOK(a)
    BY DEF Init, ActorOK, Idling
<1> QED
    BY <1>2, <1>3, <1>4 DEF ActorsOK

LEMMA TypesKept ==
    TypeInv /\ [Next]_vars => TypeInv'
<1>0. (TypeInv <=> DataOK /\ ActorsOK)'
    BY TypeParts, PTL
<1> SUFFICES ASSUME DataOK, ActorsOK, [Next]_vars PROVE DataOK' /\ ActorsOK'
    BY <1>0, TypeParts
<1>1. ASSUME NEW a \in Actors, NEW p \in Pods, NEW k \in Ops \ {"delete"},
             GetFile(a, p, k) \/ GetRow(a, p, k)
      PROVE  DataOK' /\ ActorsOK'
    BY <1>1, GetFileTypes, GetRowTypes
<1>2. ASSUME NEW a \in Actors, NEW p \in Pods, BeginDelete(a, p)
      PROVE  DataOK' /\ ActorsOK'
    BY <1>2, DeleteTypes
<1>3. ASSUME NEW a \in Actors, Reload(a) \/ TurnStep(a) \/ CommandStep(a)
      PROVE  DataOK' /\ ActorsOK'
    BY <1>3, ReloadTypes, TurnTypes, CommandTypes
<1>4. ASSUME NEW p \in Pods, Crash(p)
      PROVE  DataOK' /\ ActorsOK'
    BY <1>4, CrashTypes
<1>5. CASE UNCHANGED vars
    BY <1>5 DEF vars, DataOK, ActorsOK, ActorOK
<1> QED
    BY <1>1, <1>2, <1>3, <1>4, <1>5 DEF Next

\* The variables keep their types, an actor holds a session object exactly while
\* it works on it, and a history that is not there has no messages, whatever
\* operations overlap and whatever is cleared: Manager.Get always ends with an
\* object, and /retry's cut is a list.
THEOREM TypeCorrect == Spec => []TypeOK
<1>1. Init => TypeInv
    BY InitTypes, TypeParts
<1>2. TypeInv => TypeOK
    BY DEF TypeInv
<1> QED
    BY <1>1, <1>2, TypesKept, PTL DEF Spec

--------------------------------------------------------------------------------
(***************************************************************************)
(* One operation after the other: the invariant actor by actor.            *)
(***************************************************************************)
Rewriting == {"compact", "snapshot", "trim"}

ActorInv(a) ==
    /\ pc[a] \in Working => cached[pod[a]] = obj[a]
    /\ pc[a] \in Working /\ exists => mem[obj[a]] = durable
    /\ pc[a] \in Rewriting /\ exists => read[a] = durable
    /\ pc[a] = "reload" => got[a] = IF exists THEN durable ELSE NoRow
    /\ mode = "file" /\ pc[a] = "remove" => \A p \in Pods : cached[p] = NoObject

FileInv ==
    mode = "file" =>
        /\ \A p, q \in Pods : cached[p] # NoObject /\ cached[q] # NoObject => p = q
        /\ \A p \in Pods : cached[p] # NoObject => mem[cached[p]] = durable

SerialParts == OneAtATime /\ FileInv /\ \A a \in Actors : ActorInv(a)

LEMMA SerialIs == SerialInv <=> SerialParts
BY DEF SerialInv, SerialParts, OneAtATime, HoldsCached, OnePod, RowCopied, InStep,
       RewriteFromCurrent, FileMirrorsCache, ActorInv, FileInv, Rewriting

\* A step after which nobody else is at work.
LEMMA OneAtWork ==
    ASSUME NEW a \in Actors, FileInv', ActorInv(a)',
           \A b \in Actors \ {a} : pc'[b] = "idle"
    PROVE  SerialParts'
<1>1. OneAtATime'
    BY DEF OneAtATime
<1>2. ASSUME NEW b \in Actors PROVE ActorInv(b)'
    <2>1. CASE b = a
        BY <2>1
    <2>2. CASE b # a
        <3>1. pc'[b] = "idle"
            BY <2>2
        <3> QED
            BY <3>1 DEF ActorInv, Working, Idling, Rewriting
    <2> QED
        BY <2>1, <2>2
<1> QED
    BY <1>1, <1>2 DEF SerialParts

\* In the middle of an operation the other actors are idle.
LEMMA OthersIdle ==
    ASSUME NEW a \in Actors, SerialParts, ActorsOK, pc[a] # "idle",
           \/ Done(a)
           \/ \E loc : pc' = [pc EXCEPT ![a] = loc]
    PROVE  \A b \in Actors \ {a} : pc'[b] = "idle"
<1>1. \A b \in Actors \ {a} : pc[b] = "idle"
    BY DEF SerialParts, OneAtATime
<1>2. \A b \in Actors \ {a} : pc'[b] = pc[b]
    BY DEF Done, ActorsOK
<1> QED
    BY <1>1, <1>2

\* An actor whose operation is over has nothing left to keep.
LEMMA DoneInv ==
    ASSUME NEW a \in Actors, ActorsOK, Done(a)
    PROVE  ActorInv(a)'
<1>1. pc'[a] = "idle"
    BY DEF ActorsOK, Done
<1> QED
    BY <1>1 DEF ActorInv, Working, Idling, Rewriting

\* A step with the session object: what it leaves in the object is what it
\* leaves behind in the file.
LEMMA WorkStep ==
    ASSUME NEW a \in Actors, SerialParts, DataOK, ActorsOK, pc[a] \in Working,
           UNCHANGED <<mode, cached>>,
           mode = "file" => mem'[obj[a]] = durable',
           \/ Done(a)
           \/ \E loc \in Working :
                /\ pc' = [pc EXCEPT ![a] = loc]
                /\ UNCHANGED <<pod, obj>>
                /\ exists' => mem'[obj[a]] = durable'
                /\ loc \in Rewriting /\ exists' => read'[a] = durable'
    PROVE  SerialParts'
<1>1. pc[a] \notin Idling /\ pc[a] # "idle"
    BY DEF Working, Idling
<1>2. pod[a] \in Pods /\ obj[a] \in Objects /\ cached[pod[a]] = obj[a]
    BY Holds DEF SerialParts, ActorInv
<1>3. obj[a] # NoObject
    BY <1>2, SessionAssumption
<1>4. FileInv'
    <2> SUFFICES ASSUME mode = "file" PROVE FileInv'
        BY DEF FileInv
    <2>1. \A p, q \in Pods : cached[p] # NoObject /\ cached[q] # NoObject => p = q
        BY DEF SerialParts, FileInv
    <2>2. \A p \in Pods : cached[p] # NoObject => cached[p] = obj[a]
        BY <1>2, <1>3, <2>1
    <2>3. mem'[obj[a]] = durable'
        OBVIOUS
    <2> QED
        BY <2>1, <2>2, <2>3 DEF FileInv
<1>5. \A b \in Actors \ {a} : pc'[b] = "idle"
    BY <1>1, OthersIdle
<1>6. CASE Done(a)
    BY <1>4, <1>5, <1>6, DoneInv, OneAtWork
<1>7. ASSUME NEW loc \in Working,
             pc' = [pc EXCEPT ![a] = loc],
             UNCHANGED <<pod, obj>>,
             exists' => mem'[obj[a]] = durable',
             loc \in Rewriting /\ exists' => read'[a] = durable'
      PROVE  SerialParts'
    <2>1. pc'[a] = loc
        BY <1>7 DEF ActorsOK
    <2>2. loc # "reload" /\ loc # "remove"
        BY DEF Working, Idling
    <2>3. ActorInv(a)'
        BY <1>2, <1>7, <2>1, <2>2 DEF ActorInv
    <2> QED
        BY <1>4, <1>5, <2>3, OneAtWork
<1> QED
    BY <1>6, <1>7

\* What the object has while it is worked on.
LEMMA ObjectHas ==
    ASSUME NEW a \in Actors, SerialParts, ActorsOK, pc[a] \in Working
    PROVE  /\ exists => mem[obj[a]] = durable
           /\ mode = "file" => mem[obj[a]] = durable
<1>1. pod[a] \in Pods /\ obj[a] \in Objects /\ cached[pod[a]] = obj[a]
    BY Holds DEF SerialParts, ActorInv
<1>2. obj[a] # NoObject
    BY <1>1, SessionAssumption
<1> QED
    BY <1>1, <1>2 DEF SerialParts, ActorInv, FileInv

\* Without Overlap a request begins when nobody is at work, but for a poll.
LEMMA BeginsAlone ==
    ASSUME NEW a \in Actors, NEW p \in Pods, NEW k, Serial, MayBegin(a, p, k),
           ~(mode = "file" /\ k = "poll")
    PROVE  \A b \in Actors : pc[b] = "idle"
BY DEF MayBegin, Serial

--------------------------------------------------------------------------------
(***************************************************************************)
(* One operation after the other: the steps.                               *)
(***************************************************************************)

\* The cache after Get in file mode.
LEMMA GetFileCache ==
    ASSUME NEW a \in Actors, NEW p \in Pods, NEW k \in Ops \ {"delete"},
           DataOK, ActorsOK, SerialParts, GetFile(a, p, k)
    PROVE  /\ FileInv'
           /\ cached'[p] = Target(p)
           /\ mem'[Target(p)] = durable
           /\ \A q \in Pods \ {p} : cached'[q] = cached[q]
           /\ \A o \in Objects : (cached[p] = NoObject => o # Fresh) => mem'[o] = mem[o]
           /\ cached[p] # NoObject => cached' = cached /\ mem' = mem
<1>1. mode = "file" /\ mode' = "file" /\ durable' = durable
    BY DEF GetFile, history
<1>2. pc[a] \in Idling /\ \A q \in Pods \ {p} : cached[q] = NoObject
    BY <1>1 DEF GetFile, MayBegin, Idling
<1>3. Target(p) \in Objects
    BY <1>2, TargetIs
<1>4. CASE cached[p] = NoObject
    <2>1. /\ cached' = [cached EXCEPT ![p] = Fresh]
          /\ mem' = [mem EXCEPT ![Fresh] = durable]
          /\ Target(p) = Fresh
        BY <1>4 DEF GetFile, NewSession, Target
    <2>2. /\ cached'[p] = Target(p)
          /\ \A q \in Pods \ {p} : cached'[q] = cached[q]
        BY <2>1 DEF DataOK
    <2>3. /\ mem'[Target(p)] = durable
          /\ \A o \in Objects : o # Fresh => mem'[o] = mem[o]
        BY <1>3, <2>1 DEF DataOK
    <2>4. FileInv'
        BY <1>1, <1>2, <2>2, <2>3 DEF FileInv
    <2> QED
        BY <1>4, <2>2, <2>3, <2>4
<1>5. CASE cached[p] # NoObject
    <2>1. cached' = cached /\ mem' = mem /\ Target(p) = cached[p]
        BY <1>5 DEF GetFile, objects, Target
    <2>2. mem[cached[p]] = durable
        BY <1>1, <1>5 DEF SerialParts, FileInv
    <2>3. FileInv'
        BY <1>1, <2>1 DEF SerialParts, FileInv
    <2> QED
        BY <1>5, <2>1, <2>2, <2>3
<1> QED
    BY <1>4, <1>5

LEMMA GetFileSerial ==
    ASSUME NEW a \in Actors, NEW p \in Pods, NEW k \in Ops \ {"delete"},
           Serial, DataOK, ActorsOK, SerialParts, GetFile(a, p, k)
    PROVE  SerialParts'
<1>1. /\ mode = "file" /\ mode' = "file" /\ MayBegin(a, p, k) /\ Proceed(a, p, k)
      /\ durable' = durable /\ exists' = exists
    BY DEF GetFile, history
<1>2. pc[a] = "idle" /\ pc[a] \in Idling
    BY <1>1 DEF MayBegin, Idling
<1>3. /\ FileInv'
      /\ cached'[p] = Target(p)
      /\ mem'[Target(p)] = durable
      /\ \A q \in Pods \ {p} : cached'[q] = cached[q]
      /\ \A o \in Objects : (cached[p] = NoObject => o # Fresh) => mem'[o] = mem[o]
      /\ cached[p] # NoObject => cached' = cached /\ mem' = mem
    BY GetFileCache
<1>4. CASE k = "poll"
    <2>1. Done(a)
        BY <1>1, <1>4 DEF Proceed
    <2>2. \A b \in Actors : pc'[b] = pc[b]
        BY <1>2, <2>1 DEF Done, ActorsOK
    <2>3. OneAtATime'
        BY <2>2 DEF SerialParts, OneAtATime
    <2>4. ASSUME NEW b \in Actors PROVE ActorInv(b)'
        <3>1. CASE b = a
            BY <2>1, <3>1, DoneInv
        <3>2. CASE b # a
            <4>1. pod'[b] = pod[b] /\ obj'[b] = obj[b] /\ read'[b] = read[b]
                BY <2>1, <3>2 DEF Done, ActorsOK
            <4>2. ActorInv(b) /\ ActorOK(b)
                BY DEF SerialParts, ActorsOK
            <4>3. pc[b] # "reload" /\ pc[b] # "remove"
                <5>1. pc[b] # "reload"
                    BY <1>1, <4>2 DEF ActorOK
                <5>2. pc[b] # "remove"
                    BY <1>1 DEF MayBegin, Serial
                <5> QED
                    BY <5>1, <5>2
            <4>4. ASSUME pc[b] \in Working
                  PROVE  /\ cached'[pod[b]] = obj[b]
                         /\ mem'[obj[b]] = mem[obj[b]]
                <5>1. /\ obj[b] \in Objects /\ pod[b] \in Pods
                      /\ cached[pod[b]] = obj[b]
                    BY <4>2, <4>4, Holds DEF ActorInv
                <5>2. obj[b] # NoObject
                    BY <5>1, SessionAssumption
                <5>3. CASE cached[p] = NoObject
                    <6>1. \A c \in Actors : obj[c] # Fresh
                        BY <1>2, <5>3, TargetIs
                    <6>2. pod[b] # p
                        BY <5>1, <5>2, <5>3
                    <6> QED
                        BY <1>3, <5>1, <6>1, <6>2
                <5>4. CASE cached[p] # NoObject
                    BY <1>3, <5>1, <5>4
                <5> QED
                    BY <5>3, <5>4
            <4>5. pc[b] \in Rewriting => pc[b] \in Working
                BY DEF Rewriting, Working, Loc, Idling
            <4> QED
                BY <1>1, <2>2, <4>1, <4>2, <4>3, <4>4, <4>5 DEF ActorInv
        <3> QED
            BY <3>1, <3>2
    <2> QED
        BY <1>3, <2>3, <2>4 DEF SerialParts
<1>5. CASE k # "poll"
    <2>1. \A b \in Actors : pc[b] = "idle"
        BY <1>1, <1>5, BeginsAlone
    <2>2. /\ pc' = [pc EXCEPT ![a] = First(k)]
          /\ pod' = [pod EXCEPT ![a] = p]
          /\ obj' = [obj EXCEPT ![a] = Target(p)]
        BY <1>1, <1>5 DEF Proceed
    <2>3. First(k) \in {"append", "read", "clear", "undo"}
        <3>1. k \in {"turn", "inject", "clear", "retry", "undo", "compact"}
            BY <1>5 DEF Ops
        <3> QED
            BY <3>1 DEF First
    <2>4. /\ pc'[a] = First(k) /\ pod'[a] = p /\ obj'[a] = Target(p)
          /\ \A b \in Actors \ {a} : pc'[b] = "idle"
        BY <2>1, <2>2 DEF ActorsOK
    <2>5. /\ pc'[a] \notin Rewriting /\ pc'[a] # "reload" /\ pc'[a] # "remove"
        BY <2>3, <2>4 DEF Rewriting
    <2>6. ActorInv(a)'
        BY <1>1, <1>3, <2>4, <2>5 DEF ActorInv
    <2> QED
        BY <1>3, <2>4, <2>6, OneAtWork
<1> QED
    BY <1>4, <1>5

LEMMA GetRowSerial ==
    ASSUME NEW a \in Actors, NEW p \in Pods, NEW k \in Ops \ {"delete"},
           Serial, DataOK, ActorsOK, SerialParts, GetRow(a, p, k)
    PROVE  SerialParts'
<1>1. /\ mode = "store" /\ mode' = "store" /\ MayBegin(a, p, k)
      /\ got' = [got EXCEPT ![a] = IF exists THEN durable ELSE NoRow]
      /\ pc' = [pc EXCEPT ![a] = "reload"]
      /\ durable' = durable /\ exists' = exists
    BY DEF GetRow, history
<1>2. \A b \in Actors : pc[b] = "idle"
    BY <1>1, BeginsAlone
<1>3. /\ pc'[a] = "reload" /\ got'[a] = IF exists THEN durable ELSE NoRow
      /\ \A b \in Actors \ {a} : pc'[b] = "idle"
    BY <1>1, <1>2 DEF ActorsOK
<1>4. FileInv'
    BY <1>1 DEF FileInv
<1>5. ActorInv(a)'
    BY <1>1, <1>3 DEF ActorInv, Working, Idling, Rewriting
<1> QED
    BY <1>3, <1>4, <1>5, OneAtWork

LEMMA ReloadSerial ==
    ASSUME NEW a \in Actors, Serial, DataOK, ActorsOK, SerialParts, Reload(a)
    PROVE  SerialParts'
<1> DEFINE p == pod[a]
<1>1. /\ pc[a] = "reload" /\ pc[a] # "idle" /\ pc[a] \in Idling
      /\ Proceed(a, p, op[a])
      /\ UNCHANGED <<mode, exists, durable>>
    BY DEF Reload, Idling, history
<1>2. p \in Pods /\ mode = "store" /\ op[a] \in Ops \ {"delete"}
    <2>1. ActorOK(a) /\ op[a] \in Ops
        BY DEF ActorsOK
    <2> QED
        BY <1>1, <2>1 DEF ActorOK
<1>3. got[a] = IF exists THEN durable ELSE NoRow
    BY <1>1 DEF SerialParts, ActorInv
<1>4. exists => got[a] = durable /\ got[a] # NoRow
    BY <1>3, NoRowAssumption DEF DataOK
<1>5. Target(p) \in Objects
    BY <1>1, <1>2, TargetIs
<1>6. cached'[p] = Target(p) /\ (exists => mem'[Target(p)] = durable)
    <2>1. CASE cached[p] = NoObject
        <3>1. /\ cached' = [cached EXCEPT ![p] = Fresh]
              /\ exists => mem' = [mem EXCEPT ![Fresh] = got[a]]
              /\ Target(p) = Fresh
            BY <1>4, <2>1 DEF Reload, NewSession, Target
        <3> QED
            BY <1>2, <1>4, <1>5, <3>1 DEF DataOK
    <2>2. CASE cached[p] # NoObject
        <3>1. /\ cached' = cached /\ Target(p) = cached[p]
              /\ exists => mem' = [mem EXCEPT ![cached[p]] = got[a]]
            BY <1>4, <2>2 DEF Reload, Target
        <3> QED
            BY <1>4, <1>5, <3>1 DEF DataOK
    <2> QED
        BY <2>1, <2>2
<1>7. FileInv'
    BY <1>1, <1>2 DEF FileInv
<1> HIDE DEF p
<1>8. CASE op[a] = "poll"
    <2>1. Done(a)
        BY <1>1, <1>8 DEF Proceed
    <2> QED
        BY <1>1, <1>7, <2>1, OthersIdle, DoneInv, OneAtWork
<1>9. CASE op[a] # "poll"
    <2>1. /\ pc' = [pc EXCEPT ![a] = First(op[a])]
          /\ pod' = [pod EXCEPT ![a] = p]
          /\ obj' = [obj EXCEPT ![a] = Target(p)]
        BY <1>1, <1>9 DEF Proceed
    <2>2. First(op[a]) \in {"append", "read", "clear", "undo"}
        <3>1. op[a] \in {"turn", "inject", "clear", "retry", "undo", "compact"}
            BY <1>2, <1>9 DEF Ops
        <3> QED
            BY <3>1 DEF First
    <2>3. pc'[a] = First(op[a]) /\ pod'[a] = p /\ obj'[a] = Target(p)
        BY <2>1 DEF ActorsOK
    <2>4. pc'[a] \notin Rewriting /\ pc'[a] # "reload" /\ pc'[a] # "remove"
        BY <2>2, <2>3 DEF Rewriting
    <2>5. ActorInv(a)'
        BY <1>1, <1>6, <2>3, <2>4 DEF ActorInv
    <2>6. \A b \in Actors \ {a} : pc'[b] = "idle"
        BY <1>1, <2>1, OthersIdle
    <2> QED
        BY <1>7, <2>5, <2>6, OneAtWork
<1> QED
    BY <1>8, <1>9

\* An append leaves the same list in the object and behind it.
LEMMA AppendAgrees ==
    ASSUME NEW a \in Actors, NEW role \in {"user", "assistant"},
           DataOK, ActorsOK, SerialParts, pc[a] \in Working,
           AppendMessage(a, role), UNCHANGED <<mode, cached, snap>>
    PROVE  /\ mem'[obj[a]] = durable'
           /\ exists => \E m \in Message : durable' = Append(durable, m)
<1>1. obj[a] \in Objects
    BY Holds
<1>2. PICK m \in Message :
        /\ mem' = [mem EXCEPT ![obj[a]] = Append(mem[obj[a]], m)]
        /\ durable' = Append(IF mode = "store" THEN mem[obj[a]] ELSE durable, m)
    BY <1>1, AppendData
<1>3. /\ exists => mem[obj[a]] = durable
      /\ mode = "file" => mem[obj[a]] = durable
    BY ObjectHas
<1>4. mode = "file" \/ mode = "store"
    BY SessionAssumption DEF DataOK
<1>5. mem'[obj[a]] = Append(mem[obj[a]], m)
    BY <1>1, <1>2 DEF DataOK
<1> QED
    BY <1>2, <1>3, <1>4, <1>5

LEMMA TurnSerial ==
    ASSUME NEW a \in Actors, DataOK, ActorsOK, SerialParts, TurnStep(a)
    PROVE  SerialParts'
<1>1. CASE AppendUser(a)
    <2>1. pc[a] \in Working /\ "read" \in Working /\ "read" \notin Rewriting
        BY <1>1 DEF AppendUser, Working, Loc, Idling, Rewriting
    <2>2. mem'[obj[a]] = durable'
        BY <1>1, <2>1, AppendAgrees DEF AppendUser
    <2>3. UNCHANGED <<mode, cached>> /\ (Goto(a, "read") \/ Done(a))
        BY <1>1 DEF AppendUser
    <2> QED
        BY <2>1, <2>2, <2>3, WorkStep DEF Goto
<1>2. CASE Read(a)
    <2>1. pc[a] \in Working
        BY <1>2 DEF Read, Working, Loc, Idling
    <2>2. /\ exists => mem[obj[a]] = durable
          /\ mode = "file" => mem[obj[a]] = durable
        BY <2>1, ObjectHas
    <2> DEFINE loc == IF op[a] = "retry" THEN "snapshot" ELSE "compact"
    <2>3. loc \in Working
        BY DEF Working, Loc, Idling
    <2>4. /\ pc' = [pc EXCEPT ![a] = loc]
          /\ UNCHANGED <<mode, cached, mem, exists, durable, pod, obj>>
          /\ read' = [read EXCEPT ![a] = mem[obj[a]]]
        BY <1>2 DEF Read, history, objects
    <2>5. read'[a] = mem[obj[a]]
        BY <2>4 DEF ActorsOK
    <2> HIDE DEF loc
    <2> QED
        BY <2>1, <2>2, <2>3, <2>4, <2>5, WorkStep
<1>3. CASE Compact(a)
    <2>1. pc[a] \in Working /\ "reply" \in Working /\ "reply" \notin Rewriting
        BY <1>3 DEF Compact, Working, Loc, Idling, Rewriting
    <2>2. obj[a] \in Objects
        BY <2>1, Holds
    <2>3. mem'[obj[a]] = durable'
        BY <1>3, <2>2 DEF Compact, ReplaceMessages, Write, DataOK
    <2>4. UNCHANGED <<mode, cached>> /\ (Goto(a, "reply") \/ Done(a))
        BY <1>3 DEF Compact
    <2> QED
        BY <2>1, <2>3, <2>4, WorkStep DEF Goto
<1>4. CASE NoCompaction(a)
    <2>1. pc[a] \in Working /\ "reply" \in Working /\ "reply" \notin Rewriting
        BY <1>4 DEF NoCompaction, Working, Loc, Idling, Rewriting
    <2>2. /\ exists => mem[obj[a]] = durable
          /\ mode = "file" => mem[obj[a]] = durable
        BY <2>1, ObjectHas
    <2>3. /\ UNCHANGED <<mode, cached, mem, exists, durable>>
          /\ Goto(a, "reply") \/ Done(a)
        BY <1>4 DEF NoCompaction, history, objects
    <2> QED
        BY <2>1, <2>2, <2>3, WorkStep DEF Goto
<1>5. CASE Reply(a)
    <2>1. pc[a] \in Working
        BY <1>5 DEF Reply, Working, Loc, Idling
    <2>2. mem'[obj[a]] = durable'
        BY <1>5, <2>1, AppendAgrees DEF Reply
    <2> QED
        BY <1>5, <2>1, <2>2, WorkStep DEF Reply
<1>6. CASE ProviderFails(a)
    <2>1. pc[a] \in Working
        BY <1>6 DEF ProviderFails, Working, Loc, Idling
    <2>2. mode = "file" => mem[obj[a]] = durable
        BY <2>1, ObjectHas
    <2>3. UNCHANGED <<mode, cached, mem, durable>> /\ Done(a)
        BY <1>6 DEF ProviderFails, history, objects
    <2> QED
        BY <2>1, <2>2, <2>3, WorkStep
<1> QED
    BY <1>1, <1>2, <1>3, <1>4, <1>5, <1>6 DEF TurnStep

LEMMA CommandSerial ==
    ASSUME NEW a \in Actors, DataOK, ActorsOK, SerialParts, CommandStep(a)
    PROVE  SerialParts'
<1>1. CASE NothingToRetry(a)
    <2>1. pc[a] \in Working
        BY <1>1 DEF NothingToRetry, Working, Loc, Idling
    <2>2. mode = "file" => mem[obj[a]] = durable
        BY <2>1, ObjectHas
    <2>3. UNCHANGED <<mode, cached, mem, durable>> /\ Done(a)
        BY <1>1 DEF NothingToRetry, history, objects
    <2> QED
        BY <2>1, <2>2, <2>3, WorkStep
<1>2. CASE Snapshot(a)
    <2>1. pc[a] \in Working /\ pc[a] \in Rewriting /\ "trim" \in Working
        BY <1>2 DEF Snapshot, Working, Loc, Idling, Rewriting
    <2>2. /\ exists => mem[obj[a]] = durable
          /\ mode = "file" => mem[obj[a]] = durable
        BY <2>1, ObjectHas
    <2>3. exists => read[a] = durable
        BY <2>1 DEF SerialParts, ActorInv
    <2>4. UNCHANGED <<mode, cached, mem, exists, durable>> /\ Goto(a, "trim")
        BY <1>2 DEF Snapshot, history
    <2> QED
        BY <2>1, <2>2, <2>3, <2>4, WorkStep DEF Goto
<1>3. CASE RetryTrims(a)
    <2>1. pc[a] \in Working
        BY <1>3 DEF RetryTrims, Working, Loc, Idling
    <2>2. mem'[obj[a]] = durable'
        BY <1>3, <2>1, Holds DEF RetryTrims, ReplaceMessages, Write, DataOK
    <2> QED
        BY <1>3, <2>1, <2>2, WorkStep DEF RetryTrims
<1>4. CASE UndoByHand(a)
    <2>1. pc[a] \in Working /\ "trim" \in Working
        BY <1>4 DEF UndoByHand, Working, Loc, Idling
    <2>2. /\ exists => mem[obj[a]] = durable
          /\ mode = "file" => mem[obj[a]] = durable
        BY <2>1, ObjectHas
    <2>3. /\ pc' = [pc EXCEPT ![a] = "trim"]
          /\ UNCHANGED <<mode, cached, mem, exists, durable, pod, obj>>
          /\ read' = [read EXCEPT ![a] = mem[obj[a]]]
        BY <1>4 DEF UndoByHand, history, objects
    <2>4. read'[a] = mem[obj[a]]
        BY <2>3 DEF ActorsOK
    <2> QED
        BY <2>1, <2>2, <2>3, <2>4, WorkStep
<1>5. CASE UndoTrims(a)
    <2>1. pc[a] \in Working
        BY <1>5 DEF UndoTrims, Working, Loc, Idling
    <2>2. UNCHANGED <<mode, cached>> /\ Done(a)
        BY <1>5 DEF UndoTrims
    <2>3. mode = "file" => mem'[obj[a]] = durable'
        <3>1. CASE Len(read[a]) < 2
            <4>1. mode = "file" => mem[obj[a]] = durable
                BY <2>1, ObjectHas
            <4>2. UNCHANGED <<mem, durable>>
                BY <1>5, <3>1 DEF UndoTrims, history
            <4> QED
                BY <4>1, <4>2
        <3>2. CASE ~(Len(read[a]) < 2)
            BY <1>5, <2>1, <3>2, Holds DEF UndoTrims, ReplaceMessages, Write, DataOK
        <3> QED
            BY <3>1, <3>2
    <2> QED
        BY <2>1, <2>2, <2>3, WorkStep
<1>6. CASE Undo(a)
    <2>1. pc[a] \in Working
        BY <1>6 DEF Undo, Working, Loc, Idling
    <2>2. mode = "file" => mem'[obj[a]] = durable'
        BY <1>6, <2>1, Holds DEF Undo, Write, DataOK
    <2> QED
        BY <1>6, <2>1, <2>2, WorkStep DEF Undo
<1>7. CASE Clear(a)
    <2>1. pc[a] \in Working
        BY <1>7 DEF Clear, Working, Loc, Idling
    <2>2. mem'[obj[a]] = durable'
        BY <1>7, <2>1, Holds DEF Clear, Remove, DataOK
    <2> QED
        BY <1>7, <2>1, <2>2, WorkStep DEF Clear
<1>8. CASE EndDelete(a)
    <2>1. /\ pc[a] = "remove" /\ pc[a] # "idle" /\ Done(a)
          /\ UNCHANGED <<mode, cached>>
        BY <1>8 DEF EndDelete, objects
    <2>2. mode = "file" => \A p \in Pods : cached[p] = NoObject
        BY <2>1 DEF SerialParts, ActorInv
    <2>3. FileInv'
        BY <2>1, <2>2 DEF FileInv
    <2> QED
        BY <2>1, <2>3, OthersIdle, DoneInv, OneAtWork
<1> QED
    BY <1>1, <1>2, <1>3, <1>4, <1>5, <1>6, <1>7, <1>8 DEF CommandStep

LEMMA DeleteSerial ==
    ASSUME NEW a \in Actors, NEW p \in Pods,
           Serial, DataOK, ActorsOK, SerialParts, BeginDelete(a, p)
    PROVE  SerialParts'
<1>1. /\ MayBegin(a, p, "delete")
      /\ cached' = [cached EXCEPT ![p] = NoObject]
      /\ pc' = [pc EXCEPT ![a] = "remove"]
      /\ mode' = mode
    BY DEF BeginDelete
<1>2. \A b \in Actors : pc[b] = "idle"
    BY <1>1, BeginsAlone
<1>3. pc'[a] = "remove" /\ \A b \in Actors \ {a} : pc'[b] = "idle"
    BY <1>1, <1>2 DEF ActorsOK
<1>4. mode = "file" => \A q \in Pods : cached'[q] = NoObject
    BY <1>1 DEF MayBegin, DataOK
<1>5. FileInv'
    BY <1>1, <1>4 DEF FileInv
<1>6. ActorInv(a)'
    BY <1>1, <1>3, <1>4 DEF ActorInv, Working, Idling, Rewriting
<1> QED
    BY <1>3, <1>5, <1>6, OneAtWork

LEMMA CrashSerial ==
    ASSUME NEW p \in Pods, DataOK, ActorsOK, SerialParts, Crash(p)
    PROVE  SerialParts'
<1>1. /\ \A q \in Pods : cached'[q] = IF q = p THEN NoObject ELSE cached[q]
      /\ UNCHANGED <<mode, exists, durable, mem>>
    BY DEF Crash, DataOK, history
<1>2. \A b \in Actors :
        /\ pod[b] = p => pc'[b] = "idle"
        /\ pod[b] # p =>
            /\ pc'[b] = pc[b] /\ pod'[b] = pod[b] /\ obj'[b] = obj[b]
            /\ got'[b] = got[b] /\ read'[b] = read[b]
    BY DEF Crash
<1>3. OneAtATime'
    BY <1>2 DEF SerialParts, OneAtATime
<1>4. FileInv'
    BY <1>1 DEF SerialParts, FileInv
<1>5. ASSUME NEW b \in Actors PROVE ActorInv(b)'
    <2>1. ActorInv(b)
        BY DEF SerialParts
    <2>2. CASE pod[b] = p
        <3>1. pc'[b] = "idle"
            BY <1>2, <2>2
        <3> QED
            BY <3>1 DEF ActorInv, Working, Idling, Rewriting
    <2>3. CASE pod[b] # p
        <3>1. pc[b] \in Working => pod[b] \in Pods
            BY Holds
        <3> QED
            BY <1>1, <1>2, <2>1, <2>3, <3>1 DEF ActorInv
    <2> QED
        BY <2>2, <2>3
<1> QED
    BY <1>3, <1>4, <1>5 DEF SerialParts

LEMMA SerialKept ==
    Serial /\ TypeInv /\ SerialInv /\ [Next]_vars => SerialInv'
<1>0. (SerialInv <=> SerialParts)'
    BY SerialIs, PTL
<1> SUFFICES ASSUME Serial, DataOK, ActorsOK, SerialParts, [Next]_vars
             PROVE  SerialParts'
    BY <1>0, TypeParts, SerialIs
<1>1. ASSUME NEW a \in Actors, NEW p \in Pods, NEW k \in Ops \ {"delete"},
             GetFile(a, p, k) \/ GetRow(a, p, k)
      PROVE  SerialParts'
    BY <1>1, GetFileSerial, GetRowSerial
<1>2. ASSUME NEW a \in Actors, NEW p \in Pods, BeginDelete(a, p)
      PROVE  SerialParts'
    BY <1>2, DeleteSerial
<1>3. ASSUME NEW a \in Actors, Reload(a) \/ TurnStep(a) \/ CommandStep(a)
      PROVE  SerialParts'
    BY <1>3, ReloadSerial, TurnSerial, CommandSerial
<1>4. ASSUME NEW p \in Pods, Crash(p)
      PROVE  SerialParts'
    BY <1>4, CrashSerial
<1>5. CASE UNCHANGED vars
    BY <1>5 DEF vars, SerialParts, OneAtATime, FileInv, ActorInv
<1> QED
    BY <1>1, <1>2, <1>3, <1>4, <1>5 DEF Next

LEMMA SerialHolds == Serial /\ Spec => [](TypeInv /\ SerialInv)
<1>1. Init => TypeInv
    BY InitTypes, TypeParts
<1>2. Init => SerialInv
    <2> SUFFICES ASSUME Init PROVE SerialParts
        BY SerialIs
    <2>1. \A a \in Actors : pc[a] = "idle"
        BY DEF Init
    <2>2. \A p \in Pods : cached[p] = NoObject
        BY DEF Init
    <2> QED
        BY <2>1, <2>2
        DEF SerialParts, OneAtATime, FileInv, ActorInv, Working, Idling, Rewriting
<1>3. CASE Serial
    <2>1. TypeInv /\ SerialInv /\ [Next]_vars => (TypeInv /\ SerialInv)'
        BY <1>3, TypesKept, SerialKept
    <2> QED
        BY <1>1, <1>2, <2>1, PTL DEF Spec
<1>4. CASE ~Serial
    BY <1>4
<1> QED
    BY <1>3, <1>4

--------------------------------------------------------------------------------
(***************************************************************************)
(* The theorems.                                                           *)
(***************************************************************************)

\* When the operations on a session come one after the other, a list that is
\* about to replace the history (compaction, /retry, /undo) was made from the
\* history as it is, for any number of pods and in either mode, through crashes
\* and with polls in between.
THEOREM RewritesCurrent ==
    ASSUME Serial
    PROVE  Spec => []RewriteFromCurrent
<1>1. TypeInv /\ SerialInv => RewriteFromCurrent
    BY DEF SerialInv
<1> QED
    BY <1>1, SerialHolds, PTL

\* Under the same condition a request works on what the store holds, whichever
\* pod wrote it, as long as a history is there: it may have been cleared by
\* another pod before.
THEOREM GetIsFresh ==
    ASSUME Serial
    PROVE  Spec => []GetSeesWrites
<1>1. TypeInv /\ SerialInv => GetSeesWrites
    BY DEF SerialInv, InStep, GetSeesWrites, AfterGet, Working, Loc, Idling
<1> QED
    BY <1>1, SerialHolds, PTL

\* In file mode the cache and the file agree at every moment, so that a restart
\* loses nothing; polls may overlap with anything.
THEOREM FileIsMirrored ==
    ASSUME Serial
    PROVE  Spec => []FileMirrorsCache
<1>1. TypeInv /\ SerialInv => FileMirrorsCache
    BY DEF SerialInv
<1> QED
    BY <1>1, SerialHolds, PTL

LEMMA OnlyAppendsCount ==
    ASSUME DataOK, ActorsOK, SerialParts, [Next]_vars, count' # count
    PROVE  exists => \E m \in Message : durable' = Append(durable, m)
<1>1. PICK a \in Actors : AppendUser(a) \/ Reply(a)
    <2>1. \A a \in Actors, p \in Pods, k \in Ops \ {"delete"} :
            ~GetFile(a, p, k) /\ ~GetRow(a, p, k)
        BY DEF GetFile, GetRow
    <2>2. \A a \in Actors, p \in Pods : ~BeginDelete(a, p)
        BY DEF BeginDelete
    <2>3. \A a \in Actors : ~Reload(a) /\ ~CommandStep(a)
        BY DEF Reload, CommandStep, NothingToRetry, Snapshot, RetryTrims, UndoByHand,
               UndoTrims, Undo, Clear, EndDelete
    <2>4. \A p \in Pods : ~Crash(p)
        BY DEF Crash
    <2>5. ~UNCHANGED vars
        BY DEF vars
    <2>6. \A a \in Actors : TurnStep(a) => AppendUser(a) \/ Reply(a)
        BY DEF TurnStep, Read, Compact, NoCompaction, ProviderFails
    <2> QED
        BY <2>1, <2>2, <2>3, <2>4, <2>5, <2>6 DEF Next
<1>2. pc[a] \in Working
    BY <1>1 DEF AppendUser, Reply, Working, Loc, Idling
<1>3. /\ AppendMessage(a, "user") \/ AppendMessage(a, "assistant")
      /\ UNCHANGED <<mode, cached, snap>>
    BY <1>1 DEF AppendUser, Reply
<1> QED
    BY <1>2, <1>3, AppendAgrees

LEMMA LastOff ==
    ASSUME NEW R, NEW s \in Seq(R), NEW m \in R
    PROVE  /\ Append(s, m) # <<>>
           /\ SubSeq(Append(s, m), 1, Len(Append(s, m)) - 1) = s
<1> DEFINE r == Append(s, m)
<1>1. r \in Seq(R) /\ Len(r) = Len(s) + 1 /\ Len(s) \in Nat
    OBVIOUS
<1>2. \A i \in 1 .. Len(s) : r[i] = s[i]
    OBVIOUS
<1> HIDE DEF r
<1>3. r # <<>>
    BY <1>1
<1>4. SubSeq(r, 1, Len(r) - 1) = s
    BY <1>1, <1>2
<1> QED
    BY <1>3, <1>4 DEF r

\* Under the same condition a message is added to the history there is,
\* whichever pod adds it.
THEOREM AppendsExtend ==
    ASSUME Serial
    PROVE  Spec => AppendExtendsHistory
<1> DEFINE Extends ==
        exists /\ count' # count =>
            /\ durable' # <<>>
            /\ SubSeq(durable', 1, Len(durable') - 1) = durable
<1>1. TypeInv /\ SerialInv /\ [Next]_vars => [Extends]_vars
    <2> SUFFICES ASSUME TypeInv, SerialInv, [Next]_vars, exists, count' # count
                 PROVE  /\ durable' # <<>>
                        /\ SubSeq(durable', 1, Len(durable') - 1) = durable
        OBVIOUS
    <2>1. PICK m \in Message : durable' = Append(durable, m)
        BY TypeParts, SerialIs, OnlyAppendsCount
    <2>2. durable \in Seq(Message)
        BY DEF TypeInv, TypeOK
    <2> QED
        BY <2>1, <2>2, LastOff
<1>2. Spec => [][Next]_vars
    BY DEF Spec
<1> QED
    BY <1>1, <1>2, SerialHolds, PTL DEF AppendExtendsHistory

================================================================================
