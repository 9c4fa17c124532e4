------------------------------ MODULE GatewayProofs ------------------------------
(***************************************************************************)
(* Replies come in the order of the messages they answer (RepliesInOrder), *)
(* for any number of chats, messages and slots, channels of any capacity,  *)
(* and whenever the gateway is told to stop.                               *)
(*                                                                         *)
(* The messages of a chat move through seven places, from the reader to    *)
(* the adapter.  The invariant is that the places are in order (InOrder:   *)
(* whatever is further on has the smaller number) and so is what a place   *)
(* holds (Sorted).  Each step takes the first message of a place to the    *)
(* end of the next one, or drops it.  The types come last.                 *)
(***************************************************************************)
EXTENDS Gateway, FiniteSetTheorems, TLAPS

LEMMA Numbered == MaxMessages \in Nat /\ ChatOf \in [Message -> Chats]
BY GatewayAssumption DEF Message

\* The messages of a chat in a sequence, and of two of them the earlier is the
\* smaller.
Of(s, c)  == {m \in Message : ChatOf[m] = c /\ \E i \in 1 .. Len(s) : s[i] = m}
Sorted(s) ==
    \A i, j \in 1 .. Len(s) : i < j /\ ChatOf[s[i]] = ChatOf[s[j]] => s[i] < s[j]

One(m, c) == {x \in Message : x = m /\ ChatOf[x] = c}

\* Where messages of chat c are, from the last place to the first.
Places(c) ==
    <<Of(delivered, c), Of(outbound, c), One(handling[c], c), Of(chatQ[c], c),
      One(submitting, c), Of(inbound, c), IF reading THEN One(read, c) ELSE {}>>

Typed ==
    /\ read \in 0 .. MaxMessages
    /\ reading \in BOOLEAN /\ (reading => read # 0)
    /\ inbound \in Seq(Message)
    /\ submitting \in Message \cup {None}
    /\ chatQ \in [Chats -> Seq(Message)]
    /\ handling \in [Chats -> Message \cup {None}]
    /\ outbound \in Seq(Message)
    /\ delivered \in Seq(Message)
    /\ \A c \in replying : handling[c] # None

\* Chats keep their messages to themselves.
OwnChat ==
    \A c \in Chats :
        /\ handling[c] # None => ChatOf[handling[c]] = c
        /\ \A i \in 1 .. Len(chatQ[c]) : ChatOf[chatQ[c][i]] = c

AllSorted ==
    /\ Sorted(delivered) /\ Sorted(outbound) /\ Sorted(inbound)
    /\ \A c \in Chats : Sorted(chatQ[c])

\* Places further on hold earlier messages.
Ordered(S) == \A i, j \in 1 .. 7 : i < j => \A x \in S[i], y \in S[j] : x < y
InOrder    == \A c \in Chats : Ordered(Places(c))

\* Nothing is anywhere that has not been read.
OnlyRead == \A c \in Chats, i \in 1 .. 7 : \A x \in Places(c)[i] : x <= read

OrderInv == Typed /\ OwnChat /\ AllSorted /\ InOrder /\ OnlyRead

--------------------------------------------------------------------------------
(***************************************************************************)
(* Sequences of messages.                                                  *)
(***************************************************************************)
LEMMA AppendOf ==
    ASSUME NEW s \in Seq(Message), NEW m \in Message, NEW c
    PROVE  Of(Append(s, m), c) = Of(s, c) \cup One(m, c)
<1> DEFINE r == Append(s, m)
<1>1. /\ Len(r) = Len(s) + 1 /\ Len(s) \in Nat
      /\ r[Len(s) + 1] = m
      /\ \A i \in 1 .. Len(s) : r[i] = s[i]
    OBVIOUS
<1> HIDE DEF r
<1>2. ASSUME NEW x \in Message
      PROVE  (\E i \in 1 .. Len(r) : r[i] = x) <=> (\E i \in 1 .. Len(s) : s[i] = x) \/ x = m
    <2>1. ASSUME NEW i \in 1 .. Len(r), r[i] = x
          PROVE  (\E j \in 1 .. Len(s) : s[j] = x) \/ x = m
        <3>1. CASE i = Len(s) + 1
            BY <1>1, <2>1, <3>1
        <3>2. CASE i # Len(s) + 1
            <4>1. i \in 1 .. Len(s)
                BY <1>1, <3>2
            <4> QED
                BY <1>1, <2>1, <4>1
        <3> QED
            BY <3>1, <3>2
    <2>2. ASSUME NEW i \in 1 .. Len(s), s[i] = x PROVE \E j \in 1 .. Len(r) : r[j] = x
        BY <1>1, <2>2
    <2>3. ASSUME x = m PROVE \E j \in 1 .. Len(r) : r[j] = x
        BY <1>1, <2>3
    <2> QED
        BY <2>1, <2>2, <2>3
<1> QED
    BY <1>2 DEF Of, One, r

LEMMA AppendSorted ==
    ASSUME NEW s \in Seq(Message), NEW m \in Message, Sorted(s), MaxMessages \in Nat,
           \A x \in Of(s, ChatOf[m]) : x < m
    PROVE  Sorted(Append(s, m))
<1> DEFINE r == Append(s, m)
<1>1. /\ Len(r) = Len(s) + 1 /\ Len(s) \in Nat
      /\ r[Len(s) + 1] = m
      /\ \A i \in 1 .. Len(s) : r[i] = s[i]
    OBVIOUS
<1>2. \A i \in 1 .. Len(s) : s[i] \in Message
    OBVIOUS
<1> HIDE DEF r
<1>3. ASSUME NEW i \in 1 .. Len(r), NEW j \in 1 .. Len(r), i < j, ChatOf[r[i]] = ChatOf[r[j]]
      PROVE  r[i] < r[j]
    <2>1. i \in 1 .. Len(s)
        BY <1>1, <1>3
    <2>2. CASE j = Len(s) + 1
        <3>1. r[i] \in Of(s, ChatOf[m])
            BY <1>1, <1>2, <1>3, <2>1, <2>2 DEF Of
        <3> QED
            BY <1>1, <2>2, <3>1
    <2>3. CASE j # Len(s) + 1
        <3>1. j \in 1 .. Len(s)
            BY <1>1, <2>3
        <3> QED
            BY <1>1, <1>3, <2>1, <3>1 DEF Sorted
    <2> QED
        BY <2>2, <2>3
<1> QED
    BY <1>3 DEF Sorted, r

\* The first of a sequence is the smallest of its chat.
LEMMA TakeFirst ==
    ASSUME NEW s \in Seq(Message), s # <<>>, Sorted(s)
    PROVE  /\ Head(s) \in Message /\ Head(s) \in Of(s, ChatOf[Head(s)])
           /\ Head(s) = s[1] /\ 1 \in 1 .. Len(s)
           /\ Tail(s) \in Seq(Message) /\ Sorted(Tail(s))
           /\ \A c : Of(Tail(s), c) \subseteq Of(s, c)
           /\ \A x \in Of(Tail(s), ChatOf[Head(s)]) : Head(s) < x
           /\ \A i \in 1 .. Len(Tail(s)) : i + 1 \in 1 .. Len(s) /\ Tail(s)[i] = s[i + 1]
<1> DEFINE r == Tail(s)
<1>1. /\ Head(s) = s[1] /\ Len(s) \in Nat /\ Len(s) > 0 /\ r \in Seq(Message)
      /\ Len(r) = Len(s) - 1
      /\ \A i \in 1 .. Len(r) : r[i] = s[i + 1]
    OBVIOUS
<1>2. \A i \in 1 .. Len(s) : s[i] \in Message
    OBVIOUS
<1> HIDE DEF r
<1>3. 1 \in 1 .. Len(s) /\ \A i \in 1 .. Len(r) : i + 1 \in 1 .. Len(s)
    BY <1>1
<1>4. Head(s) \in Message /\ Head(s) \in Of(s, ChatOf[Head(s)])
    BY <1>1, <1>2, <1>3 DEF Of
<1>5. Sorted(r)
    <2>1. ASSUME NEW i \in 1 .. Len(r), NEW j \in 1 .. Len(r), i < j,
                 ChatOf[r[i]] = ChatOf[r[j]]
          PROVE  r[i] < r[j]
        <3>1. /\ i + 1 \in 1 .. Len(s) /\ j + 1 \in 1 .. Len(s) /\ i + 1 < j + 1
              /\ r[i] = s[i + 1] /\ r[j] = s[j + 1]
            BY <1>1, <1>3, <2>1
        <3> QED
            BY <2>1, <3>1 DEF Sorted
    <2> QED
        BY <2>1 DEF Sorted
<1>6. ASSUME NEW c, NEW x \in Of(r, c)
      PROVE  x \in Of(s, c) /\ (c = ChatOf[Head(s)] => Head(s) < x)
    <2>1. PICK i \in 1 .. Len(r) : r[i] = x
        BY DEF Of
    <2>2. /\ x \in Message /\ ChatOf[x] = c /\ s[i + 1] = x
          /\ i + 1 \in 1 .. Len(s) /\ 1 < i + 1
        BY <1>1, <1>3, <2>1 DEF Of
    <2>3. x \in Of(s, c)
        BY <2>2 DEF Of
    <2>4. c = ChatOf[Head(s)] => s[1] < s[i + 1]
        BY <1>1, <1>3, <2>2 DEF Sorted
    <2> QED
        BY <1>1, <2>2, <2>3, <2>4
<1> QED
    BY <1>1, <1>3, <1>4, <1>5, <1>6 DEF r

--------------------------------------------------------------------------------
(***************************************************************************)
(* Places.                                                                 *)
(***************************************************************************)

\* Messages are only dropped.
LEMMA Thinned ==
    ASSUME NEW S, NEW T, Ordered(S), \A i \in 1 .. 7 : T[i] \subseteq S[i]
    PROVE  Ordered(T)
BY DEF Ordered

\* The smallest message of a place goes on to the next one.
LEMMA Moved ==
    ASSUME NEW S, NEW T, NEW n \in 1 .. 6, NEW m, Ordered(S), m \in S[n + 1],
           T[n] \subseteq S[n] \cup {m},
           T[n + 1] \subseteq S[n + 1], \A x \in T[n + 1] : m < x,
           \A i \in (1 .. 7) \ {n, n + 1} : T[i] \subseteq S[i]
    PROVE  Ordered(T)
<1> SUFFICES ASSUME NEW i \in 1 .. 7, NEW j \in 1 .. 7, i < j,
                    NEW x \in T[i], NEW y \in T[j]
             PROVE  x < y
    BY DEF Ordered
<1>0. n + 1 \in 1 .. 7 /\ n < n + 1
    OBVIOUS
<1>1. CASE x \in S[i] /\ y \in S[j]
    BY <1>1 DEF Ordered
<1>2. CASE x \notin S[i]
    <2>1. i = n /\ x = m
        BY <1>2
    <2>2. CASE j = n + 1
        BY <2>1, <2>2
    <2>3. CASE j # n + 1
        <3>1. y \in S[j] /\ n + 1 < j
            BY <2>1, <2>3
        <3> QED
            BY <1>0, <2>1, <3>1 DEF Ordered
    <2> QED
        BY <2>2, <2>3
<1>3. CASE x \in S[i] /\ y \notin S[j]
    <2>1. j = n /\ y = m /\ i < n + 1
        BY <1>3
    <2> QED
        BY <1>0, <1>3, <2>1 DEF Ordered
<1> QED
    BY <1>1, <1>2, <1>3

\* A message nobody has seen enters the first place.
LEMMA Entered ==
    ASSUME NEW S, NEW T, NEW m, Ordered(S), T[7] \subseteq {m},
           \A i \in 1 .. 6 : T[i] \subseteq S[i],
           \A i \in 1 .. 6 : \A x \in S[i] : x < m
    PROVE  Ordered(T)
<1> SUFFICES ASSUME NEW i \in 1 .. 7, NEW j \in 1 .. 7, i < j,
                    NEW x \in T[i], NEW y \in T[j]
             PROVE  x < y
    BY DEF Ordered
<1>1. i \in 1 .. 6 /\ x \in S[i]
    OBVIOUS
<1>2. CASE j = 7
    BY <1>1, <1>2
<1>3. CASE j # 7
    <2>1. j \in 1 .. 6 /\ y \in S[j]
        BY <1>3
    <2> QED
        BY <1>1, <2>1 DEF Ordered
<1> QED
    BY <1>2, <1>3

\* What a chat's places owe.
ChatInv(c) == Ordered(Places(c)) /\ \A i \in 1 .. 7 : \A x \in Places(c)[i] : x <= read

LEMMA PlacesAre ==
    ASSUME NEW c
    PROVE  /\ Places(c)[1] = Of(delivered, c)
           /\ Places(c)[2] = Of(outbound, c)
           /\ Places(c)[3] = One(handling[c], c)
           /\ Places(c)[4] = Of(chatQ[c], c)
           /\ Places(c)[5] = One(submitting, c)
           /\ Places(c)[6] = Of(inbound, c)
           /\ Places(c)[7] = IF reading THEN One(read, c) ELSE {}
BY DEF Places

LEMMA PlacesWillBe ==
    ASSUME NEW c
    PROVE  /\ Places(c)'[1] = Of(delivered', c)
           /\ Places(c)'[2] = Of(outbound', c)
           /\ Places(c)'[3] = One(handling'[c], c)
           /\ Places(c)'[4] = Of(chatQ'[c], c)
           /\ Places(c)'[5] = One(submitting', c)
           /\ Places(c)'[6] = Of(inbound', c)
           /\ Places(c)'[7] = IF reading' THEN One(read', c) ELSE {}
BY DEF Places, Of, One

LEMMA Seven == \A i \in 1 .. 7 : i \in {1, 2, 3, 4, 5, 6, 7}
OBVIOUS

LEMMA PlacesTyped == \A c : \A i \in 1 .. 7 : Places(c)[i] \subseteq Message
<1> SUFFICES ASSUME NEW c, NEW i \in 1 .. 7 PROVE Places(c)[i] \subseteq Message
    OBVIOUS
<1>1. /\ \A s : Of(s, c) \subseteq Message
      /\ \A m : One(m, c) \subseteq Message
    BY DEF Of, One
<1>2. (IF reading THEN One(read, c) ELSE {}) \subseteq Message
    BY <1>1
<1>3. CASE i = 1
    BY <1>1, <1>3, PlacesAre
<1>4. CASE i = 2
    BY <1>1, <1>4, PlacesAre
<1>5. CASE i = 3
    BY <1>1, <1>5, PlacesAre
<1>6. CASE i = 4
    BY <1>1, <1>6, PlacesAre
<1>7. CASE i = 5
    BY <1>1, <1>7, PlacesAre
<1>8. CASE i = 6
    BY <1>1, <1>8, PlacesAre
<1>9. CASE i = 7
    BY <1>2, <1>9, PlacesAre
<1> QED
    BY <1>3, <1>4, <1>5, <1>6, <1>7, <1>8, <1>9

\* Nobody is at number zero.
LEMMA NoneNowhere == \A c : One(None, c) = {}
BY DEF One, None, Message

LEMMA OneIs ==
    ASSUME NEW m \in Message, NEW c
    PROVE  One(m, c) = IF c = ChatOf[m] THEN {m} ELSE {}
BY DEF One

LEMMA ThinInv ==
    ASSUME NEW c, ChatInv(c), read' = read,
           \A i \in 1 .. 7 : Places(c)'[i] \subseteq Places(c)[i]
    PROVE  ChatInv(c)'
<1> DEFINE S == Places(c)
           T == Places(c)'
<1>1. Ordered(S) /\ \A i \in 1 .. 7 : \A x \in S[i] : x <= read
    BY DEF ChatInv
<1>2. \A i \in 1 .. 7 : T[i] \subseteq S[i]
    OBVIOUS
<1> HIDE DEF S, T
<1>3. Ordered(T)
    BY <1>1, <1>2, Thinned
<1>4. \A i \in 1 .. 7 : \A x \in T[i] : x <= read'
    BY <1>1, <1>2
<1> QED
    BY <1>3, <1>4 DEF ChatInv, Ordered, S, T

LEMMA MoveInv ==
    ASSUME NEW c, NEW n \in 1 .. 6, NEW m, ChatInv(c), read' = read,
           m \in Places(c)[n + 1],
           Places(c)'[n] \subseteq Places(c)[n] \cup {m},
           Places(c)'[n + 1] \subseteq Places(c)[n + 1],
           \A x \in Places(c)'[n + 1] : m < x,
           \A i \in (1 .. 7) \ {n, n + 1} : Places(c)'[i] \subseteq Places(c)[i]
    PROVE  ChatInv(c)'
<1> DEFINE S == Places(c)
           T == Places(c)'
<1>1. Ordered(S) /\ \A i \in 1 .. 7 : \A x \in S[i] : x <= read
    BY DEF ChatInv
<1>2. /\ m \in S[n + 1]
      /\ T[n] \subseteq S[n] \cup {m}
      /\ T[n + 1] \subseteq S[n + 1]
      /\ \A x \in T[n + 1] : m < x
      /\ \A i \in (1 .. 7) \ {n, n + 1} : T[i] \subseteq S[i]
    OBVIOUS
<1> HIDE DEF S, T
<1>3. Ordered(T)
    BY <1>1, <1>2, Moved
<1>4. n + 1 \in 1 .. 7
    OBVIOUS
<1>5. m <= read
    BY <1>1, <1>2, <1>4
<1>6. ASSUME NEW i \in 1 .. 7, NEW x \in T[i] PROVE x <= read'
    <2>1. x \in S[i] \/ x = m
        BY <1>2
    <2> QED
        BY <1>1, <1>5, <2>1
<1> QED
    BY <1>3, <1>6 DEF ChatInv, Ordered, S, T

--------------------------------------------------------------------------------
(***************************************************************************)
(* The steps.                                                              *)
(***************************************************************************)
\* The invariant with its last two parts chat by chat.
GatewayInv == Typed /\ OwnChat /\ AllSorted /\ \A c \in Chats : ChatInv(c)

LEMMA Same == OrderInv <=> GatewayInv
BY DEF OrderInv, GatewayInv, InOrder, OnlyRead, ChatInv

LEMMA ReadStep ==
    ASSUME GatewayInv, Read
    PROVE  GatewayInv'
<1> USE Numbered
<1>1. /\ ~reading /\ reading' = TRUE /\ read < MaxMessages /\ read' = read + 1
      /\ UNCHANGED <<inbound, submitting, chatQ, handling, replying, outbound, delivered>>
    BY DEF Read, serving, sending
<1>2. read \in Nat /\ read' \in Message /\ read' \in 0 .. MaxMessages /\ read' # 0
    BY <1>1 DEF GatewayInv, Typed, Message
<1>3. Typed' /\ OwnChat' /\ AllSorted'
    BY <1>1, <1>2 DEF GatewayInv, Typed, OwnChat, AllSorted, Sorted
<1>4. ASSUME NEW c \in Chats PROVE ChatInv(c)'
    <2> DEFINE S == Places(c)
               T == Places(c)'
    <2>1. Ordered(S) /\ \A i \in 1 .. 7 : \A x \in S[i] : x <= read
        BY DEF GatewayInv, ChatInv
    <2>2. T[7] \subseteq {read'}
        BY <1>1, PlacesWillBe DEF One
    <2>3. \A i \in 1 .. 6 : T[i] \subseteq S[i]
        <3>1. \A i \in 1 .. 6 : i \in {1, 2, 3, 4, 5, 6}
            OBVIOUS
        <3> QED
            BY <1>1, <3>1, PlacesAre, PlacesWillBe
    <2>4. \A i \in 1 .. 7 : \A x \in S[i] : x < read'
        <3>1. \A i \in 1 .. 7 : S[i] \subseteq Message
            BY PlacesTyped
        <3> QED
            BY <1>1, <1>2, <2>1, <3>1 DEF Message
    <2> HIDE DEF S, T
    <2>5. Ordered(T)
        BY <2>1, <2>2, <2>3, <2>4, Entered
    <2>6. \A i \in 1 .. 7 : i = 7 \/ i \in 1 .. 6
        OBVIOUS
    <2>7. ASSUME NEW i \in 1 .. 7, NEW x \in T[i] PROVE x <= read'
        <3>1. x = read' \/ x \in S[i]
            BY <2>2, <2>3, <2>6
        <3>2. x \in S[i] => x <= read
            BY <2>1
        <3>3. CASE x = read'
            BY <1>2, <3>3 DEF Message
        <3>4. CASE x \in S[i]
            <4>1. S[i] \subseteq Message
                BY PlacesTyped DEF S
            <4> QED
                BY <1>1, <1>2, <3>2, <3>4, <4>1 DEF Message
        <3> QED
            BY <3>1, <3>3, <3>4
    <2> QED
        BY <2>5, <2>7 DEF ChatInv, Ordered, T
<1> QED
    BY <1>3, <1>4 DEF GatewayInv

LEMMA PutInboundStep ==
    ASSUME GatewayInv, PutInbound
    PROVE  GatewayInv'
<1> USE Numbered
<1>1. /\ reading /\ reading' = FALSE /\ inbound' = Append(inbound, read)
      /\ UNCHANGED <<read, submitting, chatQ, handling, replying, outbound, delivered>>
    BY DEF PutInbound, serving, sending
<1>2. read \in Message /\ inbound \in Seq(Message) /\ ChatOf[read] \in Chats
    BY <1>1 DEF GatewayInv, Typed, Message
<1>3. \A c : Of(inbound', c) = Of(inbound, c) \cup One(read, c)
    BY <1>1, <1>2, AppendOf
<1>4. Sorted(inbound')
    <2>1. \A x \in Of(inbound, ChatOf[read]) : x < read
        <3>1. read \in One(read, ChatOf[read])
            BY <1>2 DEF One
        <3>2. Ordered(Places(ChatOf[read]))
            BY <1>2 DEF GatewayInv, ChatInv
        <3>3. \A x \in Places(ChatOf[read])[6], y \in Places(ChatOf[read])[7] : x < y
            BY <3>2 DEF Ordered
        <3> QED
            BY <1>1, <3>1, <3>3, PlacesAre
    <2> QED
        BY <1>1, <1>2, <2>1, AppendSorted DEF GatewayInv, AllSorted
<1>5. Typed'
    <2>1. inbound' \in Seq(Message)
        BY <1>1, <1>2
    <2> QED
        BY <1>1, <2>1 DEF GatewayInv, Typed
<1>6. OwnChat' /\ AllSorted'
    BY <1>1, <1>4 DEF GatewayInv, OwnChat, AllSorted, Sorted
<1>7. ASSUME NEW c \in Chats PROVE ChatInv(c)'
    <2>1. ChatInv(c)
        BY DEF GatewayInv
    <2>2. /\ Places(c)'[6] = Places(c)[6] \cup One(read, c)
          /\ Places(c)'[7] = {}
          /\ Places(c)[7] = One(read, c)
          /\ \A i \in 1 .. 5 : Places(c)'[i] = Places(c)[i]
        <3>1. \A i \in 1 .. 5 : i \in {1, 2, 3, 4, 5}
            OBVIOUS
        <3> QED
            BY <1>1, <1>3, <3>1, PlacesAre, PlacesWillBe
    <2>3. CASE c = ChatOf[read]
        <3>1. One(read, c) = {read}
            BY <1>2, <2>3, OneIs
        <3>2. /\ Places(c)'[6] \subseteq Places(c)[6] \cup {read}
              /\ read \in Places(c)[7]
              /\ \A i \in (1 .. 7) \ {6, 7} : Places(c)'[i] \subseteq Places(c)[i]
            BY <2>2, <3>1
        <3> QED
            BY <1>1, <2>1, <2>2, <3>2, MoveInv
    <2>4. CASE c # ChatOf[read]
        <3>1. One(read, c) = {}
            BY <1>2, <2>4, OneIs
        <3>2. \A i \in 1 .. 7 : Places(c)'[i] \subseteq Places(c)[i]
            BY <2>2, <3>1, Seven
        <3> QED
            BY <1>1, <2>1, <3>2, ThinInv
    <2> QED
        BY <2>3, <2>4
<1> QED
    BY <1>5, <1>6, <1>7 DEF GatewayInv

LEMMA DispatchStep ==
    ASSUME GatewayInv, Dispatch
    PROVE  GatewayInv'
<1> USE Numbered
<1> DEFINE m == Head(inbound)
<1>1. /\ submitting = None /\ inbound # <<>> /\ inbound' = Tail(inbound)
      /\ submitting' = m \/ submitting' = None
      /\ UNCHANGED <<read, reading, chatQ, handling, replying, outbound, delivered>>
    BY DEF Dispatch
<1>2. /\ m \in Message /\ m \in Of(inbound, ChatOf[m])
      /\ inbound' \in Seq(Message) /\ Sorted(inbound')
      /\ \A c : Of(inbound', c) \subseteq Of(inbound, c)
      /\ \A x \in Of(inbound', ChatOf[m]) : m < x
    BY <1>1, TakeFirst DEF GatewayInv, Typed, AllSorted
<1> HIDE DEF m
<1>3. Typed' /\ OwnChat' /\ AllSorted'
    BY <1>1, <1>2 DEF GatewayInv, Typed, OwnChat, AllSorted, Sorted
<1>4. ASSUME NEW c \in Chats PROVE ChatInv(c)'
    <2>1. ChatInv(c)
        BY DEF GatewayInv
    <2>2. /\ Places(c)'[6] = Of(inbound', c)
          /\ Places(c)[6] = Of(inbound, c)
          /\ Places(c)'[5] = One(submitting', c)
          /\ \A i \in (1 .. 7) \ {5, 6} : Places(c)'[i] = Places(c)[i]
        <3>1. \A i \in (1 .. 7) \ {5, 6} : i \in {1, 2, 3, 4, 7}
            OBVIOUS
        <3> QED
            BY <1>1, <3>1, PlacesAre, PlacesWillBe
    <2>3. CASE c = ChatOf[m] /\ submitting' = m
        <3>1. One(submitting', c) = {m}
            BY <1>2, <2>3, OneIs
        <3>2. /\ Places(c)'[5] \subseteq Places(c)[5] \cup {m}
              /\ m \in Places(c)[6]
              /\ Places(c)'[6] \subseteq Places(c)[6]
              /\ \A x \in Places(c)'[6] : m < x
              /\ \A i \in (1 .. 7) \ {5, 6} : Places(c)'[i] \subseteq Places(c)[i]
            BY <1>2, <2>2, <2>3, <3>1
        <3> QED
            BY <1>1, <2>1, <3>2, MoveInv
    <2>4. CASE ~(c = ChatOf[m] /\ submitting' = m)
        <3>1. One(submitting', c) = {}
            BY <1>1, <1>2, <2>4, OneIs, NoneNowhere
        <3>2. \A i \in 1 .. 7 : Places(c)'[i] \subseteq Places(c)[i]
            BY <1>2, <2>2, <3>1
        <3> QED
            BY <1>1, <2>1, <3>2, ThinInv
    <2> QED
        BY <2>3, <2>4
<1> QED
    BY <1>3, <1>4 DEF GatewayInv

LEMMA EnqueueStep ==
    ASSUME GatewayInv, Enqueue
    PROVE  GatewayInv'
<1> USE Numbered
<1> DEFINE m == submitting
           d == ChatOf[m]
<1>1. /\ m # None /\ submitting' = None
      /\ chatQ' = [chatQ EXCEPT ![d] = Append(chatQ[d], m)]
      /\ UNCHANGED <<read, reading, inbound, handling, replying, outbound, delivered>>
    BY DEF Enqueue, intake, sending
<1>2. m \in Message /\ d \in Chats /\ chatQ \in [Chats -> Seq(Message)]
    BY <1>1 DEF GatewayInv, Typed
<1>3. /\ chatQ'[d] = Append(chatQ[d], m)
      /\ \A c \in Chats \ {d} : chatQ'[c] = chatQ[c]
      /\ chatQ' \in [Chats -> Seq(Message)]
    <2>1. Append(chatQ[d], m) \in Seq(Message)
        BY <1>2
    <2> HIDE DEF m, d
    <2> QED
        BY <1>1, <1>2, <2>1
<1>4. \A c : Of(chatQ'[d], c) = Of(chatQ[d], c) \cup One(m, c)
    <2>1. chatQ[d] \in Seq(Message)
        BY <1>2
    <2> HIDE DEF m, d
    <2> QED
        BY <1>2, <1>3, <2>1, AppendOf
<1>5. Sorted(chatQ'[d])
    <2>1. \A x \in Of(chatQ[d], d) : x < m
        <3>1. m \in One(m, d)
            BY <1>2 DEF One
        <3>2. \A x \in Places(d)[4], y \in Places(d)[5] : x < y
            BY <1>2 DEF GatewayInv, ChatInv, Ordered
        <3> QED
            BY <3>1, <3>2, PlacesAre
    <2>2. chatQ[d] \in Seq(Message) /\ Sorted(chatQ[d])
        BY <1>2 DEF GatewayInv, AllSorted
    <2> QED
        BY <1>2, <1>3, <2>1, <2>2, AppendSorted
<1>6. Typed'
    BY <1>1, <1>3 DEF GatewayInv, Typed
<1>7. OwnChat'
    <2>1. \A i \in 1 .. Len(chatQ'[d]) : ChatOf[chatQ'[d][i]] = d
        <3>1. chatQ[d] \in Seq(Message) /\ \A i \in 1 .. Len(chatQ[d]) : ChatOf[chatQ[d][i]] = d
            BY <1>2 DEF GatewayInv, OwnChat
        <3>2. ASSUME NEW i \in 1 .. Len(chatQ'[d]) PROVE ChatOf[chatQ'[d][i]] = d
            <4> DEFINE q == chatQ[d]
            <4>1. q \in Seq(Message) /\ i \in 1 .. Len(Append(q, m))
                BY <1>3, <3>1, <3>2
            <4>2. i \in 1 .. Len(q) \/ (i = Len(q) + 1 /\ Append(q, m)[i] = m)
                BY <4>1
            <4>3. i \in 1 .. Len(q) => Append(q, m)[i] = q[i]
                BY <4>1
            <4> QED
                BY <1>3, <3>1, <4>2, <4>3
        <3> QED
            BY <3>2
    <2>2. \A c \in Chats \ {d} : \A i \in 1 .. Len(chatQ'[c]) : ChatOf[chatQ'[c][i]] = c
        BY <1>3 DEF GatewayInv, OwnChat
    <2>3. \A c \in Chats : handling'[c] # None => ChatOf[handling'[c]] = c
        BY <1>1 DEF GatewayInv, OwnChat
    <2> QED
        BY <2>1, <2>2, <2>3 DEF OwnChat
<1>8. AllSorted'
    <2>1. \A c \in Chats : Sorted(chatQ'[c])
        <3>1. \A c \in Chats \ {d} : Sorted(chatQ'[c])
            BY <1>3 DEF GatewayInv, AllSorted
        <3> QED
            BY <1>5, <3>1
    <2>2. Sorted(delivered') /\ Sorted(outbound') /\ Sorted(inbound')
        BY <1>1 DEF GatewayInv, AllSorted
    <2> QED
        BY <2>1, <2>2 DEF AllSorted, Sorted
<1>9. ASSUME NEW c \in Chats PROVE ChatInv(c)'
    <2>1. ChatInv(c)
        BY DEF GatewayInv
    <2>2. /\ Places(c)'[5] = {}
          /\ Places(c)[5] = One(m, c)
          /\ Places(c)'[4] = Of(chatQ'[c], c)
          /\ Places(c)[4] = Of(chatQ[c], c)
          /\ \A i \in (1 .. 7) \ {4, 5} : Places(c)'[i] = Places(c)[i]
        <3>1. \A i \in (1 .. 7) \ {4, 5} : i \in {1, 2, 3, 6, 7}
            OBVIOUS
        <3> QED
            BY <1>1, <3>1, PlacesAre, PlacesWillBe, NoneNowhere
    <2> HIDE DEF m
    <2>3. CASE c = d
        <3>1. One(m, c) = {m}
            BY <1>2, <2>3, OneIs
        <3>2. /\ Places(c)'[4] \subseteq Places(c)[4] \cup {m}
              /\ m \in Places(c)[5]
              /\ Places(c)'[5] \subseteq Places(c)[5]
              /\ \A x \in Places(c)'[5] : m < x
              /\ \A i \in (1 .. 7) \ {4, 5} : Places(c)'[i] \subseteq Places(c)[i]
            BY <1>4, <2>2, <2>3, <3>1
        <3> QED
            BY <1>1, <2>1, <3>2, MoveInv
    <2>4. CASE c # d
        <3>1. chatQ'[c] = chatQ[c]
            BY <1>3, <2>4
        <3>2. \A i \in 1 .. 7 : Places(c)'[i] \subseteq Places(c)[i]
            BY <2>2, <3>1
        <3> QED
            BY <1>1, <2>1, <3>2, ThinInv
    <2> QED
        BY <2>3, <2>4
<1> QED
    BY <1>6, <1>7, <1>8, <1>9 DEF GatewayInv

LEMMA StartTaskStep ==
    ASSUME GatewayInv, NEW d \in Chats, StartTask(d)
    PROVE  GatewayInv'
<1> USE Numbered
<1> DEFINE m == Head(chatQ[d])
<1>1. /\ chatQ[d] # <<>> /\ handling[d] = None
      /\ handling' = [handling EXCEPT ![d] = m]
      /\ chatQ' = [chatQ EXCEPT ![d] = Tail(chatQ[d])]
      /\ UNCHANGED <<read, reading, inbound, submitting, replying, outbound, delivered>>
    BY DEF StartTask, intake, sending
<1>2. /\ chatQ \in [Chats -> Seq(Message)] /\ handling \in [Chats -> Message \cup {None}]
      /\ chatQ[d] \in Seq(Message) /\ Sorted(chatQ[d])
      /\ \A i \in 1 .. Len(chatQ[d]) : ChatOf[chatQ[d][i]] = d
    BY DEF GatewayInv, Typed, AllSorted, OwnChat
<1> DEFINE r == Tail(chatQ[d])
<1>3. /\ m \in Message /\ ChatOf[m] = d /\ m \in Of(chatQ[d], d)
      /\ r \in Seq(Message) /\ Sorted(r)
      /\ Of(r, d) \subseteq Of(chatQ[d], d)
      /\ \A x \in Of(r, d) : m < x
      /\ \A i \in 1 .. Len(r) : ChatOf[r[i]] = d
    <2>1. /\ m \in Message /\ m \in Of(chatQ[d], ChatOf[m])
          /\ m = chatQ[d][1] /\ 1 \in 1 .. Len(chatQ[d])
          /\ r \in Seq(Message) /\ Sorted(r)
          /\ \A c : Of(r, c) \subseteq Of(chatQ[d], c)
          /\ \A x \in Of(r, ChatOf[m]) : m < x
          /\ \A i \in 1 .. Len(r) : i + 1 \in 1 .. Len(chatQ[d]) /\ r[i] = chatQ[d][i + 1]
        BY <1>1, <1>2, TakeFirst
    <2> HIDE DEF m, r
    <2>2. ChatOf[m] = d
        BY <1>2, <2>1
    <2> QED
        BY <1>2, <2>1, <2>2
<1> HIDE DEF m, r
<1>4. /\ chatQ'[d] = r /\ handling'[d] = m
      /\ \A c \in Chats \ {d} : chatQ'[c] = chatQ[c] /\ handling'[c] = handling[c]
      /\ chatQ' \in [Chats -> Seq(Message)] /\ handling' \in [Chats -> Message \cup {None}]
    BY <1>1, <1>2, <1>3 DEF r
<1>5. Typed'
    <2>1. \A c \in replying' : handling'[c] # None
        <3>1. m # None
            BY <1>3 DEF None, Message
        <3>2. \A c \in replying : handling[c] # None
            BY DEF GatewayInv, Typed
        <3> QED
            BY <1>1, <1>2, <3>1, <3>2
    <2> QED
        BY <1>1, <1>4, <2>1 DEF GatewayInv, Typed
<1>6. OwnChat'
    <2>1. ASSUME NEW c \in Chats
          PROVE  /\ handling'[c] # None => ChatOf[handling'[c]] = c
                 /\ \A i \in 1 .. Len(chatQ'[c]) : ChatOf[chatQ'[c][i]] = c
        <3>1. CASE c = d
            <4>1. handling'[c] = m /\ chatQ'[c] = r
                BY <1>4, <3>1
            <4> QED
                BY <1>3, <3>1, <4>1
        <3>2. CASE c # d
            <4>1. handling'[c] = handling[c] /\ chatQ'[c] = chatQ[c]
                BY <1>4, <3>2
            <4>2. /\ handling[c] # None => ChatOf[handling[c]] = c
                  /\ \A i \in 1 .. Len(chatQ[c]) : ChatOf[chatQ[c][i]] = c
                BY DEF GatewayInv, OwnChat
            <4> QED
                BY <4>1, <4>2
        <3> QED
            BY <3>1, <3>2
    <2> QED
        BY <2>1 DEF OwnChat
<1>7. AllSorted'
    <2>1. \A c \in Chats : Sorted(chatQ'[c])
        BY <1>3, <1>4 DEF GatewayInv, AllSorted
    <2>2. Sorted(delivered') /\ Sorted(outbound') /\ Sorted(inbound')
        BY <1>1 DEF GatewayInv, AllSorted
    <2> QED
        BY <2>1, <2>2 DEF AllSorted, Sorted
<1>8. ASSUME NEW c \in Chats PROVE ChatInv(c)'
    <2>1. ChatInv(c)
        BY DEF GatewayInv
    <2>2. /\ Places(c)'[3] = One(handling'[c], c)
          /\ Places(c)[3] = One(handling[c], c)
          /\ Places(c)'[4] = Of(chatQ'[c], c)
          /\ Places(c)[4] = Of(chatQ[c], c)
          /\ \A i \in (1 .. 7) \ {3, 4} : Places(c)'[i] = Places(c)[i]
        <3>1. \A i \in (1 .. 7) \ {3, 4} : i \in {1, 2, 5, 6, 7}
            OBVIOUS
        <3> QED
            BY <1>1, <3>1, PlacesAre, PlacesWillBe
    <2>3. CASE c = d
        <3>1. One(m, c) = {m}
            BY <1>3, <2>3, OneIs
        <3>2. /\ Places(c)'[3] \subseteq Places(c)[3] \cup {m}
              /\ m \in Places(c)[4]
              /\ Places(c)'[4] \subseteq Places(c)[4]
              /\ \A x \in Places(c)'[4] : m < x
              /\ \A i \in (1 .. 7) \ {3, 4} : Places(c)'[i] \subseteq Places(c)[i]
            BY <1>3, <1>4, <2>2, <2>3, <3>1
        <3> QED
            BY <1>1, <2>1, <3>2, MoveInv
    <2>4. CASE c # d
        <3>1. \A i \in 1 .. 7 : Places(c)'[i] \subseteq Places(c)[i]
            BY <1>4, <2>2, <2>4
        <3> QED
            BY <1>1, <2>1, <3>1, ThinInv
    <2> QED
        BY <2>3, <2>4
<1> QED
    BY <1>5, <1>6, <1>7, <1>8 DEF GatewayInv

LEMMA HandlerFailsStep ==
    ASSUME GatewayInv, NEW d \in Chats, HandlerFails(d)
    PROVE  GatewayInv'
<1>1. /\ d \notin replying /\ handling' = [handling EXCEPT ![d] = None]
      /\ UNCHANGED <<read, reading, inbound, submitting, chatQ, replying, outbound, delivered>>
    BY DEF HandlerFails, intake
<1>2. /\ handling'[d] = None
      /\ \A c : c # d => handling'[c] = handling[c]
      /\ handling' \in [Chats -> Message \cup {None}]
    <2>1. handling \in [Chats -> Message \cup {None}]
        BY DEF GatewayInv, Typed
    <2>2. \A c \in replying : handling'[c] = handling[c]
        BY <1>1, <2>1
    <2> QED
        BY <1>1, <2>1, <2>2
<1>3. Typed'
    BY <1>1, <1>2 DEF GatewayInv, Typed
<1>4. OwnChat' /\ AllSorted'
    BY <1>1, <1>2 DEF GatewayInv, OwnChat, AllSorted, Sorted
<1>5. ASSUME NEW c \in Chats PROVE ChatInv(c)'
    <2>1. ChatInv(c)
        BY DEF GatewayInv
    <2>2. \A i \in 1 .. 7 : Places(c)'[i] \subseteq Places(c)[i]
        <3>1. One(handling'[c], c) \subseteq One(handling[c], c)
            BY <1>2, NoneNowhere
        <3>2. \A i \in (1 .. 7) \ {3} : i \in {1, 2, 4, 5, 6, 7}
            OBVIOUS
        <3>3. \A i \in (1 .. 7) \ {3} : Places(c)'[i] = Places(c)[i]
            BY <1>1, <3>2, PlacesAre, PlacesWillBe
        <3> QED
            BY <3>1, <3>3, PlacesAre, PlacesWillBe
    <2> QED
        BY <1>1, <2>1, <2>2, ThinInv
<1> QED
    BY <1>3, <1>4, <1>5 DEF GatewayInv

LEMMA ReplyStep ==
    ASSUME GatewayInv, NEW d \in Chats, Reply(d)
    PROVE  GatewayInv'
<1> USE Numbered
<1> DEFINE m == handling[d]
<1>1. /\ d \in replying /\ outbound' = Append(outbound, m)
      /\ handling' = [handling EXCEPT ![d] = None] /\ replying' = replying \ {d}
      /\ UNCHANGED <<read, reading, inbound, submitting, chatQ, delivered>>
    BY DEF Reply, intake
<1>2. /\ m \in Message /\ ChatOf[m] = d /\ outbound \in Seq(Message) /\ Sorted(outbound)
      /\ handling \in [Chats -> Message \cup {None}]
    BY <1>1 DEF GatewayInv, Typed, OwnChat, AllSorted
<1>3. /\ handling'[d] = None
      /\ \A c \in Chats \ {d} : handling'[c] = handling[c]
      /\ \A c \in replying' : handling'[c] = handling[c]
      /\ handling' \in [Chats -> Message \cup {None}]
    BY <1>1, <1>2
<1> HIDE DEF m
<1>4. \A c : Of(outbound', c) = Of(outbound, c) \cup One(m, c)
    BY <1>1, <1>2, AppendOf
<1>5. Sorted(outbound')
    <2>1. \A x \in Of(outbound, d) : x < m
        <3>1. m \in One(m, d)
            BY <1>2 DEF One
        <3>2. \A x \in Places(d)[2], y \in Places(d)[3] : x < y
            BY DEF GatewayInv, ChatInv, Ordered
        <3> QED
            BY <3>1, <3>2, PlacesAre DEF m
    <2> QED
        BY <1>1, <1>2, <2>1, AppendSorted
<1>6. Typed'
    <2>1. outbound' \in Seq(Message)
        BY <1>1, <1>2
    <2>2. \A c \in replying' : handling'[c] # None
        BY <1>1, <1>3 DEF GatewayInv, Typed
    <2> QED
        BY <1>1, <1>3, <2>1, <2>2 DEF GatewayInv, Typed
<1>7. OwnChat' /\ AllSorted'
    <2>1. \A c \in Chats : handling'[c] # None => ChatOf[handling'[c]] = c
        BY <1>3 DEF GatewayInv, OwnChat
    <2> QED
        BY <1>1, <1>5, <2>1 DEF GatewayInv, OwnChat, AllSorted, Sorted
<1>8. ASSUME NEW c \in Chats PROVE ChatInv(c)'
    <2>1. ChatInv(c)
        BY DEF GatewayInv
    <2>2. /\ Places(c)'[2] = Of(outbound', c)
          /\ Places(c)[2] = Of(outbound, c)
          /\ Places(c)'[3] = One(handling'[c], c)
          /\ Places(c)[3] = One(handling[c], c)
          /\ \A i \in (1 .. 7) \ {2, 3} : Places(c)'[i] = Places(c)[i]
        <3>1. \A i \in (1 .. 7) \ {2, 3} : i \in {1, 4, 5, 6, 7}
            OBVIOUS
        <3> QED
            BY <1>1, <3>1, PlacesAre, PlacesWillBe
    <2>3. CASE c = d
        <3>1. One(m, c) = {m} /\ One(handling'[c], c) = {}
            BY <1>2, <1>3, <2>3, OneIs, NoneNowhere
        <3>2. /\ Places(c)'[2] \subseteq Places(c)[2] \cup {m}
              /\ m \in Places(c)[3]
              /\ Places(c)'[3] \subseteq Places(c)[3]
              /\ \A x \in Places(c)'[3] : m < x
              /\ \A i \in (1 .. 7) \ {2, 3} : Places(c)'[i] \subseteq Places(c)[i]
            BY <1>4, <2>2, <2>3, <3>1 DEF m
        <3> QED
            BY <1>1, <2>1, <3>2, MoveInv
    <2>4. CASE c # d
        <3>1. One(m, c) = {}
            BY <1>2, <2>4, OneIs
        <3>2. \A i \in 1 .. 7 : Places(c)'[i] \subseteq Places(c)[i]
            BY <1>3, <1>4, <2>2, <2>4, <3>1
        <3> QED
            BY <1>1, <2>1, <3>2, ThinInv
    <2> QED
        BY <2>3, <2>4
<1> QED
    BY <1>6, <1>7, <1>8 DEF GatewayInv

LEMMA RouteOutboundStep ==
    ASSUME GatewayInv, RouteOutbound
    PROVE  GatewayInv'
<1> USE Numbered
<1> DEFINE m == Head(outbound)
<1>1. /\ outbound # <<>> /\ outbound' = Tail(outbound)
      /\ delivered' = Append(delivered, m) \/ delivered' = delivered
      /\ UNCHANGED <<read, reading, inbound, submitting, chatQ, handling, replying>>
    BY DEF RouteOutbound, intake, serving
<1>2. /\ m \in Message /\ m \in Of(outbound, ChatOf[m]) /\ ChatOf[m] \in Chats
      /\ outbound' \in Seq(Message) /\ Sorted(outbound')
      /\ \A c : Of(outbound', c) \subseteq Of(outbound, c)
      /\ \A x \in Of(outbound', ChatOf[m]) : m < x
      /\ delivered \in Seq(Message) /\ Sorted(delivered)
    BY <1>1, TakeFirst DEF GatewayInv, Typed, AllSorted
<1> HIDE DEF m
<1>3. \A c : Of(Append(delivered, m), c) = Of(delivered, c) \cup One(m, c)
    BY <1>2, AppendOf
<1>4. Sorted(delivered') /\ delivered' \in Seq(Message)
    <2>1. \A x \in Of(delivered, ChatOf[m]) : x < m
        <3>1. \A x \in Places(ChatOf[m])[1], y \in Places(ChatOf[m])[2] : x < y
            BY <1>2 DEF GatewayInv, ChatInv, Ordered
        <3> QED
            BY <1>2, <3>1, PlacesAre
    <2>2. Sorted(Append(delivered, m)) /\ Append(delivered, m) \in Seq(Message)
        BY <1>2, <2>1, AppendSorted
    <2> QED
        BY <1>1, <1>2, <2>2
<1>5. Typed' /\ OwnChat' /\ AllSorted'
    <2>1. Typed'
        BY <1>1, <1>2, <1>4 DEF GatewayInv, Typed
    <2>2. OwnChat'
        BY <1>1 DEF GatewayInv, OwnChat
    <2>3. AllSorted'
        BY <1>1, <1>2, <1>4 DEF GatewayInv, AllSorted, Sorted
    <2> QED
        BY <2>1, <2>2, <2>3
<1>6. ASSUME NEW c \in Chats PROVE ChatInv(c)'
    <2>1. ChatInv(c)
        BY DEF GatewayInv
    <2>2. /\ Places(c)'[1] = Of(delivered', c)
          /\ Places(c)[1] = Of(delivered, c)
          /\ Places(c)'[2] = Of(outbound', c)
          /\ Places(c)[2] = Of(outbound, c)
          /\ \A i \in (1 .. 7) \ {1, 2} : Places(c)'[i] = Places(c)[i]
        <3>1. \A i \in (1 .. 7) \ {1, 2} : i \in {3, 4, 5, 6, 7}
            OBVIOUS
        <3> QED
            BY <1>1, <3>1, PlacesAre, PlacesWillBe
    <2>3. Of(delivered', c) \subseteq Of(delivered, c) \cup One(m, c)
        BY <1>1, <1>3
    <2>4. CASE c = ChatOf[m]
        <3>1. One(m, c) = {m}
            BY <1>2, <2>4, OneIs
        <3>2. /\ Places(c)'[1] \subseteq Places(c)[1] \cup {m}
              /\ m \in Places(c)[2]
              /\ Places(c)'[2] \subseteq Places(c)[2]
              /\ \A x \in Places(c)'[2] : m < x
              /\ \A i \in (1 .. 7) \ {1, 2} : Places(c)'[i] \subseteq Places(c)[i]
            BY <1>2, <2>2, <2>3, <2>4, <3>1
        <3> QED
            BY <1>1, <2>1, <3>2, MoveInv
    <2>5. CASE c # ChatOf[m]
        <3>1. One(m, c) = {}
            BY <1>2, <2>5, OneIs
        <3>2. \A i \in 1 .. 7 : Places(c)'[i] \subseteq Places(c)[i]
            BY <1>2, <2>2, <2>3, <3>1
        <3> QED
            BY <1>1, <2>1, <3>2, ThinInv
    <2> QED
        BY <2>4, <2>5
<1> QED
    BY <1>5, <1>6 DEF GatewayInv

\* The other steps leave every message where it is.
LEMMA StillStep ==
    ASSUME GatewayInv,
           UNCHANGED <<read, reading, inbound, submitting, chatQ, handling, outbound, delivered>>,
           \A c \in replying' : handling[c] # None
    PROVE  GatewayInv'
<1>1. Typed'
    BY DEF GatewayInv, Typed
<1>2. OwnChat' /\ AllSorted'
    BY DEF GatewayInv, OwnChat, AllSorted, Sorted
<1>3. ASSUME NEW c \in Chats PROVE ChatInv(c)'
    <2>1. \A i \in 1 .. 7 : Places(c)'[i] \subseteq Places(c)[i]
        BY Seven, PlacesAre, PlacesWillBe
    <2> QED
        BY <2>1, ThinInv DEF GatewayInv
<1> QED
    BY <1>1, <1>2, <1>3 DEF GatewayInv

LEMMA Initially ==
    ASSUME Init
    PROVE  GatewayInv
<1> USE Numbered
<1>1. Typed /\ OwnChat /\ AllSorted
    <2>1. <<>> \in Seq(Message) /\ Len(<<>>) = 0
        OBVIOUS
    <2>2. Sorted(<<>>)
        BY <2>1 DEF Sorted
    <2>3. \A c \in Chats : chatQ[c] = <<>> /\ handling[c] = None
        BY DEF Init
    <2>4. OwnChat
        BY <2>1, <2>3 DEF OwnChat
    <2>5. AllSorted
        BY <2>2, <2>3 DEF Init, AllSorted
    <2>6. Typed
        <3>1. read \in 0 .. MaxMessages /\ submitting \in Message \cup {None}
            BY DEF Init
        <3>2. chatQ \in [Chats -> Seq(Message)] /\ handling \in [Chats -> Message \cup {None}]
            BY <2>1 DEF Init
        <3>3. inbound \in Seq(Message) /\ outbound \in Seq(Message) /\ delivered \in Seq(Message)
            BY <2>1 DEF Init
        <3>4. reading \in BOOLEAN /\ (reading => read # 0) /\ replying = {}
            BY DEF Init
        <3> QED
            BY <3>1, <3>2, <3>3, <3>4 DEF Typed
    <2> QED
        BY <2>4, <2>5, <2>6
<1>2. ASSUME NEW c \in Chats, NEW i \in 1 .. 7 PROVE Places(c)[i] = {}
    <2>1. Of(<<>>, c) = {}
        BY DEF Of
    <2>2. /\ Places(c)[1] = {} /\ Places(c)[2] = {} /\ Places(c)[4] = {} /\ Places(c)[6] = {}
          /\ Places(c)[3] = {} /\ Places(c)[5] = {} /\ Places(c)[7] = {}
        BY <2>1, PlacesAre, NoneNowhere DEF Init
    <2> QED
        BY <2>2, Seven
<1>3. \A c \in Chats : ChatInv(c)
    BY <1>2 DEF ChatInv, Ordered
<1> QED
    BY <1>1, <1>3 DEF GatewayInv

LEMMA EveryStep ==
    ASSUME GatewayInv, [Next]_vars
    PROVE  GatewayInv'
<1>0. \A c \in replying : handling[c] # None
    BY DEF GatewayInv, Typed
<1>1. CASE Read
    BY <1>1, ReadStep
<1>2. CASE PutInbound
    BY <1>2, PutInboundStep
<1>3. CASE Dispatch
    BY <1>3, DispatchStep
<1>4. CASE Enqueue
    BY <1>4, EnqueueStep
<1>5. ASSUME NEW c \in Chats, StartTask(c) PROVE GatewayInv'
    BY <1>5, StartTaskStep
<1>6. ASSUME NEW c \in Chats, HandlerFails(c) PROVE GatewayInv'
    BY <1>6, HandlerFailsStep
<1>7. ASSUME NEW c \in Chats, HandleMessage(c) PROVE GatewayInv'
    BY <1>0, <1>7, StillStep DEF HandleMessage, intake, sending
<1>8. ASSUME NEW c \in Chats, Reply(c) PROVE GatewayInv'
    BY <1>8, ReplyStep
<1>9. CASE RouteOutbound
    BY <1>9, RouteOutboundStep
<1>10. CASE Cancel
    BY <1>0, <1>10, StillStep DEF Cancel, intake, serving, sending
<1>11. ASSUME NEW g \in Goroutines, Leave(g) PROVE GatewayInv'
    BY <1>0, <1>11, StillStep DEF Leave, intake, serving, sending
<1>12. CASE Return
    BY <1>0, <1>12, StillStep DEF Return, intake, serving, sending
<1>13. CASE UNCHANGED vars
    BY <1>0, <1>13, StillStep DEF vars, intake, serving, sending
<1> QED
    BY <1>1, <1>2, <1>3, <1>4, <1>5, <1>6, <1>7, <1>8, <1>9, <1>10, <1>11, <1>12, <1>13
    DEF Next, Runs

--------------------------------------------------------------------------------

\* Replies reach a chat in the order of the messages they answer, and none comes
\* twice (processInbound, the chat queue, the handler's send on Outbound and
\* routeOutbound), whatever is dropped on the way and whenever Run is cancelled.
THEOREM RepliesKeepOrder == Spec => []RepliesInOrder
<1>1. Init => GatewayInv
    BY Initially
<1>2. GatewayInv /\ [Next]_vars => GatewayInv'
    BY EveryStep
<1>3. GatewayInv => RepliesInOrder
    BY DEF GatewayInv, AllSorted, Sorted, RepliesInOrder
<1> QED
    BY <1>1, <1>2, <1>3, PTL DEF Spec

--------------------------------------------------------------------------------
(***************************************************************************)
(* Types, and what channels and slots bound.                               *)
(***************************************************************************)
Held    == {c \in Chats : handling[c] # None}
TypeInv ==
    /\ TypeOK /\ chatQ \in [Chats -> Seq(Message)]
    /\ reading => read # 0
    /\ \A c \in replying : handling[c] # None

LEMMA Capacities ==
    /\ InCap \in Nat /\ OutCap \in Nat /\ QueueCap \in Nat /\ SlotCount \in Nat
    /\ MaxMessages \in Nat /\ ChatOf \in [Message -> Chats]
BY GatewayAssumption DEF Message

LEMMA Shorter ==
    ASSUME NEW s \in Seq(Message), s # <<>>
    PROVE  /\ Head(s) \in Message /\ Tail(s) \in Seq(Message)
           /\ Len(Tail(s)) = Len(s) - 1 /\ Len(s) \in Nat
OBVIOUS

LEMMA Longer ==
    ASSUME NEW s \in Seq(Message), NEW m \in Message
    PROVE  /\ Append(s, m) \in Seq(Message)
           /\ Len(Append(s, m)) = Len(s) + 1 /\ Len(s) \in Nat
OBVIOUS

LEMMA Slots ==
    /\ SlotsTaken = Cardinality(Held)
    /\ IsFiniteSet(Held) /\ Cardinality(Held) \in Nat
<1>1. Held \subseteq Chats /\ IsFiniteSet(Chats)
    BY GatewayAssumption DEF Held
<1> QED
    BY <1>1, FS_Subset, FS_CardinalityType DEF SlotsTaken, Held

\* A handler that ends frees its slot.
LEMMA SlotFreed ==
    ASSUME NEW d \in Chats, handling \in [Chats -> Message \cup {None}],
           handling' = [handling EXCEPT ![d] = None]
    PROVE  SlotsTaken' \in Nat /\ SlotsTaken' <= SlotsTaken
<1>1. Held' \subseteq Held
    BY DEF Held
<1>2. IsFiniteSet(Held) /\ SlotsTaken = Cardinality(Held)
    BY Slots
<1>3. IsFiniteSet(Held') /\ Cardinality(Held') <= Cardinality(Held)
    BY <1>1, <1>2, FS_Subset
<1>4. SlotsTaken' = Cardinality(Held')
    BY DEF SlotsTaken, Held
<1>5. Cardinality(Held') \in Nat
    BY <1>3, FS_CardinalityType
<1> QED
    BY <1>2, <1>3, <1>4, <1>5

LEMMA SlotTaken ==
    ASSUME NEW d \in Chats, NEW m \in Message, handling \in [Chats -> Message \cup {None}],
           handling[d] = None, SlotsTaken < SlotCount,
           handling' = [handling EXCEPT ![d] = m]
    PROVE  SlotsTaken' <= SlotCount
<1>0. m # None
    BY DEF None, Message
<1>1. Held' = Held \cup {d} /\ d \notin Held
    BY <1>0 DEF Held
<1>2. IsFiniteSet(Held) /\ Cardinality(Held) \in Nat /\ SlotsTaken = Cardinality(Held)
    BY Slots
<1>3. Cardinality(Held \cup {d}) = Cardinality(Held) + 1
    BY <1>1, <1>2, FS_AddElement
<1>4. SlotsTaken' = Cardinality(Held')
    BY DEF SlotsTaken, Held
<1> QED
    BY <1>1, <1>2, <1>3, <1>4, Capacities

LEMMA TypesInitially == Init => TypeInv
<1> SUFFICES ASSUME Init PROVE TypeInv
    OBVIOUS
<1> USE Capacities
<1>1. <<>> \in Seq(Message) /\ Len(<<>>) = 0
    OBVIOUS
<1>2. \A c \in Chats : chatQ[c] = <<>> /\ handling[c] = None
    BY DEF Init
<1>3. SlotsTaken <= SlotCount
    <2>1. Held = {}
        BY <1>2 DEF Held
    <2> QED
        BY <2>1, Slots, FS_EmptySet
<1>4. /\ read \in 0 .. MaxMessages /\ submitting \in Message \cup {None}
      /\ inbound = <<>> /\ outbound = <<>> /\ delivered = <<>>
      /\ replying = {} /\ shut = {} /\ failed = {}
      /\ reading = FALSE /\ runState = "up"
    BY DEF Init
<1>5. chatQ \in [Chats -> Seq(Message)] /\ handling \in [Chats -> Message \cup {None}]
    BY <1>1 DEF Init
<1>6. TypeOK
    <2>1. /\ inbound \in Seq(Message) /\ Len(inbound) <= InCap
          /\ outbound \in Seq(Message) /\ Len(outbound) <= OutCap
          /\ delivered \in Seq(Message)
        BY <1>1, <1>4
    <2>2. ASSUME NEW c \in Chats PROVE chatQ[c] \in Seq(Message) /\ Len(chatQ[c]) <= QueueCap
        <3>1. chatQ[c] = <<>>
            BY <1>2
        <3> QED
            BY <1>1, <3>1
    <2>3. /\ reading \in BOOLEAN /\ replying \subseteq Chats /\ shut \subseteq Goroutines
          /\ failed \subseteq Message /\ runState \in {"up", "cancelled", "returned"}
        BY <1>4
    <2>4. read \in 0 .. MaxMessages /\ submitting \in Message \cup {None}
        BY <1>4
    <2> QED
        BY <1>3, <1>5, <2>1, <2>2, <2>3, <2>4 DEF TypeOK
<1> QED
    BY <1>4, <1>5, <1>6 DEF TypeInv

LEMMA TypesKept ==
    ASSUME TypeInv, [Next]_vars
    PROVE  TypeInv'
<1> USE Capacities
<1>0. /\ read \in 0 .. MaxMessages /\ reading \in BOOLEAN
      /\ inbound \in Seq(Message) /\ Len(inbound) <= InCap
      /\ submitting \in Message \cup {None}
      /\ chatQ \in [Chats -> Seq(Message)] /\ \A c \in Chats : Len(chatQ[c]) <= QueueCap
      /\ handling \in [Chats -> Message \cup {None}] /\ replying \subseteq Chats
      /\ SlotsTaken <= SlotCount
      /\ outbound \in Seq(Message) /\ Len(outbound) <= OutCap
      /\ delivered \in Seq(Message) /\ failed \subseteq Message
      /\ shut \subseteq Goroutines /\ runState \in {"up", "cancelled", "returned"}
      /\ reading => read # 0
      /\ \A c \in replying : handling[c] # None
    BY DEF TypeInv, TypeOK
<1>s. handling' = handling => SlotsTaken' = SlotsTaken
    BY DEF SlotsTaken
<1>1. CASE Read
    <2>1. read' \in 0 .. MaxMessages /\ read' # 0
        BY <1>0, <1>1 DEF Read
    <2> QED
        BY <1>0, <1>s, <1>1, <2>1 DEF Read, serving, sending, process, TypeInv, TypeOK
<1>2. CASE PutInbound
    <2>1. read \in Message
        BY <1>0, <1>2 DEF PutInbound, Message
    <2>2. inbound' \in Seq(Message) /\ Len(inbound') <= InCap
        BY <1>0, <1>2, <2>1, Longer DEF PutInbound
    <2> QED
        BY <1>0, <1>s, <1>2, <2>2 DEF PutInbound, serving, sending, process, TypeInv, TypeOK
<1>3. CASE Dispatch
    <2>1. /\ inbound' \in Seq(Message) /\ Len(inbound') <= InCap
          /\ Head(inbound) \in Message
        BY <1>0, <1>3, Shorter DEF Dispatch
    <2>2. submitting' \in Message \cup {None} /\ failed' \subseteq Message
        BY <1>0, <1>3, <2>1 DEF Dispatch
    <2> QED
        BY <1>0, <1>s, <1>3, <2>1, <2>2 DEF Dispatch, process, TypeInv, TypeOK
<1>4. CASE Enqueue
    <2> DEFINE d == ChatOf[submitting]
    <2>1. submitting \in Message /\ d \in Chats
        BY <1>0, <1>4 DEF Enqueue
    <2>2. /\ Append(chatQ[d], submitting) \in Seq(Message)
          /\ Len(Append(chatQ[d], submitting)) <= QueueCap
        BY <1>0, <1>4, <2>1, Longer DEF Enqueue
    <2>3. chatQ' = [chatQ EXCEPT ![d] = Append(chatQ[d], submitting)]
        BY <1>4 DEF Enqueue
    <2> HIDE DEF d
    <2>4. chatQ' \in [Chats -> Seq(Message)] /\ \A c \in Chats : Len(chatQ'[c]) <= QueueCap
        BY <1>0, <2>1, <2>2, <2>3
    <2> QED
        BY <1>0, <1>s, <1>4, <2>4 DEF Enqueue, intake, sending, process, TypeInv, TypeOK
<1>5. ASSUME NEW d \in Chats, StartTask(d) PROVE TypeInv'
    <2>1. /\ Head(chatQ[d]) \in Message
          /\ Tail(chatQ[d]) \in Seq(Message) /\ Len(Tail(chatQ[d])) <= QueueCap
        BY <1>0, <1>5, Shorter DEF StartTask
    <2>2. chatQ' \in [Chats -> Seq(Message)] /\ \A c \in Chats : Len(chatQ'[c]) <= QueueCap
        BY <1>0, <1>5, <2>1 DEF StartTask
    <2>3. SlotsTaken' <= SlotCount
        BY <1>0, <1>5, <2>1, SlotTaken DEF StartTask
    <2>4. /\ handling' \in [Chats -> Message \cup {None}]
          /\ \A c \in replying : handling'[c] # None
        <3>1. Head(chatQ[d]) # None
            BY <2>1 DEF Message, None
        <3> QED
            BY <1>0, <1>5, <2>1, <3>1 DEF StartTask
    <2> QED
        BY <1>0, <1>5, <2>2, <2>3, <2>4 DEF StartTask, intake, sending, process, TypeInv, TypeOK
<1>6. ASSUME NEW d \in Chats, HandlerFails(d) PROVE TypeInv'
    <2>1. SlotsTaken' <= SlotCount
        <3>1. handling' = [handling EXCEPT ![d] = None]
            BY <1>6 DEF HandlerFails
        <3>2. SlotsTaken' \in Nat /\ SlotsTaken' <= SlotsTaken
            BY <1>0, <3>1, SlotFreed
        <3>3. SlotsTaken \in Nat /\ SlotsTaken <= SlotCount
            BY <1>0, Slots
        <3> QED
            BY <3>2, <3>3
    <2>2. /\ handling' \in [Chats -> Message \cup {None}] /\ failed' \subseteq Message
          /\ \A c \in replying : handling'[c] # None
        BY <1>0, <1>6 DEF HandlerFails
    <2> QED
        BY <1>0, <1>6, <2>1, <2>2 DEF HandlerFails, intake, process, TypeInv, TypeOK
<1>7. ASSUME NEW d \in Chats, HandleMessage(d) PROVE TypeInv'
    BY <1>0, <1>s, <1>7 DEF HandleMessage, intake, sending, process, TypeInv, TypeOK
<1>8. ASSUME NEW d \in Chats, Reply(d) PROVE TypeInv'
    <2>1. SlotsTaken' <= SlotCount
        <3>1. handling' = [handling EXCEPT ![d] = None]
            BY <1>8 DEF Reply
        <3>2. SlotsTaken' \in Nat /\ SlotsTaken' <= SlotsTaken
            BY <1>0, <3>1, SlotFreed
        <3>3. SlotsTaken \in Nat /\ SlotsTaken <= SlotCount
            BY <1>0, Slots
        <3> QED
            BY <3>2, <3>3
    <2>2. handling[d] \in Message
        BY <1>0, <1>8 DEF Reply
    <2>3. outbound' \in Seq(Message) /\ Len(outbound') <= OutCap
        BY <1>0, <1>8, <2>2, Longer DEF Reply
    <2>4. /\ handling' \in [Chats -> Message \cup {None}] /\ replying' \subseteq Chats
          /\ \A c \in replying' : handling'[c] # None
        BY <1>0, <1>8 DEF Reply
    <2> QED
        BY <1>0, <1>8, <2>1, <2>3, <2>4 DEF Reply, intake, process, TypeInv, TypeOK
<1>9. CASE RouteOutbound
    <2>1. /\ outbound' \in Seq(Message) /\ Len(outbound') <= OutCap
          /\ Head(outbound) \in Message
        BY <1>0, <1>9, Shorter DEF RouteOutbound
    <2>2. delivered' \in Seq(Message) /\ failed' \subseteq Message
        BY <1>0, <1>9, <2>1, Longer DEF RouteOutbound
    <2> QED
        BY <1>0, <1>s, <1>9, <2>1, <2>2 DEF RouteOutbound, intake, serving, process, TypeInv, TypeOK
<1>10. CASE Cancel
    BY <1>0, <1>s, <1>10 DEF Cancel, intake, serving, sending, TypeInv, TypeOK
<1>11. ASSUME NEW g \in Goroutines, Leave(g) PROVE TypeInv'
    BY <1>0, <1>s, <1>11 DEF Leave, intake, serving, sending, TypeInv, TypeOK
<1>12. CASE Return
    BY <1>0, <1>s, <1>12 DEF Return, intake, serving, sending, TypeInv, TypeOK
<1>13. CASE UNCHANGED vars
    BY <1>0, <1>s, <1>13 DEF vars, intake, serving, sending, process, TypeInv, TypeOK
<1> QED
    BY <1>1, <1>2, <1>3, <1>4, <1>5, <1>6, <1>7, <1>8, <1>9, <1>10, <1>11, <1>12, <1>13
    DEF Next, Runs

\* Types and ranges (TypeOK): no send finds a channel of the bus or of a chat
\* fuller than it can be, and never are more handlers at work, or at their send
\* on Outbound, than maxConcurrent allows.
THEOREM TypeCorrect == Spec => []TypeOK
<1>1. TypeInv => TypeOK
    BY DEF TypeInv
<1> QED
    BY <1>1, TypesInitially, TypesKept, PTL DEF Spec

==================================================================================
