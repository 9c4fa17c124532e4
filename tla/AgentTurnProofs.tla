----------------------------- MODULE AgentTurnProofs -----------------------------
(***************************************************************************)
(* Theorems about AgentTurn, for any number of turns, signatures, calls    *)
(* and iterations, and whatever disturbs them.                             *)
(*                                                                         *)
(* 1. The loop detection works (NoLoopExecuted).  It looks at one call at  *)
(*    a time and executes the calls of a response only when it has looked  *)
(*    at all of them, so the invariant is about the calls looked at: those *)
(*    executed, then those checked in the current response.                *)
(*                                                                         *)
(* 2. Types (TypeCorrect), which rest on the first part.                   *)
(*                                                                         *)
(* 3. Requests and histories are well formed (RequestsAccepted,            *)
(*    PromptShowsHistory, HistoryStaysWellFormed).  Inside a round a list  *)
(*    is not well formed, and what it lacks is known: either no call of    *)
(*    its last round is answered yet and that round is the one the turn    *)
(*    checks, or what is unanswered is exactly the results the turn still  *)
(*    has to append (Partial, Awaiting).  The same is true of two lists,   *)
(*    the prompt and the history, for different reasons: the prompt is the *)
(*    turn's own; the history is as long as the turn is alone, which is    *)
(*    over when another one enters (AloneInv).                             *)
(***************************************************************************)
EXTENDS AgentTurn, WellFoundedInduction, TLAPS

Busy == {"request", "check", "results"}

CallSeqs == Seq([id : Nat, sig : Sigs])

LEMMA SeqElement ==
    ASSUME NEW R, NEW s \in Seq(R), NEW i \in 1 .. Len(s)
    PROVE  s[i] \in R
OBVIOUS

LEMMA EmptyCalls == <<>> \in CallSeqs
BY DEF CallSeqs

\* The types the argument needs.
LoopTypes ==
    /\ lastId \in Nat
    /\ pc \in [Turns -> Loc]
    /\ lastSig \in [Turns -> Sigs \cup {NoSig}]
    /\ consecutive \in [Turns -> Nat]
    /\ calls \in [Turns -> CallSeqs]
    /\ checked \in [Turns -> Nat]
    /\ ran \in [Turns -> Seq(Sigs)]

\* The calls turn t has looked at: how many, and the signature of each.
Checked(t) == IF pc[t] = "check" THEN checked[t] ELSE 0
Seen(t)    == Len(ran[t]) + Checked(t)
SigOf(t, i) == IF i <= Len(ran[t]) THEN ran[t][i] ELSE calls[t][i - Len(ran[t])].sig

\* A turn that has not made a request starts from the zero values.
FreshInv(t) ==
    pc[t] \in {"idle", "read", "trim"} =>
        /\ ran[t] = <<>>
        /\ consecutive[t] = 0
        /\ lastSig[t] = NoSig
        /\ calls[t] = <<>>
        /\ checked[t] = 0

\* Calls are checked one after the other, from the first of each response.
CheckedInv(t) ==
    /\ pc[t] = "request" => calls[t] = <<>> /\ checked[t] = 0
    /\ pc[t] = "check" => checked[t] <= Len(calls[t])

\* lastSig and consecutive describe the run of identical calls at the end.
RunInv(t) ==
    pc[t] \in Busy =>
        /\ consecutive[t] <= 2
        /\ Seen(t) = 0 => consecutive[t] = 0 /\ lastSig[t] = NoSig
        /\ Seen(t) > 0 => consecutive[t] > 0 /\ lastSig[t] = SigOf(t, Seen(t))
        /\ Seen(t) > 1 /\ consecutive[t] = 1 => SigOf(t, Seen(t) - 1) # lastSig[t]
        /\ Seen(t) > 2 /\ consecutive[t] = 2 => SigOf(t, Seen(t) - 2) # lastSig[t]

\* No three in a row among the calls looked at.
NoTriple(t) ==
    \A i \in 1 .. Seen(t) - 2 :
        ~(SigOf(t, i) = SigOf(t, i + 1) /\ SigOf(t, i) = SigOf(t, i + 2))

TurnInv(t) == FreshInv(t) /\ CheckedInv(t) /\ RunInv(t) /\ NoTriple(t)

LoopInv == LoopTypes /\ \A t \in Turns : TurnInv(t)

\* What TurnInv(t) is about.
Same(t) ==
    /\ lastSig'[t] = lastSig[t]
    /\ consecutive'[t] = consecutive[t]
    /\ calls'[t] = calls[t]
    /\ checked'[t] = checked[t]
    /\ ran'[t] = ran[t]

--------------------------------------------------------------------------------
(***************************************************************************)
(* Steps that leave a turn's part of the detection alone.                  *)
(***************************************************************************)

LEMMA SameSigs ==
    ASSUME NEW t \in Turns, Same(t), Checked(t)' = Checked(t)
    PROVE  /\ Seen(t)' = Seen(t)
           /\ \A i : SigOf(t, i)' = SigOf(t, i)
BY DEF Same, Seen, SigOf

\* Another turn's step.
LEMMA Frame ==
    ASSUME NEW t \in Turns, TurnInv(t), Same(t), pc'[t] = pc[t]
    PROVE  TurnInv(t)'
<1>1. Checked(t)' = Checked(t)
    BY DEF Checked, Same
<1>2. Seen(t)' = Seen(t) /\ \A i : SigOf(t, i)' = SigOf(t, i)
    BY <1>1, SameSigs
<1>3. FreshInv(t)' /\ CheckedInv(t)'
    BY DEF TurnInv, FreshInv, CheckedInv, Same
<1>4. RunInv(t)'
    BY <1>2 DEF TurnInv, RunInv, Same
<1>5. NoTriple(t)'
    BY <1>2 DEF TurnInv, NoTriple
<1> QED
    BY <1>3, <1>4, <1>5 DEF TurnInv

\* A step of the turn itself that only moves on.
LEMMA Move ==
    ASSUME NEW t \in Turns, LoopTypes, TurnInv(t), Same(t),
           pc[t] # "check", pc'[t] # "check",
           pc'[t] \in {"idle", "read", "trim"} => pc[t] \in {"idle", "read", "trim"},
           pc'[t] = "request" => pc[t] = "read",
           pc'[t] = "results" => pc[t] = "results"
    PROVE  TurnInv(t)'
<1>1. Checked(t)' = Checked(t)
    BY DEF Checked
<1>2. Seen(t)' = Seen(t) /\ \A i : SigOf(t, i)' = SigOf(t, i)
    BY <1>1, SameSigs
<1>3. FreshInv(t)' /\ CheckedInv(t)'
    BY DEF TurnInv, FreshInv, CheckedInv, Same
<1>4. RunInv(t)'
    <2>1. CASE pc'[t] = "request"
        <3>1. Seen(t) = 0
            BY <2>1 DEF TurnInv, FreshInv, Seen, Checked
        <3> QED
            BY <2>1, <3>1, <1>2 DEF TurnInv, FreshInv, RunInv, Same
    <2>2. CASE pc'[t] = "results"
        BY <2>2, <1>2 DEF TurnInv, RunInv, Same, Busy
    <2>3. CASE pc'[t] \notin {"request", "results"}
        BY <2>3 DEF RunInv, Busy
    <2> QED
        BY <2>1, <2>2, <2>3
<1>5. NoTriple(t)'
    BY <1>2 DEF TurnInv, NoTriple
<1> QED
    BY <1>3, <1>4, <1>5 DEF TurnInv

\* Turns that are over start afresh.
LEMMA Forgotten ==
    ASSUME LoopInv, NEW S \in SUBSET Turns, Forget(S), UNCHANGED lastId
    PROVE  LoopInv'
<1>1. LoopTypes'
    <2> USE DEF LoopInv, LoopTypes, Forget
    <2>0. lastId' \in Nat
        OBVIOUS
    <2>1. pc' \in [Turns -> Loc]
        BY DEF Loc
    <2>2. lastSig' \in [Turns -> Sigs \cup {NoSig}]
        OBVIOUS
    <2>3. consecutive' \in [Turns -> Nat] /\ checked' \in [Turns -> Nat]
        OBVIOUS
    <2>4. calls' \in [Turns -> CallSeqs]
        BY EmptyCalls
    <2>5. ran' \in [Turns -> Seq(Sigs)]
        OBVIOUS
    <2> QED
        BY <2>0, <2>1, <2>2, <2>3, <2>4, <2>5
<1>2. ASSUME NEW t \in Turns PROVE TurnInv(t)'
    <2>1. CASE t \in S
        <3>1. /\ pc'[t] = "idle" /\ ran'[t] = <<>> /\ consecutive'[t] = 0
              /\ lastSig'[t] = NoSig /\ calls'[t] = <<>> /\ checked'[t] = 0
            BY <2>1 DEF Forget
        <3>2. Seen(t)' = 0
            BY <3>1 DEF Seen, Checked
        <3> QED
            BY <3>1, <3>2 DEF TurnInv, FreshInv, CheckedInv, RunInv, NoTriple, Busy
    <2>2. CASE t \notin S
        <3>1. Same(t) /\ pc'[t] = pc[t]
            BY <2>2 DEF Forget, Same
        <3> QED
            BY <3>1, Frame DEF LoopInv
    <2> QED
        BY <2>1, <2>2
<1> QED
    BY <1>1, <1>2 DEF LoopInv

\* The steps that only move turn t on.
LEMMA MoveStep ==
    ASSUME LoopInv, NEW t \in Turns, NEW loc \in Loc, Goto(t, loc),
           UNCHANGED <<lastId, lastSig, consecutive, calls, checked, ran>>,
           pc[t] # "check", loc # "check",
           loc \in {"idle", "read", "trim"} => pc[t] \in {"idle", "read", "trim"},
           loc = "request" => pc[t] = "read",
           loc = "results" => pc[t] = "results"
    PROVE  LoopInv'
<1>1. LoopTypes'
    BY DEF LoopInv, LoopTypes, Goto
<1>2. ASSUME NEW u \in Turns PROVE TurnInv(u)'
    <2>1. Same(u) /\ TurnInv(u)
        BY DEF Same, LoopInv
    <2>2. CASE u = t
        <3>1. pc'[t] = loc
            BY DEF Goto, LoopInv, LoopTypes
        <3> QED
            BY <2>1, <2>2, <3>1, Move DEF LoopInv
    <2>3. CASE u # t
        <3>1. pc'[u] = pc[u]
            BY <2>3 DEF Goto, LoopInv, LoopTypes
        <3> QED
            BY <2>1, <3>1, Frame
    <2> QED
        BY <2>2, <2>3
<1> QED
    BY <1>1, <1>2 DEF LoopInv

\* Steps that leave the turns where they are.
LEMMA Stutter ==
    ASSUME LoopInv, UNCHANGED <<lastId, pc, lastSig, consecutive, calls, checked, ran>>
    PROVE  LoopInv'
<1>1. LoopTypes'
    BY DEF LoopInv, LoopTypes
<1>2. ASSUME NEW u \in Turns PROVE TurnInv(u)'
    BY Frame DEF LoopInv, Same
<1> QED
    BY <1>1, <1>2 DEF LoopInv

--------------------------------------------------------------------------------
(***************************************************************************)
(* The steps of the detection.                                             *)
(***************************************************************************)

LEMMA ModelCallsToolsStep ==
    ASSUME LoopInv, NEW t \in Turns, ModelCallsTools(t)
    PROVE  LoopInv'
<1>1. PICK sigs \in Responses :
        /\ lastId' = lastId + Len(sigs)
        /\ calls' = [calls EXCEPT ![t] =
                        [i \in DOMAIN sigs |-> [id |-> lastId + i, sig |-> sigs[i]]]]
    BY DEF ModelCallsTools
<1>2. sigs \in Seq(Sigs) /\ Len(sigs) \in Nat /\ DOMAIN sigs = 1 .. Len(sigs)
    BY TurnAssumption DEF Responses
<1>3. /\ pc' = [pc EXCEPT ![t] = "check"] /\ pc[t] = "request"
      /\ UNCHANGED <<lastSig, consecutive, checked, ran>>
    BY DEF ModelCallsTools, Goto
<1>4. calls'[t] \in CallSeqs
    <2>1. calls'[t] = [i \in 1 .. Len(sigs) |-> [id |-> lastId + i, sig |-> sigs[i]]]
        BY <1>1, <1>2 DEF LoopInv, LoopTypes
    <2>2. \A i \in 1 .. Len(sigs) :
            [id |-> lastId + i, sig |-> sigs[i]] \in [id : Nat, sig : Sigs]
        BY <1>2 DEF LoopInv, LoopTypes
    <2> QED
        BY <2>1, <2>2, <1>2 DEF CallSeqs
<1>5. LoopTypes'
    <2>1. lastId' \in Nat
        BY <1>1, <1>2 DEF LoopInv, LoopTypes
    <2>2. calls' \in [Turns -> CallSeqs]
        BY <1>1, <1>4 DEF LoopInv, LoopTypes
    <2> QED
        BY <2>1, <2>2, <1>3 DEF LoopInv, LoopTypes, Loc
<1>6. TurnInv(t)'
    <2>1. TurnInv(t)
        BY DEF LoopInv
    <2>2. calls[t] = <<>> /\ checked[t] = 0 /\ checked'[t] = 0 /\ ran'[t] = ran[t]
        BY <2>1, <1>3 DEF TurnInv, CheckedInv
    <2>3. pc'[t] = "check"
        BY <1>3 DEF LoopInv, LoopTypes
    <2>4. Len(ran[t]) \in Nat
        BY DEF LoopInv, LoopTypes
    <2>5. Seen(t) = Len(ran[t]) /\ Seen(t)' = Len(ran[t])
        BY <1>3, <2>2, <2>3, <2>4 DEF Seen, Checked
    <2>6. \A i : i <= Len(ran[t]) => SigOf(t, i) = ran[t][i] /\ SigOf(t, i)' = ran[t][i]
        BY <2>2 DEF SigOf
    <2>7. FreshInv(t)'
        BY <2>3 DEF FreshInv
    <2>8. CheckedInv(t)'
        <3>1. Len(calls'[t]) \in Nat
            BY <1>4 DEF CallSeqs
        <3> QED
            BY <2>2, <2>3, <3>1 DEF CheckedInv
    <2>9. RunInv(t)'
        BY <1>3, <2>1, <2>3, <2>4, <2>5, <2>6 DEF TurnInv, RunInv, Busy
    <2>10. NoTriple(t)'
        BY <2>1, <2>4, <2>5, <2>6 DEF TurnInv, NoTriple
    <2> QED
        BY <2>7, <2>8, <2>9, <2>10 DEF TurnInv
<1>7. ASSUME NEW u \in Turns, u # t PROVE TurnInv(u)'
    <2>1. Same(u) /\ pc'[u] = pc[u] /\ TurnInv(u)
        BY <1>1, <1>3, <1>7 DEF Same, LoopInv, LoopTypes
    <2> QED
        BY <2>1, Frame
<1> QED
    BY <1>5, <1>6, <1>7 DEF LoopInv

LEMMA CheckCallStep ==
    ASSUME LoopInv, NEW t \in Turns, CheckCall(t)
    PROVE  LoopInv'
<1> DEFINE next == calls[t][checked[t] + 1].sig
<1>1. /\ pc[t] = "check" /\ checked[t] < Len(calls[t])
      /\ lastSig' = [lastSig EXCEPT ![t] = next]
      /\ consecutive' = [consecutive EXCEPT ![t] = RunLength(t)]
      /\ checked' = [checked EXCEPT ![t] = @ + 1]
      /\ UNCHANGED <<lastId, calls, ran>>
    BY DEF CheckCall
<1>2. /\ TurnInv(t) /\ Len(ran[t]) \in Nat /\ checked[t] \in Nat
      /\ consecutive[t] \in Nat /\ Len(calls[t]) \in Nat
    BY DEF LoopInv, LoopTypes, CallSeqs
<1>3. next \in Sigs
    <2>1. checked[t] + 1 \in 1 .. Len(calls[t])
        BY <1>1, <1>2
    <2>2. calls[t] \in CallSeqs
        BY DEF LoopInv, LoopTypes
    <2>3. calls[t][checked[t] + 1] \in [id : Nat, sig : Sigs]
        BY <2>1, <2>2, SeqElement DEF CallSeqs
    <2> QED
        BY <2>3
<1>4. RunLength(t) \in Nat /\ RunLength(t) >= 1
    BY <1>2 DEF RunLength
<1>5. \/ RunLength(t) >= 3 /\ (pc' = [pc EXCEPT ![t] = "pad"] \/ pc' = [pc EXCEPT ![t] = "return"])
      \/ RunLength(t) < 3 /\ pc' = pc
    BY <1>4 DEF CheckCall, Return, Goto
<1>6. LoopTypes'
    <2>1. lastSig' \in [Turns -> Sigs \cup {NoSig}]
        BY <1>1, <1>3 DEF LoopInv, LoopTypes
    <2>2. consecutive' \in [Turns -> Nat]
        BY <1>1, <1>4 DEF LoopInv, LoopTypes
    <2>3. checked' \in [Turns -> Nat]
        BY <1>1 DEF LoopInv, LoopTypes
    <2>4. pc' \in [Turns -> Loc]
        BY <1>5 DEF LoopInv, LoopTypes, Loc
    <2> QED
        BY <1>1, <2>1, <2>2, <2>3, <2>4 DEF LoopInv, LoopTypes
<1>7. /\ lastSig'[t] = next /\ consecutive'[t] = RunLength(t) /\ checked'[t] = checked[t] + 1
      /\ ran'[t] = ran[t] /\ calls'[t] = calls[t]
    BY <1>1 DEF LoopInv, LoopTypes
<1>8. Seen(t) = Len(ran[t]) + checked[t]
    BY <1>1 DEF Seen, Checked
<1>9. \A i : SigOf(t, i)' = SigOf(t, i)
    BY <1>7 DEF SigOf
<1>10. TurnInv(t)'
    <2>1. CASE RunLength(t) >= 3
        <3>1. pc'[t] \in {"pad", "return"}
            BY <1>4, <1>5, <2>1 DEF LoopInv, LoopTypes
        <3>2. Seen(t)' = Len(ran[t])
            BY <1>2, <1>7, <3>1 DEF Seen, Checked
        <3>3. NoTriple(t)'
            BY <1>2, <1>8, <1>9, <3>2 DEF TurnInv, NoTriple
        <3> QED
            BY <3>1, <3>3 DEF TurnInv, FreshInv, CheckedInv, RunInv, Busy
    <2>2. CASE RunLength(t) < 3
        <3>1. pc'[t] = "check"
            BY <1>1, <1>4, <1>5, <2>2
        <3>2. Seen(t)' = Seen(t) + 1 /\ Seen(t) \in Nat
            BY <1>2, <1>7, <1>8, <3>1 DEF Seen, Checked
        <3>3. SigOf(t, Seen(t) + 1) = next
            BY <1>2, <1>8 DEF SigOf
        <3>4. RunInv(t)
            BY <1>2 DEF TurnInv
        <3>5. RunInv(t)'
            <4>1. CASE next = lastSig[t]
                <5>1. consecutive'[t] = consecutive[t] + 1
                    BY <1>7, <4>1 DEF RunLength
                <5>2. Seen(t) > 0 /\ consecutive[t] = 1
                    BY <1>1, <1>2, <1>3, <1>7, <2>2, <3>2, <3>4, <4>1, <5>1, TurnAssumption
                        DEF RunInv, Busy
                <5> QED
                    BY <1>1, <1>7, <1>9, <3>1, <3>2, <3>3, <3>4, <4>1, <5>1, <5>2 DEF RunInv, Busy
            <4>2. CASE next # lastSig[t]
                <5>1. consecutive'[t] = 1
                    BY <1>7, <4>2 DEF RunLength
                <5> QED
                    BY <1>1, <1>7, <1>9, <3>1, <3>2, <3>3, <3>4, <4>2, <5>1 DEF RunInv, Busy
            <4> QED
                BY <4>1, <4>2
        <3>6. NoTriple(t)'
            <4>1. SUFFICES ASSUME NEW i \in 1 .. Seen(t) - 1,
                                  SigOf(t, i) = SigOf(t, i + 1), SigOf(t, i) = SigOf(t, i + 2)
                           PROVE  FALSE
                BY <1>9, <3>2 DEF NoTriple
            <4>2. CASE i + 2 <= Seen(t)
                <5>1. i \in 1 .. Seen(t) - 2 /\ NoTriple(t)
                    BY <1>2, <3>2, <4>2 DEF TurnInv
                <5> QED
                    BY <4>1, <5>1 DEF NoTriple
            <4>3. CASE i + 2 = Seen(t) + 1
                <5>1. i = Seen(t) - 1 /\ Seen(t) > 1
                    BY <3>2, <4>3
                <5>2. next = lastSig[t] /\ SigOf(t, Seen(t) - 1) = lastSig[t]
                    BY <1>1, <3>2, <3>3, <3>4, <4>1, <4>3, <5>1 DEF RunInv, Busy
                <5>3. consecutive[t] = 2
                    BY <1>1, <1>2, <3>2, <3>4, <5>1, <5>2 DEF RunInv, Busy
                <5> QED
                    BY <2>2, <5>2, <5>3 DEF RunLength
            <4> QED
                BY <3>2, <4>2, <4>3
        <3>7. FreshInv(t)' /\ CheckedInv(t)'
            BY <1>1, <1>2, <1>7, <3>1 DEF FreshInv, CheckedInv
        <3> QED
            BY <3>5, <3>6, <3>7 DEF TurnInv
    <2> QED
        BY <1>4, <2>1, <2>2
<1>11. ASSUME NEW u \in Turns, u # t PROVE TurnInv(u)'
    <2>1. Same(u) /\ pc'[u] = pc[u] /\ TurnInv(u)
        BY <1>1, <1>5, <1>11 DEF Same, LoopInv, LoopTypes
    <2> QED
        BY <2>1, Frame
<1> QED
    BY <1>6, <1>10, <1>11 DEF LoopInv

LEMMA ExecuteToolsStep ==
    ASSUME LoopInv, NEW t \in Turns, ExecuteTools(t)
    PROVE  LoopInv'
<1> DEFINE sigs == [i \in DOMAIN calls[t] |-> calls[t][i].sig]
<1>1. /\ pc[t] = "check" /\ checked[t] = Len(calls[t])
      /\ ran' = [ran EXCEPT ![t] = @ \o sigs]
      /\ pc' = [pc EXCEPT ![t] = "results"]
      /\ UNCHANGED <<lastId, lastSig, consecutive, calls, checked>>
    BY DEF ExecuteTools, Goto
<1>2. /\ TurnInv(t) /\ ran[t] \in Seq(Sigs) /\ calls[t] \in CallSeqs
      /\ Len(ran[t]) \in Nat /\ checked[t] \in Nat
    BY DEF LoopInv, LoopTypes
<1>3. /\ sigs \in Seq(Sigs) /\ Len(sigs) = checked[t]
      /\ \A i \in 1 .. checked[t] : sigs[i] = calls[t][i].sig
    <2>1. DOMAIN calls[t] = 1 .. checked[t]
        BY <1>1, <1>2 DEF CallSeqs
    <2>2. \A i \in 1 .. checked[t] : calls[t][i] \in [id : Nat, sig : Sigs]
        BY <1>1, <1>2, SeqElement DEF CallSeqs
    <2>3. \A i \in 1 .. checked[t] : calls[t][i].sig \in Sigs
        BY <2>2
    <2> QED
        BY <1>2, <2>1, <2>3
<1> HIDE DEF sigs
<1>4. LoopTypes'
    <2>1. ran' \in [Turns -> Seq(Sigs)]
        BY <1>1, <1>2, <1>3 DEF LoopInv, LoopTypes
    <2> QED
        BY <1>1, <2>1 DEF LoopInv, LoopTypes, Loc
<1>5. /\ ran'[t] = ran[t] \o sigs /\ pc'[t] = "results" /\ calls'[t] = calls[t]
      /\ lastSig'[t] = lastSig[t] /\ consecutive'[t] = consecutive[t]
    BY <1>1 DEF LoopInv, LoopTypes
<1>6. /\ Len(ran'[t]) = Len(ran[t]) + checked[t]
      /\ \A i \in 1 .. Len(ran[t]) : ran'[t][i] = ran[t][i]
      /\ \A i \in 1 .. checked[t] : ran'[t][Len(ran[t]) + i] = calls[t][i].sig
    <2>1. sigs \in Seq(Sigs) /\ Len(sigs) = checked[t]
        BY <1>3
    <2>2. /\ Len(ran[t] \o sigs) = Len(ran[t]) + Len(sigs)
          /\ \A i \in 1 .. Len(ran[t]) : (ran[t] \o sigs)[i] = ran[t][i]
          /\ \A i \in 1 .. Len(sigs) : (ran[t] \o sigs)[Len(ran[t]) + i] = sigs[i]
        <3>1. ran[t] \in Seq(Sigs) /\ sigs \in Seq(Sigs)
            BY <1>2, <2>1
        <3>2. Len(ran[t] \o sigs) = Len(ran[t]) + Len(sigs)
            BY <3>1
        <3>3. \A i \in 1 .. Len(ran[t]) : (ran[t] \o sigs)[i] = ran[t][i]
            BY <3>1
        <3>4. \A i \in 1 .. Len(sigs) : (ran[t] \o sigs)[Len(ran[t]) + i] = sigs[i]
            BY <3>1
        <3> QED
            BY <3>2, <3>3, <3>4
    <2> QED
        BY <1>3, <1>5, <2>1, <2>2
<1>7. Seen(t)' = Len(ran[t]) + checked[t] /\ Seen(t) = Len(ran[t]) + checked[t]
    <2>1. Checked(t)' = 0 /\ Checked(t) = checked[t]
        BY <1>1, <1>5 DEF Checked
    <2> QED
        BY <1>2, <1>6, <2>1 DEF Seen
<1>8. \A i \in 1 .. Seen(t) : SigOf(t, i)' = SigOf(t, i)
    <2>1. SUFFICES ASSUME NEW i \in 1 .. Seen(t) PROVE SigOf(t, i)' = SigOf(t, i)
        OBVIOUS
    <2>2. i \in Nat /\ i <= Len(ran'[t]) /\ SigOf(t, i)' = ran'[t][i]
        BY <1>2, <1>6, <1>7 DEF SigOf
    <2>3. CASE i <= Len(ran[t])
        BY <1>2, <1>6, <2>2, <2>3 DEF SigOf
    <2>4. CASE i > Len(ran[t])
        <3>1. PICK j \in 1 .. checked[t] : i = Len(ran[t]) + j
            <4>1. i - Len(ran[t]) \in 1 .. checked[t] /\ i = Len(ran[t]) + (i - Len(ran[t]))
                BY <1>2, <1>7, <2>4
            <4> QED
                BY <4>1
        <3>2. i - Len(ran[t]) = j
            BY <1>2, <3>1
        <3> QED
            BY <1>6, <2>2, <2>4, <1>2, <3>1, <3>2 DEF SigOf
    <2> QED
        BY <1>2, <2>2, <2>3, <2>4
<1>9. TurnInv(t)'
    <2>1. RunInv(t)'
        <3>1. RunInv(t) /\ pc[t] \in Busy
            BY <1>1, <1>2 DEF TurnInv, Busy
        <3>2. Seen(t) \in Nat /\ Seen(t)' = Seen(t)
            BY <1>2, <1>7
        <3>3. Seen(t) > 0 => SigOf(t, Seen(t))' = SigOf(t, Seen(t))
            BY <1>8, <3>2
        <3>4. Seen(t) > 1 => SigOf(t, Seen(t) - 1)' = SigOf(t, Seen(t) - 1)
            BY <1>8, <3>2
        <3>5. Seen(t) > 2 => SigOf(t, Seen(t) - 2)' = SigOf(t, Seen(t) - 2)
            BY <1>8, <3>2
        <3> QED
            BY <1>5, <3>1, <3>2, <3>3, <3>4, <3>5 DEF RunInv
    <2>2. NoTriple(t)'
        BY <1>2, <1>7, <1>8 DEF TurnInv, NoTriple
    <2> QED
        BY <1>5, <2>1, <2>2 DEF TurnInv, FreshInv, CheckedInv
<1>10. ASSUME NEW u \in Turns, u # t PROVE TurnInv(u)'
    <2>1. Same(u) /\ pc'[u] = pc[u] /\ TurnInv(u)
        BY <1>1, <1>10 DEF Same, LoopInv, LoopTypes
    <2> QED
        BY <2>1, Frame
<1> QED
    BY <1>4, <1>9, <1>10 DEF LoopInv

LEMMA NextIterationStep ==
    ASSUME LoopInv, NEW t \in Turns, NextIteration(t)
    PROVE  LoopInv'
<1>1. /\ pc[t] = "results"
      /\ calls' = [calls EXCEPT ![t] = <<>>]
      /\ checked' = [checked EXCEPT ![t] = 0]
      /\ \E loc \in {"pad", "return", "request"} : pc' = [pc EXCEPT ![t] = loc]
      /\ UNCHANGED <<lastId, lastSig, consecutive, ran>>
    BY DEF NextIteration, Return, Goto
<1>2. LoopTypes'
    <2>1. calls' \in [Turns -> CallSeqs]
        BY <1>1, EmptyCalls DEF LoopInv, LoopTypes
    <2> QED
        BY <1>1, <2>1 DEF LoopInv, LoopTypes, Loc
<1>3. /\ pc'[t] \in {"pad", "return", "request"} /\ calls'[t] = <<>> /\ checked'[t] = 0
      /\ ran'[t] = ran[t] /\ lastSig'[t] = lastSig[t] /\ consecutive'[t] = consecutive[t]
      /\ TurnInv(t) /\ Len(ran[t]) \in Nat
    BY <1>1 DEF LoopInv, LoopTypes
<1>4. Seen(t)' = Len(ran[t]) /\ Seen(t) = Len(ran[t])
    BY <1>1, <1>3 DEF Seen, Checked
<1>5. \A i : i <= Len(ran[t]) => SigOf(t, i) = ran[t][i] /\ SigOf(t, i)' = ran[t][i]
    BY <1>3 DEF SigOf
<1>6. RunInv(t)'
    <2>1. RunInv(t) /\ pc[t] \in Busy
        BY <1>1, <1>3 DEF TurnInv, Busy
    <2> QED
        BY <1>3, <1>4, <1>5, <2>1 DEF RunInv
<1>7. NoTriple(t)'
    BY <1>3, <1>4, <1>5 DEF TurnInv, NoTriple
<1>8. TurnInv(t)'
    BY <1>3, <1>6, <1>7 DEF TurnInv, FreshInv, CheckedInv
<1>9. ASSUME NEW u \in Turns, u # t PROVE TurnInv(u)'
    <2>1. Same(u) /\ pc'[u] = pc[u] /\ TurnInv(u)
        BY <1>1, <1>9 DEF Same, LoopInv, LoopTypes
    <2> QED
        BY <2>1, Frame
<1> QED
    BY <1>2, <1>8, <1>9 DEF LoopInv

--------------------------------------------------------------------------------
(***************************************************************************)
(* The theorem.                                                            *)
(***************************************************************************)

LEMMA LoopInvInit == Init => LoopInv
<1> SUFFICES ASSUME Init PROVE LoopInv
    OBVIOUS
<1>1. LoopTypes
    BY EmptyCalls DEF Init, LoopTypes, Loc
<1>2. ASSUME NEW t \in Turns PROVE TurnInv(t)
    <2>1. /\ pc[t] = "idle" /\ ran[t] = <<>> /\ consecutive[t] = 0
          /\ lastSig[t] = NoSig /\ calls[t] = <<>> /\ checked[t] = 0
        BY DEF Init
    <2>2. Seen(t) = 0
        BY <2>1 DEF Seen, Checked
    <2> QED
        BY <2>1, <2>2 DEF TurnInv, FreshInv, CheckedInv, RunInv, NoTriple, Busy
<1> QED
    BY <1>1, <1>2 DEF LoopInv

LEMMA TurnStepKeeps ==
    ASSUME LoopInv, NEW t \in Turns, TurnStep(t)
    PROVE  LoopInv'
<1> USE DEF local, Loc
<1>1. CASE \E k \in {"full", "stream"} : BeginTurn(t, k)
    <2>1. pc[t] = "idle" /\ Goto(t, "read")
        BY <1>1 DEF BeginTurn, Enter
    <2> QED
        BY <1>1, <2>1, MoveStep DEF BeginTurn
<1>2. CASE ReadHistory(t)
    BY <1>2, MoveStep DEF ReadHistory
<1>3. CASE ModelFails(t)
    BY <1>3, MoveStep DEF ModelFails, Return
<1>4. CASE ModelAnswers(t)
    BY <1>4, MoveStep DEF ModelAnswers, Return
<1>5. CASE StreamRefused(t)
    BY <1>5, MoveStep DEF StreamRefused, Return
<1>6. CASE ModelCallsTools(t)
    BY <1>6, ModelCallsToolsStep
<1>7. CASE CheckCall(t)
    BY <1>7, CheckCallStep
<1>8. CASE ExecuteTools(t)
    BY <1>8, ExecuteToolsStep
<1>9. CASE AppendResult(t)
    BY <1>9, Stutter DEF AppendResult
<1>10. CASE NextIteration(t)
    BY <1>10, NextIterationStep
<1>11. CASE FindOrphans(t)
    BY <1>11, MoveStep DEF FindOrphans
<1>12. CASE PadOrphan(t)
    BY <1>12, Stutter DEF PadOrphan
<1>13. CASE EndTurn(t)
    BY <1>13, Forgotten DEF EndTurn
<1>14. CASE StreamEnds(t)
    BY <1>14, Forgotten DEF StreamEnds
<1>15. CASE StreamDropped(t)
    BY <1>15, Forgotten DEF StreamDropped
<1> QED
    BY <1>1, <1>2, <1>3, <1>4, <1>5, <1>6, <1>7, <1>8, <1>9, <1>10, <1>11, <1>12,
       <1>13, <1>14, <1>15 DEF TurnStep

LEMMA CommandStepKeeps ==
    ASSUME LoopInv, NEW t \in Turns, CommandStep(t)
    PROVE  LoopInv'
<1> USE DEF local, Loc
<1>1. CASE ClearHistory(t)
    BY <1>1, Stutter DEF ClearHistory
<1>2. CASE RetryReads(t)
    BY <1>2, MoveStep DEF RetryReads, Enter
<1>3. CASE RetryTrims(t)
    BY <1>3, MoveStep DEF RetryTrims
<1> QED
    BY <1>1, <1>2, <1>3 DEF CommandStep

LEMMA LoopInvStep == LoopInv /\ [Next]_vars => LoopInv'
<1> SUFFICES ASSUME LoopInv, [Next]_vars PROVE LoopInv'
    OBVIOUS
<1>1. CASE \E t \in Turns : TurnStep(t) \/ CommandStep(t)
    BY <1>1, TurnStepKeeps, CommandStepKeeps
<1>2. CASE Inject
    BY <1>2, Stutter DEF Inject, local
<1>3. CASE Crash
    BY <1>3, Forgotten DEF Crash
<1>4. CASE AllServed \/ UNCHANGED vars
    BY <1>4, Stutter DEF AllServed, vars, local
<1> QED
    BY <1>1, <1>2, <1>3, <1>4 DEF Next

\* The executed calls are among those looked at.
LEMMA LoopInvImplies == LoopInv => NoThreeAlike
<1> SUFFICES ASSUME LoopInv, NEW t \in Turns, NEW i \in 1 .. Len(ran[t]) - 2
             PROVE  ~(ran[t][i] = ran[t][i + 1] /\ ran[t][i] = ran[t][i + 2])
    BY DEF NoThreeAlike
<1>1. Len(ran[t]) \in Nat /\ checked[t] \in Nat /\ NoTriple(t)
    BY DEF LoopInv, LoopTypes, TurnInv
<1>2. i \in 1 .. Seen(t) - 2
    BY <1>1 DEF Seen, Checked
<1>3. \A j \in {i, i + 1, i + 2} : SigOf(t, j) = ran[t][j]
    BY <1>1 DEF SigOf
<1> QED
    BY <1>1, <1>2, <1>3 DEF NoTriple

\* Safety: no turn executes the same tool call three times in a row (the loop
\* detection of HandleMessage and HandleMessageStream).
THEOREM NoLoopExecuted == Spec => []NoThreeAlike
BY LoopInvInit, LoopInvStep, LoopInvImplies, PTL DEF Spec

--------------------------------------------------------------------------------
(***************************************************************************)
(* The invariant.                                                          *)
(***************************************************************************)
\* The message at p asked for tool calls, the first n of them are answered, each
\* once, and nothing else is open.
Partial(m, p, n) ==
    /\ p \in 1 .. Len(m) /\ Asked(m[p]) # <<>>
    /\ \A i, j \in 1 .. Len(Asked(m[p])) : Asked(m[p])[i] = Asked(m[p])[j] => i = j
    /\ n \in 0 .. Len(Asked(m[p]))
    /\ CompleteTo(m, p - 1)
    /\ \A k \in p + 1 .. Len(m) :
        m[k].role = "system" \/ \E i \in 1 .. n : m[k] = Tool(Asked(m[p])[i])
    /\ \A i \in 1 .. n : \E k \in p + 1 .. Len(m) :
        /\ m[k] = Tool(Asked(m[p])[i])
        /\ \A j \in p + 1 .. Len(m) : m[j] = m[k] => j = k

\* s is what is left of c after its first n elements.
Rest(s, c, n) == Len(s) = Len(c) - n /\ \A i \in 1 .. Len(s) : s[i] = c[n + i]

\* s is the results the list m lacks.
Awaiting(s, m) ==
    \E p \in 1 .. Len(m) : \E n \in 0 .. Len(Asked(m[p])) :
        Partial(m, p, n) /\ Rest(s, Asked(m[p]), n)

\* Where a turn may still iterate, and where it has results to append.
StageInv(t) ==
    /\ pc[t] \in {"idle", "read", "trim"} => iteration[t] = 0
    /\ pc[t] \in Busy => iteration[t] < MaxIterations
    /\ results[t] # <<>> => pc[t] \in {"results", "padding"}
    /\ pc[t] = "results" => results[t] \in Seq(Ids)

TypeInv == TypeOK /\ \A t \in Turns : StageInv(t)

\* What a list is while turn t works on it.
RoundInv(t, m) ==
    /\ pc[t] = "request" => WellFormed(m)
    /\ pc[t] = "check" => \E p \in 1 .. Len(m) : Partial(m, p, 0) /\ Asked(m[p]) = IdsOf(calls[t])
    /\ pc[t] = "results" => Awaiting(results[t], m)

\* What the history is while it puts it in order.
PadInv(t) ==
    /\ pc[t] = "pad" =>
        WellFormed(history) \/ \E p \in 1 .. Len(history) : Partial(history, p, 0)
    /\ pc[t] = "padding" =>
        (WellFormed(history) /\ results[t] = <<>>) \/ Awaiting(results[t], history)
    /\ pc[t] = "return" /\ kind[t] = "retry" => WellFormed(history)

\* A list that was well formed when the turn read it, and the history of a turn
\* that has it to itself.
ListInv(t) ==
    /\ sound[t] => RoundInv(t, messages[t])
    /\ sound[t] /\ pc[t] = "trim" => WellFormed(messages[t])
    /\ alone[t] /\ sound[t] => RoundInv(t, history) /\ PadInv(t)

\* Its copy and the history are the same.
CopyInv(t) ==
    alone[t] =>
        /\ pc[t] \in Busy => messages[t] = <<SystemPrompt>> \o history
        /\ pc[t] = "trim" => messages[t] = history

KindInv(t) ==
    /\ pc[t] \in {"pad", "padding"} => kind[t] = "full"
    /\ pc[t] = "return" => kind[t] \in {"stream", "retry"}
    /\ kind[t] = "retry" => pc[t] \in {"trim", "return"}
    /\ pc[t] = "trim" => kind[t] = "retry"

AloneInv(t) == alone[t] => \A u \in Turns : u # t => pc[u] = "idle"

HistoryInv ==
    \A t \in Turns : KindInv(t) /\ AloneInv(t) /\ CopyInv(t) /\ ListInv(t)

--------------------------------------------------------------------------------
(***************************************************************************)
(* Lists of messages.                                                      *)
(***************************************************************************)
LEMMA RoleOf ==
    ASSUME NEW m \in Message
    PROVE  /\ m.role \in {"system", "user", "tool", "assistant"}
           /\ m.role = "tool" => m.id \in Ids /\ m = Tool(m.id)
           /\ m.role = "assistant" => m.calls \in Seq(Ids) /\ Asked(m) = m.calls
           /\ m.role # "assistant" => Asked(m) = <<>>
<1>1. CASE m = SystemPrompt \/ m = Warning
    <2>1. SystemPrompt.role = "system" /\ Warning.role = "system"
        BY DEF SystemPrompt, Warning
    <2>2. m.role = "system"
        BY <1>1, <2>1
    <2> QED
        BY <2>2 DEF Asked
<1>4. CASE m = User
    BY <1>4 DEF User, Asked
<1>2. CASE m \in {Tool(i) : i \in Ids}
    BY <1>2 DEF Tool, Asked
<1>3. CASE m \in [role : {"assistant"}, calls : Seq(Ids)]
    <2>1. m.role = "assistant" /\ m.calls \in Seq(Ids)
        BY <1>3
    <2> QED
        BY <2>1 DEF Asked
<1> QED
    BY <1>1, <1>2, <1>3, <1>4 DEF Message

LEMMA NobodyAsked == Range1(<<>>) = {}
BY DEF Range1

\* Only the first n messages matter.
LEMMA CompleteSame ==
    ASSUME NEW m, NEW r, NEW n \in Nat, \A i \in 1 .. n : m[i] = r[i], CompleteTo(m, n)
    PROVE  CompleteTo(r, n)
<1>1. \A i, j \in 1 .. n : \A id : Answers(m, i, id, j) <=> Answers(r, i, id, j)
    BY DEF Answers
<1>2. \A j \in 1 .. n : r[j].role = "tool" =>
          \E i \in 1 .. n : \E id \in Range1(Asked(r[i])) : Answers(r, i, id, j)
    BY <1>1 DEF CompleteTo
<1>3. \A i \in 1 .. n : \A id \in Range1(Asked(r[i])) :
          \E j \in 1 .. n : /\ Answers(r, i, id, j)
                            /\ \A k \in 1 .. n : Answers(r, i, id, k) => k = j
    BY <1>1 DEF CompleteTo
<1> QED
    BY <1>2, <1>3 DEF CompleteTo

\* A message that neither asks nor answers.
Plain(m) == m.role # "tool" /\ Asked(m) = <<>>

LEMMA CompleteNext ==
    ASSUME NEW m, NEW n \in Nat, CompleteTo(m, n), Plain(m[n + 1])
    PROVE  CompleteTo(m, n + 1)
<1>1. \A i, id : ~Answers(m, i, id, n + 1)
    BY DEF Answers, Plain, Tool
<1>2. Range1(Asked(m[n + 1])) = {}
    BY NobodyAsked DEF Plain
<1>3. \A j \in 1 .. n + 1 : j \in 1 .. n \/ j = n + 1
    OBVIOUS
<1>4. \A j \in 1 .. n : j \in 1 .. n + 1
    OBVIOUS
<1>5. \A j \in 1 .. n + 1 : m[j].role = "tool" =>
          \E i \in 1 .. n + 1 : \E id \in Range1(Asked(m[i])) : Answers(m, i, id, j)
    BY <1>3, <1>4 DEF CompleteTo, Plain
<1>6. \A i \in 1 .. n + 1 : \A id \in Range1(Asked(m[i])) :
          \E j \in 1 .. n + 1 : /\ Answers(m, i, id, j)
                                /\ \A k \in 1 .. n + 1 : Answers(m, i, id, k) => k = j
    BY <1>1, <1>2, <1>3, <1>4 DEF CompleteTo
<1> QED
    BY <1>5, <1>6 DEF CompleteTo

LEMMA PlainMessages ==
    /\ Plain(User) /\ Plain(Warning) /\ Plain(SystemPrompt) /\ Plain(Assistant(<<>>))
    /\ {User, Warning, SystemPrompt, Assistant(<<>>)} \subseteq Message
BY DEF Plain, User, Warning, SystemPrompt, Assistant, Asked, Message

LEMMA AppendPlain ==
    ASSUME NEW m \in Seq(Message), WellFormed(m), NEW x \in Message, Plain(x)
    PROVE  WellFormed(Append(m, x))
<1> DEFINE r == Append(m, x)
           n == Len(m)
<1>1. n \in Nat /\ Len(r) = n + 1 /\ r[n + 1] = x /\ \A i \in 1 .. n : m[i] = r[i]
    OBVIOUS
<1> HIDE DEF r, n
<1>2. CompleteTo(m, n)
    BY DEF WellFormed, n
<1>3. CompleteTo(r, n)
    BY <1>1, <1>2, CompleteSame
<1>4. CompleteTo(r, n + 1)
    BY <1>1, <1>3, CompleteNext
<1>5. WellFormed(r)
    BY <1>1, <1>4 DEF WellFormed
<1> QED
    BY <1>5 DEF r

\* The system prompt goes in front.
LEMMA PromptInFront ==
    ASSUME NEW m \in Seq(Message), WellFormed(m)
    PROVE  WellFormed(<<SystemPrompt>> \o m)
<1> DEFINE r == <<SystemPrompt>> \o m
           n == Len(m)
<1>1. n \in Nat /\ Len(r) = n + 1 /\ r[1] = SystemPrompt /\ \A i \in 1 .. n : r[i + 1] = m[i]
    <2>1. <<SystemPrompt>> \in Seq(Message)
        BY PlainMessages
    <2> QED
        BY <2>1
<1> HIDE DEF r, n
<1>2. \A i \in 1 .. n + 1 : i = 1 \/ \E j \in 1 .. n : i = j + 1
    <2> SUFFICES ASSUME NEW i \in 1 .. n + 1, i # 1 PROVE \E j \in 1 .. n : i = j + 1
        OBVIOUS
    <2>1. i - 1 \in 1 .. n /\ i = (i - 1) + 1
        BY <1>1
    <2> QED
        BY <2>1
<1>3. \A i, j \in 1 .. n : \A id : Answers(r, i + 1, id, j + 1) <=> Answers(m, i, id, j)
    <2> SUFFICES ASSUME NEW i \in 1 .. n, NEW j \in 1 .. n, NEW id
                 PROVE  Answers(r, i + 1, id, j + 1) <=> Answers(m, i, id, j)
        OBVIOUS
    <2>1. ASSUME \A k \in i + 1 .. j - 1 : m[k].role \in {"tool", "system"},
                 NEW k \in i + 2 .. j
          PROVE  r[k].role \in {"tool", "system"}
        <3>1. k - 1 \in i + 1 .. j - 1 /\ k - 1 \in 1 .. n /\ r[(k - 1) + 1] = m[k - 1] /\ (k - 1) + 1 = k
            BY <1>1
        <3> QED
            BY <2>1, <3>1
    <2>2. ASSUME \A k \in i + 2 .. j : r[k].role \in {"tool", "system"},
                 NEW k \in i + 1 .. j - 1
          PROVE  m[k].role \in {"tool", "system"}
        <3>1. k + 1 \in i + 2 .. j /\ r[k + 1] = m[k]
            BY <1>1
        <3> QED
            BY <2>2, <3>1
    <2>3. (i + 1) + 1 = i + 2 /\ (j + 1) - 1 = j /\ (i + 1 < j + 1 <=> i < j) /\ r[j + 1] = m[j]
        BY <1>1
    <2> QED
        BY <2>1, <2>2, <2>3 DEF Answers
<1>5. Range1(Asked(r[1])) = {} /\ r[1].role # "tool" /\ \A i, id : ~Answers(r, i, id, 1)
    BY <1>1, PlainMessages, NobodyAsked DEF Plain, Answers, Tool
<1>6. \A j \in 1 .. n : j + 1 \in 1 .. n + 1
    BY <1>1
<1>7. CompleteTo(m, n)
    BY DEF WellFormed, n
<1>8. \A j \in 1 .. n + 1 : r[j].role = "tool" =>
          \E i \in 1 .. n + 1 : \E id \in Range1(Asked(r[i])) : Answers(r, i, id, j)
    <2> SUFFICES ASSUME NEW j \in 1 .. n + 1, r[j].role = "tool"
                 PROVE  \E i \in 1 .. n + 1 : \E id \in Range1(Asked(r[i])) : Answers(r, i, id, j)
        OBVIOUS
    <2>1. PICK b \in 1 .. n : j = b + 1
        BY <1>2, <1>5
    <2>2. PICK i \in 1 .. n : \E id \in Range1(Asked(m[i])) : Answers(m, i, id, b)
        BY <1>1, <1>7, <2>1 DEF CompleteTo
    <2>3. \E id \in Range1(Asked(r[i + 1])) : Answers(r, i + 1, id, j)
        BY <1>1, <1>3, <2>1, <2>2
    <2> QED
        BY <1>6, <2>3
<1>9. ASSUME NEW i \in 1 .. n + 1, NEW id \in Range1(Asked(r[i]))
      PROVE  \E j \in 1 .. n + 1 : /\ Answers(r, i, id, j)
                                   /\ \A k \in 1 .. n + 1 : Answers(r, i, id, k) => k = j
    <2>1. PICK a \in 1 .. n : i = a + 1
        BY <1>2, <1>5, <1>9
    <2>2. id \in Range1(Asked(m[a]))
        BY <1>1, <2>1
    <2>3. PICK j \in 1 .. n : Answers(m, a, id, j) /\ \A k \in 1 .. n : Answers(m, a, id, k) => k = j
        BY <1>7, <2>2 DEF CompleteTo
    <2>4. Answers(r, i, id, j + 1)
        BY <1>3, <2>1, <2>3
    <2>5. ASSUME NEW k \in 1 .. n + 1, Answers(r, i, id, k) PROVE k = j + 1
        <3>1. PICK b \in 1 .. n : k = b + 1
            BY <1>2, <1>5, <2>5
        <3> QED
            BY <1>3, <2>1, <2>3, <2>5, <3>1
    <2> QED
        BY <1>6, <2>4, <2>5
<1>10. WellFormed(r)
    BY <1>1, <1>8, <1>9 DEF CompleteTo, WellFormed
<1> QED
    BY <1>10 DEF r

\* What stands before a user's message is complete.
LEMMA CompleteBefore ==
    ASSUME NEW m, NEW n \in Nat, CompleteTo(m, n), NEW c \in 1 .. n, m[c].role = "user"
    PROVE  CompleteTo(m, c - 1)
<1>1. \A i \in 1 .. c - 1 : \A j \in 1 .. n : \A id : Answers(m, i, id, j) => j \in 1 .. c - 1
    <2> SUFFICES ASSUME NEW i \in 1 .. c - 1, NEW j \in 1 .. n, NEW id, Answers(m, i, id, j), j >= c
                 PROVE  FALSE
        OBVIOUS
    <2>1. j # c
        BY DEF Answers, Tool
    <2>2. c \in i + 1 .. j - 1
        BY <2>1
    <2> QED
        BY <2>2 DEF Answers
<1>2. \A i \in 1 .. c - 1 : i \in 1 .. n
    OBVIOUS
<1>3. \A j \in 1 .. c - 1 : m[j].role = "tool" =>
          \E i \in 1 .. c - 1 : \E id \in Range1(Asked(m[i])) : Answers(m, i, id, j)
    <2> SUFFICES ASSUME NEW j \in 1 .. c - 1, m[j].role = "tool"
                 PROVE  \E i \in 1 .. c - 1 : \E id \in Range1(Asked(m[i])) : Answers(m, i, id, j)
        OBVIOUS
    <2>1. PICK i \in 1 .. n : \E id \in Range1(Asked(m[i])) : Answers(m, i, id, j)
        BY <1>2 DEF CompleteTo
    <2>2. i \in 1 .. c - 1
        BY <2>1 DEF Answers
    <2> QED
        BY <2>1, <2>2
<1>4. ASSUME NEW i \in 1 .. c - 1, NEW id \in Range1(Asked(m[i]))
      PROVE  \E j \in 1 .. c - 1 : /\ Answers(m, i, id, j)
                                   /\ \A k \in 1 .. c - 1 : Answers(m, i, id, k) => k = j
    <2>1. PICK j \in 1 .. n : Answers(m, i, id, j) /\ \A k \in 1 .. n : Answers(m, i, id, k) => k = j
        BY <1>2, <1>4 DEF CompleteTo
    <2> QED
        BY <1>1, <1>2, <2>1
<1> QED
    BY <1>3, <1>4 DEF CompleteTo

--------------------------------------------------------------------------------
\* Lists in the middle of a round.
LEMMA AskerRole ==
    ASSUME NEW m \in Message, Asked(m) # <<>>
    PROVE  m.role = "assistant" /\ Asked(m) \in Seq(Ids) /\ Len(Asked(m)) \in Nat \ {0}
<1>1. m.role = "assistant" /\ Asked(m) \in Seq(Ids)
    BY RoleOf
<1> QED
    BY <1>1

LEMMA StartsRound ==
    ASSUME NEW m \in Seq(Message), WellFormed(m), NEW c \in Seq(Ids), c # <<>>,
           \A i, j \in 1 .. Len(c) : c[i] = c[j] => i = j
    PROVE  LET r == Append(m, Assistant(c))
           IN  Partial(r, Len(m) + 1, 0) /\ Asked(r[Len(m) + 1]) = c
<1> DEFINE r == Append(m, Assistant(c))
           n == Len(m)
<1>1. n \in Nat /\ Len(r) = n + 1 /\ r[n + 1] = Assistant(c) /\ \A i \in 1 .. n : m[i] = r[i]
    OBVIOUS
<1> HIDE DEF r, n
<1>2. Asked(r[n + 1]) = c
    BY <1>1 DEF Assistant, Asked
<1>3. CompleteTo(m, n)
    BY DEF WellFormed, n
<1>4. CompleteTo(r, n)
    BY <1>1, <1>3, CompleteSame
<1>5. (n + 1) - 1 = n /\ n + 1 \in 1 .. Len(r) /\ (n + 1) + 1 .. Len(r) = {} /\ 1 .. 0 = {}
    BY <1>1
<1>6. 0 \in 0 .. Len(c)
    OBVIOUS
<1>7. Partial(r, n + 1, 0)
    BY <1>2, <1>4, <1>5, <1>6 DEF Partial
<1> QED
    BY <1>2, <1>7 DEF r, n

\* A system message does not change what is open.
LEMMA WarnKeeps ==
    ASSUME NEW m \in Seq(Message), NEW p \in 1 .. Len(m), NEW k, Partial(m, p, k),
           NEW x, x.role = "system"
    PROVE  Partial(Append(m, x), p, k) /\ Append(m, x)[p] = m[p]
<1> DEFINE r == Append(m, x)
           n == Len(m)
<1>1. n \in Nat /\ Len(r) = n + 1 /\ r[n + 1] = x /\ (\A i \in 1 .. n : m[i] = r[i]) /\ p \in 1 .. n
    OBVIOUS
<1> HIDE DEF r, n
<1>2. r[p] = m[p] /\ p \in 1 .. Len(r) /\ k \in 0 .. Len(Asked(m[p]))
    BY <1>1 DEF Partial
<1>3. CompleteTo(r, p - 1)
    <2>1. p - 1 \in Nat /\ \A i \in 1 .. p - 1 : m[i] = r[i]
        BY <1>1
    <2>2. CompleteTo(m, p - 1)
        BY DEF Partial
    <2> QED
        BY <2>1, <2>2, CompleteSame
<1>4. \A j \in p + 1 .. n + 1 : j \in p + 1 .. n \/ j = n + 1
    BY <1>1
<1>5. \A j \in p + 1 .. n : j \in p + 1 .. n + 1 /\ r[j] = m[j]
    BY <1>1
<1>6. \A j \in p + 1 .. n + 1 :
        r[j].role = "system" \/ \E i \in 1 .. k : r[j] = Tool(Asked(m[p])[i])
    <2>1. \A j \in p + 1 .. n :
            m[j].role = "system" \/ \E i \in 1 .. k : m[j] = Tool(Asked(m[p])[i])
        BY DEF Partial, n
    <2> QED
        BY <1>1, <1>4, <1>5, <2>1
<1>7. ASSUME NEW i \in 1 .. k
      PROVE  \E j \in p + 1 .. n + 1 : /\ r[j] = Tool(Asked(m[p])[i])
                                       /\ \A l \in p + 1 .. n + 1 : r[l] = r[j] => l = j
    <2>1. PICK j \in p + 1 .. n : /\ m[j] = Tool(Asked(m[p])[i])
                                  /\ \A l \in p + 1 .. n : m[l] = m[j] => l = j
        BY DEF Partial, n
    <2>2. r[n + 1] # r[j]
        BY <1>1, <1>5, <2>1 DEF Tool
    <2> QED
        BY <1>4, <1>5, <2>1, <2>2
<1>8. /\ Asked(m[p]) # <<>>
      /\ \A i, j \in 1 .. Len(Asked(m[p])) : Asked(m[p])[i] = Asked(m[p])[j] => i = j
    BY DEF Partial
<1> DEFINE c == Asked(m[p])
<1>9. c = Asked(r[p])
    BY <1>2
<1>10. /\ k \in 0 .. Len(c)
       /\ \A j \in p + 1 .. Len(r) : r[j].role = "system" \/ \E i \in 1 .. k : r[j] = Tool(c[i])
       /\ \A i \in 1 .. k : \E j \in p + 1 .. Len(r) :
            r[j] = Tool(c[i]) /\ \A l \in p + 1 .. Len(r) : r[l] = r[j] => l = j
       /\ c # <<>> /\ \A i, j \in 1 .. Len(c) : c[i] = c[j] => i = j
    BY <1>1, <1>2, <1>6, <1>7, <1>8
<1> HIDE DEF c
<1>11. Partial(r, p, k)
    BY <1>2, <1>3, <1>9, <1>10 DEF Partial
<1> QED
    BY <1>2, <1>11 DEF r

\* The next answer.
LEMMA AnswerNext ==
    ASSUME NEW m \in Seq(Message), NEW p \in 1 .. Len(m), NEW k \in Nat, Partial(m, p, k),
           k < Len(Asked(m[p]))
    PROVE  LET r == Append(m, Tool(Asked(m[p])[k + 1]))
           IN  Partial(r, p, k + 1) /\ r[p] = m[p]
<1> DEFINE c == Asked(m[p])
           x == Tool(c[k + 1])
           r == Append(m, x)
           n == Len(m)
<1>1. n \in Nat /\ Len(r) = n + 1 /\ r[n + 1] = x /\ (\A i \in 1 .. n : m[i] = r[i]) /\ p \in 1 .. n
    OBVIOUS
<1>0. m[p] \in Message
    BY SeqElement
<1>2. Len(c) \in Nat
    BY <1>0, AskerRole DEF Partial
<1>9. x = Tool(c[k + 1])
    OBVIOUS
<1> HIDE DEF r, n, c, x
<1>3. r[p] = m[p] /\ p \in 1 .. Len(r) /\ k + 1 \in 0 .. Len(c)
    BY <1>1, <1>2 DEF c
<1>4. CompleteTo(r, p - 1)
    <2>1. p - 1 \in Nat /\ \A i \in 1 .. p - 1 : m[i] = r[i]
        BY <1>1
    <2>2. CompleteTo(m, p - 1)
        BY DEF Partial
    <2> QED
        BY <2>1, <2>2, CompleteSame
<1>5. \A j \in p + 1 .. n + 1 : j \in p + 1 .. n \/ j = n + 1
    BY <1>1
<1>6. (\A j \in p + 1 .. n : j \in p + 1 .. n + 1 /\ r[j] = m[j]) /\ n + 1 \in p + 1 .. n + 1
    BY <1>1
<1>7. (\A i \in 1 .. k + 1 : i \in 1 .. k \/ i = k + 1) /\ (\A i \in 1 .. k : i \in 1 .. k + 1 /\ i # k + 1)
      /\ k + 1 \in 1 .. k + 1 /\ k + 1 \in 1 .. Len(c) /\ \A i \in 1 .. k : i \in 1 .. Len(c)
    BY <1>2 DEF c
<1>8. \A j \in p + 1 .. n : m[j].role = "system" \/ \E i \in 1 .. k : m[j] = Tool(c[i])
    BY DEF Partial, n, c
<1>10. \A j \in p + 1 .. n + 1 :
        r[j].role = "system" \/ \E i \in 1 .. k + 1 : r[j] = Tool(c[i])
    BY <1>1, <1>5, <1>6, <1>7, <1>8, <1>9
<1>11. \A i \in 1 .. k : c[i] # c[k + 1]
    BY <1>7 DEF Partial, c
<1>12. \A i \in 1 .. k : Tool(c[i]) # x
    BY <1>9, <1>11 DEF Tool
<1>13. ASSUME NEW i \in 1 .. k
       PROVE  \E j \in p + 1 .. n + 1 : /\ r[j] = Tool(c[i])
                                        /\ \A l \in p + 1 .. n + 1 : r[l] = r[j] => l = j
    <2>1. PICK j \in p + 1 .. n : /\ m[j] = Tool(c[i])
                                  /\ \A l \in p + 1 .. n : m[l] = m[j] => l = j
        BY DEF Partial, n, c
    <2>2. r[n + 1] # r[j]
        BY <1>1, <1>6, <1>12, <2>1
    <2> QED
        BY <1>5, <1>6, <2>1, <2>2
<1>14. \E j \in p + 1 .. n + 1 : /\ r[j] = Tool(c[k + 1])
                                 /\ \A l \in p + 1 .. n + 1 : r[l] = r[j] => l = j
    <2>1. \A l \in p + 1 .. n : r[l] # x
        <3>1. x.role = "tool"
            BY <1>9 DEF Tool
        <3> QED
            BY <1>6, <1>8, <1>12, <3>1
    <2> QED
        BY <1>1, <1>5, <1>6, <1>9, <2>1
<1>15. \A i \in 1 .. k + 1 : \E j \in p + 1 .. n + 1 :
            /\ r[j] = Tool(c[i])
            /\ \A l \in p + 1 .. n + 1 : r[l] = r[j] => l = j
    BY <1>7, <1>13, <1>14
<1>16. c # <<>> /\ \A i, j \in 1 .. Len(c) : c[i] = c[j] => i = j
    BY DEF Partial, c
<1>17. c = Asked(r[p])
    BY <1>3 DEF c
<1>18. Partial(r, p, k + 1)
    BY <1>1, <1>3, <1>4, <1>10, <1>15, <1>16, <1>17 DEF Partial
<1> QED
    BY <1>3, <1>18 DEF r, x, c

\* All calls answered.
LEMMA RoundOver ==
    ASSUME NEW m \in Seq(Message), NEW p \in 1 .. Len(m), Partial(m, p, Len(Asked(m[p])))
    PROVE  WellFormed(m)
<1> DEFINE c == Asked(m[p])
           n == Len(m)
<1>1. n \in Nat /\ p \in 1 .. n /\ \A i \in 1 .. n : m[i] \in Message
    BY SeqElement
<1>2. m[p].role = "assistant" /\ c \in Seq(Ids) /\ Len(c) \in Nat
    BY <1>1, AskerRole DEF Partial
<1>3. /\ CompleteTo(m, p - 1)
      /\ \A k \in p + 1 .. n : m[k].role = "system" \/ \E i \in 1 .. Len(c) : m[k] = Tool(c[i])
      /\ \A i \in 1 .. Len(c) : \E k \in p + 1 .. n :
            m[k] = Tool(c[i]) /\ \A j \in p + 1 .. n : m[j] = m[k] => j = k
    BY DEF Partial
<1>4. Range1(c) = {c[i] : i \in 1 .. Len(c)}
    BY DEF Range1
<1> HIDE DEF n, c
<1>5. \A k \in p + 1 .. n : m[k].role \in {"tool", "system"}
    <2>1. \A id : Tool(id).role = "tool"
        BY DEF Tool
    <2> QED
        BY <1>3, <2>1
<1>6. /\ \A i \in 1 .. n : i < p \/ i = p \/ i \in p + 1 .. n
      /\ \A i \in 1 .. p - 1 : i \in 1 .. n /\ i < p
      /\ \A i \in 1 .. n : i < p => i \in 1 .. p - 1
      /\ \A i \in p + 1 .. n : i \in 1 .. n /\ p < i
    BY <1>1
<1>7. \A id : \A k \in p + 1 .. n : Answers(m, p, id, k) <=> m[k] = Tool(id)
    <2> SUFFICES ASSUME NEW id, NEW k \in p + 1 .. n PROVE Answers(m, p, id, k) <=> m[k] = Tool(id)
        OBVIOUS
    <2>1. \A l \in p + 1 .. k - 1 : l \in p + 1 .. n
        BY <1>1
    <2> QED
        BY <1>5, <1>6, <2>1 DEF Answers
<1>8. \A i \in 1 .. p - 1 : \A j \in 1 .. n : \A id : Answers(m, i, id, j) => j \in 1 .. p - 1
    <2> SUFFICES ASSUME NEW i \in 1 .. p - 1, NEW j \in 1 .. n, NEW id, Answers(m, i, id, j), j >= p
                 PROVE  FALSE
        BY <1>6, <1>1
    <2>1. j # p
        BY <1>2 DEF Answers, Tool
    <2>2. p \in i + 1 .. j - 1
        BY <1>1, <2>1
    <2> QED
        BY <1>2, <2>2 DEF Answers
<1>9. \A i \in p + 1 .. n : Range1(Asked(m[i])) = {}
    <2> SUFFICES ASSUME NEW i \in p + 1 .. n PROVE Asked(m[i]) = <<>>
        BY NobodyAsked
    <2>1. m[i] \in Message /\ m[i].role # "assistant"
        BY <1>1, <1>5, <1>6
    <2> QED
        BY <2>1, RoleOf
<1>10. \A j \in 1 .. n : m[j].role = "tool" =>
          \E i \in 1 .. n : \E id \in Range1(Asked(m[i])) : Answers(m, i, id, j)
    <2> SUFFICES ASSUME NEW j \in 1 .. n, m[j].role = "tool"
                 PROVE  \E i \in 1 .. n : \E id \in Range1(Asked(m[i])) : Answers(m, i, id, j)
        OBVIOUS
    <2>1. CASE j < p
        BY <1>3, <1>6, <2>1 DEF CompleteTo
    <2>2. CASE j \in p + 1 .. n
        <3>1. PICK i \in 1 .. Len(c) : m[j] = Tool(c[i])
            BY <1>3, <2>2
        <3>2. c[i] \in Range1(Asked(m[p])) /\ Answers(m, p, c[i], j)
            BY <1>4, <1>7, <2>2, <3>1 DEF c
        <3> QED
            BY <1>1, <3>2
    <2> QED
        BY <1>2, <1>6, <2>1, <2>2
<1>11. ASSUME NEW i \in 1 .. n, NEW id \in Range1(Asked(m[i]))
       PROVE  \E j \in 1 .. n : /\ Answers(m, i, id, j)
                                /\ \A k \in 1 .. n : Answers(m, i, id, k) => k = j
    <2>1. CASE i < p
        <3>1. i \in 1 .. p - 1
            BY <1>6, <2>1
        <3>2. PICK j \in 1 .. p - 1 : /\ Answers(m, i, id, j)
                                      /\ \A k \in 1 .. p - 1 : Answers(m, i, id, k) => k = j
            BY <1>3, <1>11, <3>1 DEF CompleteTo
        <3> QED
            BY <1>6, <1>8, <3>1, <3>2
    <2>2. CASE i = p
        <3>1. PICK b \in 1 .. Len(c) : id = c[b]
            BY <1>4, <1>11, <2>2 DEF c
        <3>2. PICK j \in p + 1 .. n : /\ m[j] = Tool(id)
                                      /\ \A k \in p + 1 .. n : m[k] = m[j] => k = j
            BY <1>3, <3>1
        <3>3. \A k \in 1 .. n : Answers(m, p, id, k) => k \in p + 1 .. n
            BY <1>1 DEF Answers
        <3>4. Answers(m, i, id, j) /\ j \in 1 .. n
            BY <1>6, <1>7, <2>2, <3>2
        <3>5. ASSUME NEW k \in 1 .. n, Answers(m, i, id, k) PROVE k = j
            <4>1. k \in p + 1 .. n
                BY <2>2, <3>3, <3>5
            <4>2. m[k] = m[j]
                BY <1>7, <2>2, <3>2, <3>5, <4>1
            <4> QED
                BY <3>2, <4>1, <4>2
        <3> QED
            BY <3>4, <3>5
    <2> QED
        BY <1>6, <1>9, <1>11, <2>1, <2>2
<1>12. CompleteTo(m, n)
    BY <1>10, <1>11 DEF CompleteTo
<1> QED
    BY <1>12 DEF WellFormed, n

LEMMA LastOf ==
    ASSUME NEW n \in Nat, NEW S \in SUBSET (1 .. n), S # {}
    PROVE  \E i \in S : \A j \in S : j <= i
<1> DEFINE T == {n - i : i \in S}
           R == OpToRel(<, Nat)
<1>1. T \subseteq Nat /\ T # {}
    <2>1. ASSUME NEW i \in S PROVE n - i \in Nat
        <3>1. i \in 1 .. n
            OBVIOUS
        <3> QED
            BY <3>1
    <2> QED
        BY <2>1
<1>2. IsWellFoundedOn(R, Nat)
    BY NatLessThanWellFounded
<1> HIDE DEF T, R
<1>3. PICK x \in T : \A y \in T : ~(<<y, x>> \in R)
    BY <1>1, <1>2, WFMin
<1>4. \A y \in T : ~(y < x)
    <2>1. \A y \in Nat : y < x => <<y, x>> \in R
        BY <1>1 DEF R, OpToRel
    <2> QED
        BY <1>1, <1>3, <2>1
<1>5. PICK i \in S : x = n - i
    BY DEF T
<1>6. ASSUME NEW j \in S PROVE j <= i
    <2>1. n - j \in T
        BY DEF T
    <2> QED
        BY <1>4, <1>5, <2>1
<1> QED
    BY <1>6

\* What /retry leaves of a complete list is complete.
LEMMA CutComplete ==
    ASSUME NEW m \in Seq(Message)
    PROVE  RetryCut(m) \in Seq(Message) /\ (WellFormed(m) => WellFormed(RetryCut(m)))
<1> DEFINE users == {i \in 1 .. Len(m) : m[i].role = "user"}
           c == CHOOSE i \in users : \A j \in users : j <= i
<1>1. CASE users = {}
    <2>1. RetryCut(m) = m
        BY <1>1 DEF RetryCut
    <2> QED
        BY <2>1
<1>2. CASE users # {}
    <2>1. Len(m) \in Nat /\ users \in SUBSET (1 .. Len(m))
        OBVIOUS
    <2>2. \E i \in users : \A j \in users : j <= i
        BY <1>2, <2>1, LastOf
    <2>3. c \in users
        BY <2>2
    <2>4. RetryCut(m) = SubSeq(m, 1, c - 1)
        BY <1>2 DEF RetryCut
    <2> HIDE DEF c
    <2>5. c \in 1 .. Len(m) /\ m[c].role = "user"
        BY <2>3
    <2> DEFINE r == SubSeq(m, 1, c - 1)
    <2>6. r \in Seq(Message) /\ Len(r) = c - 1 /\ \A i \in 1 .. c - 1 : m[i] = r[i]
        BY <2>5
    <2> HIDE DEF r
    <2>7. ASSUME WellFormed(m) PROVE WellFormed(r)
        <3>1. CompleteTo(m, c - 1)
            BY <2>1, <2>5, <2>7, CompleteBefore DEF WellFormed
        <3>2. CompleteTo(r, c - 1)
            BY <2>5, <2>6, <3>1, CompleteSame
        <3> QED
            BY <2>6, <3>2 DEF WellFormed
    <2> QED
        BY <2>4, <2>6, <2>7 DEF r
<1> QED
    BY <1>1, <1>2

LEMMA LastCallerIs ==
    ASSUME NEW m \in Seq(Message), Callers(m) # {}
    PROVE  LastCaller(m) \in Callers(m) /\ \A j \in Callers(m) : j <= LastCaller(m)
<1>1. Len(m) \in Nat /\ Callers(m) \in SUBSET (1 .. Len(m))
    BY DEF Callers
<1>2. \E i \in Callers(m) : \A j \in Callers(m) : j <= i
    BY <1>1, LastOf
<1> QED
    BY <1>2 DEF LastCaller

\* The padding has nothing to do where the list is complete...
LEMMA NoneOpen ==
    ASSUME NEW m \in Seq(Message), WellFormed(m)
    PROVE  Orphans(m) = <<>>
<1>1. CASE Callers(m) = {}
    BY <1>1 DEF Orphans
<1>2. CASE Callers(m) # {}
    <2>1. PICK p : p = LastCaller(m) /\ p \in 1 .. Len(m)
        BY <1>2, LastCallerIs DEF Callers
    <2>2. ASSUME NEW id \in Range1(Asked(m[p])) PROVE ~Open(m, id)
        <3>1. PICK j \in 1 .. Len(m) : Answers(m, p, id, j)
            BY <2>1, <2>2 DEF WellFormed, CompleteTo
        <3>2. j \in p + 1 .. Len(m) /\ m[j] = Tool(id)
            BY <2>1, <3>1 DEF Answers
        <3> QED
            BY <2>1, <3>2 DEF Open
    <2> QED
        BY <2>1, <2>2 DEF Orphans
<1> QED
    BY <1>1, <1>2

\* ... and all the calls of the round the turn has left.
LEMMA AllOpen ==
    ASSUME NEW m \in Seq(Message), NEW p \in 1 .. Len(m), Partial(m, p, 0)
    PROVE  Orphans(m) = Asked(m[p])
<1> DEFINE c == Asked(m[p])
<1>1. \A k \in 1 .. Len(m) : m[k] \in Message
    BY SeqElement
<1>2. c # <<>> /\ c \in Seq(Ids) /\ 1 \in 1 .. Len(c)
    BY <1>1, AskerRole DEF Partial
<1>3. \A k \in p + 1 .. Len(m) : m[k].role = "system"
    BY DEF Partial
<1>4. \A k \in p + 1 .. Len(m) : Asked(m[k]) = <<>>
    <2> SUFFICES ASSUME NEW k \in p + 1 .. Len(m) PROVE Asked(m[k]) = <<>>
        OBVIOUS
    <2>1. m[k] \in Message /\ m[k].role # "assistant"
        BY <1>1, <1>3
    <2> QED
        BY <2>1, RoleOf
<1>5. p \in Callers(m) /\ \A k \in Callers(m) : k \in 1 .. Len(m) /\ k <= p
    BY <1>2, <1>4 DEF Callers
<1>6. LastCaller(m) = p
    <2> DEFINE q == LastCaller(m)
    <2>1. q \in Callers(m) /\ p <= q
        BY <1>5, LastCallerIs
    <2> HIDE DEF q
    <2>2. q \in 1 .. Len(m) /\ q <= p
        BY <1>5, <2>1
    <2>3. q = p
        BY <2>1, <2>2
    <2> QED
        BY <2>3 DEF q
<1>7. \A id : Open(m, id)
    BY <1>3, <1>6 DEF Open, Tool
<1> HIDE DEF c
<1>8. c[1] \in Range1(c)
    BY <1>2 DEF Range1
<1>9. Orphans(m) = [i \in DOMAIN c |-> c[i]]
    BY <1>5, <1>6, <1>7, <1>8 DEF Orphans, c
<1> QED
    BY <1>2, <1>9 DEF c

LEMMA RoundBegins ==
    ASSUME NEW m \in Seq(Message), NEW p \in 1 .. Len(m), Partial(m, p, 0)
    PROVE  Awaiting(Asked(m[p]), m)
<1>1. 0 \in 0 .. Len(Asked(m[p])) /\ Asked(m[p]) \in Seq(Ids)
    BY SeqElement, AskerRole DEF Partial
<1>2. Rest(Asked(m[p]), Asked(m[p]), 0)
    BY <1>1 DEF Rest
<1> QED
    BY <1>1, <1>2 DEF Awaiting

LEMMA AnswerOne ==
    ASSUME NEW m \in Seq(Message), NEW s \in Seq(Ids \cup {Resolved}), s # <<>>, Awaiting(s, m)
    PROVE  /\ Head(s) \in Ids /\ Head(s) # Resolved
           /\ Awaiting(Tail(s), Append(m, Tool(Head(s))))
<1>0. PICK p \in 1 .. Len(m) : \E n \in 0 .. Len(Asked(m[p])) :
            Partial(m, p, n) /\ Rest(s, Asked(m[p]), n)
    BY DEF Awaiting
<1>1. PICK n \in 0 .. Len(Asked(m[p])) : Partial(m, p, n) /\ Rest(s, Asked(m[p]), n)
    BY <1>0
<1> DEFINE c == Asked(m[p])
           r == Append(m, Tool(Head(s)))
<1>2. c \in Seq(Ids) /\ Len(c) \in Nat
    BY <1>1, SeqElement, AskerRole DEF Partial
<1> HIDE DEF c
<1>3. Len(s) = Len(c) - n /\ \A i \in 1 .. Len(s) : s[i] = c[n + i]
    BY <1>1 DEF Rest, c
<1>4. Len(s) \in Nat /\ Len(s) > 0 /\ n \in Nat /\ n < Len(c) /\ Head(s) = s[1]
    BY <1>1, <1>2, <1>3 DEF c
<1>5. Head(s) = c[n + 1] /\ Head(s) \in Ids
    BY <1>2, <1>3, <1>4
<1>6. Partial(r, p, n + 1) /\ r[p] = m[p]
    BY <1>1, <1>4, <1>5, AnswerNext DEF c
<1>7. Rest(Tail(s), c, n + 1)
    <2>1. Len(Tail(s)) = Len(c) - (n + 1)
        BY <1>2, <1>3, <1>4
    <2>2. ASSUME NEW i \in 1 .. Len(Tail(s)) PROVE Tail(s)[i] = c[(n + 1) + i]
        <3>1. Tail(s)[i] = s[i + 1] /\ i + 1 \in 1 .. Len(s)
            BY <1>4
        <3>2. n + (i + 1) = (n + 1) + i
            BY <1>4
        <3> QED
            BY <1>3, <3>1, <3>2
    <2> QED
        BY <2>1, <2>2 DEF Rest
<1>8. p \in 1 .. Len(r) /\ n + 1 \in 0 .. Len(c) /\ c = Asked(r[p])
    BY <1>2, <1>4, <1>6 DEF c
<1>9. Awaiting(Tail(s), r)
    BY <1>6, <1>7, <1>8 DEF Awaiting
<1>10. Head(s) # Resolved
    BY <1>5 DEF Ids, Resolved
<1> QED
    BY <1>5, <1>9, <1>10 DEF r

LEMMA AnsweredAll ==
    ASSUME NEW m \in Seq(Message), Awaiting(<<>>, m)
    PROVE  WellFormed(m)
<1>0. PICK p \in 1 .. Len(m) : \E n \in 0 .. Len(Asked(m[p])) :
            Partial(m, p, n) /\ Rest(<<>>, Asked(m[p]), n)
    BY DEF Awaiting
<1>1. PICK n \in 0 .. Len(Asked(m[p])) : Partial(m, p, n) /\ Rest(<<>>, Asked(m[p]), n)
    BY <1>0
<1>2. Len(Asked(m[p])) \in Nat
    BY <1>1, SeqElement, AskerRole DEF Partial
<1>3. n = Len(Asked(m[p]))
    BY <1>1, <1>2 DEF Rest
<1> QED
    BY <1>1, <1>3, RoundOver

--------------------------------------------------------------------------------
(***************************************************************************)
(* Types.                                                                  *)
(***************************************************************************)
\* What the steps of a turn leave alone.
Kept(u) ==
    /\ pc'[u] = pc[u] /\ kind'[u] = kind[u] /\ messages'[u] = messages[u]
    /\ iteration'[u] = iteration[u] /\ calls'[u] = calls[u] /\ checked'[u] = checked[u]
    /\ results'[u] = results[u] /\ (sound'[u] <=> sound[u])

LEMMA ForgetOne ==
    ASSUME NEW S \in SUBSET Turns, Forget(S), NEW u \in Turns
    PROVE  /\ u \in S => /\ pc'[u] = "idle" /\ kind'[u] = "full" /\ messages'[u] = <<>>
                         /\ iteration'[u] = 0 /\ calls'[u] = <<>> /\ checked'[u] = 0
                         /\ results'[u] = <<>> /\ ~sound'[u] /\ ~alone'[u]
           /\ u \notin S => Kept(u) /\ (alone'[u] => alone[u])
<1>1. CASE u \in S
    <2>1. /\ pc'[u] = "idle" /\ kind'[u] = "full" /\ messages'[u] = <<>>
          /\ iteration'[u] = 0 /\ calls'[u] = <<>> /\ checked'[u] = 0 /\ results'[u] = <<>>
        BY <1>1 DEF Forget
    <2>2. ~sound'[u] /\ ~alone'[u]
        BY <1>1 DEF Forget
    <2> QED
        BY <1>1, <2>1, <2>2
<1>2. CASE u \notin S
    <2>1. /\ pc'[u] = pc[u] /\ kind'[u] = kind[u] /\ messages'[u] = messages[u]
          /\ iteration'[u] = iteration[u] /\ calls'[u] = calls[u] /\ checked'[u] = checked[u]
          /\ results'[u] = results[u]
        BY <1>2 DEF Forget
    <2>2. sound'[u] = (u \notin S /\ sound[u]) /\ alone'[u] = (u \notin S /\ alone[u])
        BY DEF Forget
    <2> QED
        BY <1>2, <2>1, <2>2 DEF Kept
<1> QED
    BY <1>1, <1>2

\* A step of turn t changes its own variables.
OneTurn(t) ==
    /\ pc' = [pc EXCEPT ![t] = pc'[t]] /\ kind' = [kind EXCEPT ![t] = kind'[t]]
    /\ messages' = [messages EXCEPT ![t] = messages'[t]]
    /\ iteration' = [iteration EXCEPT ![t] = iteration'[t]]
    /\ calls' = [calls EXCEPT ![t] = calls'[t]] /\ checked' = [checked EXCEPT ![t] = checked'[t]]
    /\ results' = [results EXCEPT ![t] = results'[t]] /\ sound' = [sound EXCEPT ![t] = sound'[t]]

LEMMA OneTurnSteps ==
    ASSUME TypeOK, LoopInv, NEW t \in Turns, TurnStep(t) \/ CommandStep(t)
    PROVE  OneTurn(t)
<1> DEFINE F == /\ pc \in [Turns -> Loc] /\ kind \in [Turns -> {"full", "stream", "retry"}]
                /\ messages \in [Turns -> Seq(Message)]
                /\ iteration \in [Turns -> 0 .. MaxIterations]
                /\ calls \in [Turns -> Seq(Call)] /\ checked \in [Turns -> Nat]
                /\ results \in [Turns -> Seq(Ids \cup {Resolved})] /\ sound \in [Turns -> BOOLEAN]
<1>0. F
    BY DEF TypeOK, LoopInv, LoopTypes
<1> USE DEF OneTurn, Goto, Return, Record, local
<1>1. ASSUME NEW k, BeginTurn(t, k) PROVE OneTurn(t)
    BY <1>0, <1>1 DEF BeginTurn
<1>2. CASE ReadHistory(t) \/ ModelFails(t) \/ ModelAnswers(t) \/ StreamRefused(t)
    BY <1>0, <1>2 DEF ReadHistory, ModelFails, ModelAnswers, StreamRefused
<1>3. CASE ModelCallsTools(t)
    BY <1>0, <1>3 DEF ModelCallsTools
<1>4. CASE CheckCall(t)
    BY <1>0, <1>4 DEF CheckCall
<1>5. CASE ExecuteTools(t)
    BY <1>0, <1>5 DEF ExecuteTools
<1>6. CASE AppendResult(t) \/ FindOrphans(t) \/ PadOrphan(t)
    BY <1>0, <1>6 DEF AppendResult, FindOrphans, PadOrphan
<1>7. CASE NextIteration(t)
    BY <1>0, <1>7 DEF NextIteration
<1>8. CASE EndTurn(t) \/ StreamEnds(t) \/ StreamDropped(t)
    <2>1. Forget({t})
        BY <1>8 DEF EndTurn, StreamEnds, StreamDropped
    <2>2. sound' = [u \in Turns |-> u \notin {t} /\ sound[u]]
        BY <2>1 DEF Forget
    <2>3. sound' = [sound EXCEPT ![t] = sound'[t]]
        BY <1>0, <2>2
    <2>4. /\ pc' = [pc EXCEPT ![t] = pc'[t]] /\ kind' = [kind EXCEPT ![t] = kind'[t]]
          /\ messages' = [messages EXCEPT ![t] = messages'[t]]
          /\ iteration' = [iteration EXCEPT ![t] = iteration'[t]]
          /\ calls' = [calls EXCEPT ![t] = calls'[t]] /\ checked' = [checked EXCEPT ![t] = checked'[t]]
          /\ results' = [results EXCEPT ![t] = results'[t]]
        BY <1>0, <2>1 DEF Forget
    <2> QED
        BY <2>3, <2>4
<1>9. CASE CommandStep(t)
    BY <1>0, <1>9 DEF CommandStep, ClearHistory, RetryReads, RetryTrims
<1> QED
    BY <1>1, <1>2, <1>3, <1>4, <1>5, <1>6, <1>7, <1>8, <1>9 DEF TurnStep

LEMMA OthersKept ==
    ASSUME TypeOK, LoopInv, NEW t \in Turns, NEW u \in Turns, u # t, TurnStep(t) \/ CommandStep(t)
    PROVE  Kept(u)
<1>1. OneTurn(t)
    BY OneTurnSteps
<1> QED
    BY <1>1 DEF OneTurn, Kept, TypeOK, LoopInv, LoopTypes

LEMMA MessageTypes ==
    /\ {User, Warning, SystemPrompt, Assistant(<<>>)} \subseteq Message
    /\ \A i \in Ids : Tool(i) \in Message
    /\ \A c \in Seq(Ids) : Assistant(c) \in Message
<1>1. \A c \in Seq(Ids) : Assistant(c) \in Message
    BY DEF Assistant, Message
<1> QED
    BY <1>1, PlainMessages DEF Message

LEMMA IdsOfCalls ==
    ASSUME NEW c \in Seq(Call)
    PROVE  /\ IdsOf(c) \in Seq(Ids) /\ Len(IdsOf(c)) = Len(c)
           /\ \A i \in 1 .. Len(c) : IdsOf(c)[i] = c[i].id /\ c[i].id \in Ids
<1>1. \A i \in 1 .. Len(c) : c[i] \in Call
    BY SeqElement
<1>2. \A i \in 1 .. Len(c) : c[i].id \in Ids
    BY <1>1 DEF Call
<1> QED
    BY <1>2 DEF IdsOf

\* The calls of a response have numbers of their own.
LEMMA NewCalls ==
    ASSUME TypeOK, NEW t \in Turns, ModelCallsTools(t)
    PROVE  /\ lastId' \in 0 .. MaxIds
           /\ calls'[t] \in Seq(Call) /\ calls'[t] # <<>>
           /\ \A i, j \in 1 .. Len(calls'[t]) :
                IdsOf(calls'[t])[i] = IdsOf(calls'[t])[j] => i = j
           /\ \A u \in Turns : u # t => calls'[u] = calls[u]
<1>1. PICK sigs \in Responses :
        /\ lastId + Len(sigs) <= MaxIds /\ lastId' = lastId + Len(sigs)
        /\ calls' = [calls EXCEPT ![t] =
                        [i \in DOMAIN sigs |-> [id |-> lastId + i, sig |-> sigs[i]]]]
    BY DEF ModelCallsTools
<1>2. /\ sigs \in Seq(Sigs) /\ Len(sigs) \in Nat \ {0} /\ DOMAIN sigs = 1 .. Len(sigs)
      /\ lastId \in Nat /\ MaxIds \in Nat
    <2>1. PICK n \in 1 .. MaxCalls : sigs \in [1 .. n -> Sigs]
        BY DEF Responses
    <2>2. n \in Nat \ {0} /\ MaxIds \in Nat
        BY TurnAssumption
    <2>3. sigs \in Seq(Sigs) /\ Len(sigs) = n /\ DOMAIN sigs = 1 .. n
        BY <2>1, <2>2
    <2>4. lastId \in Nat
        BY DEF TypeOK
    <2> QED
        BY <2>2, <2>3, <2>4
<1> DEFINE c == [i \in 1 .. Len(sigs) |-> [id |-> lastId + i, sig |-> sigs[i]]]
<1>3. calls'[t] = c /\ \A u \in Turns : u # t => calls'[u] = calls[u]
    BY <1>1, <1>2 DEF TypeOK
<1>4. c \in Seq(Call)
    <2>1. \A i \in 1 .. Len(sigs) : lastId + i \in 1 .. MaxIds /\ sigs[i] \in Sigs
        BY <1>1, <1>2
    <2>2. \A i \in 1 .. Len(sigs) : [id |-> lastId + i, sig |-> sigs[i]] \in Call
        BY <2>1 DEF Call, Ids
    <2> QED
        BY <1>2, <2>2
<1>5. Len(c) = Len(sigs) /\ \A i \in 1 .. Len(sigs) : c[i].id = lastId + i
    BY <1>2
<1> HIDE DEF c
<1>6. \A i, j \in 1 .. Len(c) : IdsOf(c)[i] = IdsOf(c)[j] => i = j
    BY <1>2, <1>4, <1>5, IdsOfCalls
<1>7. c # <<>>
    BY <1>2, <1>5
<1>8. lastId' \in 0 .. MaxIds
    BY <1>1, <1>2
<1> QED
    BY <1>3, <1>4, <1>6, <1>7, <1>8

LEMMA AppendTyped ==
    ASSUME NEW m \in Seq(Message), NEW x \in Message
    PROVE  Append(m, x) \in Seq(Message)
OBVIOUS

\* What a turn appends to the history.
Grows ==
    \/ history' = history \/ history' = <<>>
    \/ \E x \in Message : history' = Append(history, x)
    \/ \E t \in Turns : history' = RetryCut(messages[t])

LEMMA HistoryGrows ==
    ASSUME TypeInv, [Next]_vars
    PROVE  Grows
<1> USE DEF Append1, Record
<1>1. ASSUME NEW t \in Turns, TurnStep(t) PROVE Grows
    <2>1. ASSUME NEW k, BeginTurn(t, k) PROVE Grows
        BY <2>1, MessageTypes DEF BeginTurn, Grows
    <2>2. CASE ReadHistory(t) \/ ModelFails(t) \/ ExecuteTools(t) \/ NextIteration(t) \/ FindOrphans(t)
               \/ EndTurn(t) \/ StreamDropped(t)
        BY <2>2 DEF ReadHistory, ModelFails, ExecuteTools, NextIteration, FindOrphans, EndTurn,
                    StreamDropped, Grows
    <2>3. CASE ModelAnswers(t) \/ StreamRefused(t) \/ StreamEnds(t)
        BY <2>3, MessageTypes DEF ModelAnswers, StreamRefused, StreamEnds, Grows
    <2>4. CASE ModelCallsTools(t)
        <3>1. calls'[t] \in Seq(Call)
            BY <2>4, NewCalls DEF TypeInv
        <3>2. Assistant(IdsOf(calls'[t])) \in Message
            BY <3>1, IdsOfCalls, MessageTypes
        <3> QED
            BY <2>4, <3>2 DEF ModelCallsTools, Grows
    <2>5. CASE CheckCall(t)
        BY <2>5, MessageTypes DEF CheckCall, Grows
    <2>6. CASE AppendResult(t)
        <3>1. results[t] \in Seq(Ids) /\ results[t] # <<>>
            BY <2>6 DEF AppendResult, TypeInv, StageInv
        <3>2. Tool(Head(results[t])) \in Message
            BY <3>1, MessageTypes
        <3> QED
            BY <2>6, <3>2 DEF AppendResult, Grows
    <2>7. CASE PadOrphan(t)
        <3>1. results[t] \in Seq(Ids \cup {Resolved}) /\ results[t] # <<>>
            BY <2>7 DEF PadOrphan, TypeInv, TypeOK
        <3>2. Head(results[t]) # Resolved => Tool(Head(results[t])) \in Message
            BY <3>1, MessageTypes
        <3> QED
            BY <2>7, <3>2 DEF PadOrphan, Grows
    <2> QED
        BY <1>1, <2>1, <2>2, <2>3, <2>4, <2>5, <2>6, <2>7 DEF TurnStep
<1>2. ASSUME NEW t \in Turns, CommandStep(t) PROVE Grows
    BY <1>2 DEF CommandStep, ClearHistory, RetryReads, RetryTrims, Grows
<1>3. CASE Inject
    BY <1>3, MessageTypes DEF Inject, Grows
<1>4. CASE Crash \/ AllServed \/ UNCHANGED vars
    BY <1>4 DEF Crash, AllServed, vars, Grows
<1> QED
    BY <1>1, <1>2, <1>3, <1>4 DEF Next

LEMMA HistoryTyped ==
    ASSUME TypeInv, [Next]_vars
    PROVE  history' \in Seq(Message)
<1>1. history \in Seq(Message) /\ \A t \in Turns : messages[t] \in Seq(Message)
    BY DEF TypeInv, TypeOK
<1>2. \A t \in Turns : RetryCut(messages[t]) \in Seq(Message)
    BY <1>1, CutComplete
<1>3. <<>> \in Seq(Message)
    OBVIOUS
<1> QED
    BY <1>1, <1>2, <1>3, AppendTyped, HistoryGrows DEF Grows

LEMMA PromptTyped ==
    ASSUME NEW m \in Seq(Message)
    PROVE  <<SystemPrompt>> \o m \in Seq(Message)
<1>1. <<SystemPrompt>> \in Seq(Message)
    BY MessageTypes
<1> QED
    BY <1>1

LEMMA TailTyped ==
    ASSUME NEW R, NEW s \in Seq(R), s # <<>>
    PROVE  Tail(s) \in Seq(R) /\ Head(s) \in R
OBVIOUS

LEMMA SeqMonotone ==
    ASSUME NEW R, NEW Q, R \subseteq Q, NEW s \in Seq(R)
    PROVE  s \in Seq(Q)
OBVIOUS

LEMMA OrphansTyped ==
    ASSUME NEW m \in Seq(Message)
    PROVE  Orphans(m) \in Seq(Ids \cup {Resolved})
<1>1. CASE Orphans(m) = <<>>
    BY <1>1
<1>2. CASE Orphans(m) # <<>>
    <2> DEFINE p == LastCaller(m)
               c == Asked(m[p])
    <2>1. Callers(m) # {} /\ Orphans(m) = [i \in DOMAIN c |-> IF Open(m, c[i]) THEN c[i] ELSE Resolved]
        BY <1>2 DEF Orphans
    <2>2. p \in 1 .. Len(m) /\ Asked(m[p]) # <<>>
        BY <2>1, LastCallerIs DEF Callers
    <2>3. c \in Seq(Ids)
        BY <2>2, SeqElement, AskerRole
    <2> HIDE DEF c
    <2>4. \A i \in DOMAIN c : c[i] \in Ids
        BY <2>3
    <2>5. DOMAIN c = 1 .. Len(c) /\ Len(c) \in Nat
        BY <2>3
    <2> QED
        BY <2>1, <2>4, <2>5
<1> QED
    BY <1>1, <1>2

\* Who takes a step: a turn, all at once, or nobody.
LEMMA WhoSteps ==
    ASSUME [Next]_vars
    PROVE  \/ \E t \in Turns : TurnStep(t) \/ CommandStep(t)
           \/ Forget(Turns) /\ UNCHANGED <<history, inputs, lastId>>
           \/ UNCHANGED <<lastId, pc, local>>
                /\ (UNCHANGED <<history, alone>> \/ (NobodyAlone /\ history' = Append(history, User)))
BY DEF Next, Inject, Append1, Crash, AllServed, vars, local

LEMMA MessagesTyped ==
    ASSUME TypeInv, LoopInv, [Next]_vars
    PROVE  messages' \in [Turns -> Seq(Message)]
<1>1. messages \in [Turns -> Seq(Message)] /\ history \in Seq(Message)
    BY DEF TypeInv, TypeOK
<1>2. ASSUME NEW t \in Turns, TurnStep(t) \/ CommandStep(t) PROVE messages'[t] \in Seq(Message)
    <2>1. messages[t] \in Seq(Message)
        BY <1>1
    <2>2. CASE messages' = messages
        BY <2>1, <2>2
    <2>3. CASE ReadHistory(t)
        <3>1. messages'[t] = <<SystemPrompt>> \o history
            BY <1>1, <2>3 DEF ReadHistory
        <3> QED
            BY <1>1, <3>1, PromptTyped
    <2>4. CASE ModelCallsTools(t)
        <3>1. calls'[t] \in Seq(Call)
            BY <2>4, NewCalls DEF TypeInv
        <3>2. Assistant(IdsOf(calls'[t])) \in Message
            BY <3>1, IdsOfCalls, MessageTypes
        <3>3. messages'[t] = Append(messages[t], Assistant(IdsOf(calls'[t])))
            BY <1>1, <2>4 DEF ModelCallsTools, Record
        <3> QED
            BY <2>1, <3>2, <3>3, AppendTyped
    <2>5. CASE CheckCall(t)
        <3>1. messages' = messages \/ messages'[t] = Append(messages[t], Warning)
            BY <1>1, <2>5 DEF CheckCall, Record
        <3> QED
            BY <2>1, <3>1, AppendTyped, MessageTypes
    <2>6. CASE AppendResult(t)
        <3>1. results[t] \in Seq(Ids) /\ results[t] # <<>>
            BY <2>6 DEF AppendResult, TypeInv, StageInv
        <3>2. Tool(Head(results[t])) \in Message
            BY <3>1, MessageTypes
        <3>3. messages'[t] = Append(messages[t], Tool(Head(results[t])))
            BY <1>1, <2>6 DEF AppendResult, Record
        <3> QED
            BY <2>1, <3>2, <3>3, AppendTyped
    <2>7. CASE RetryReads(t)
        <3>1. messages'[t] = history
            BY <1>1, <2>7 DEF RetryReads
        <3> QED
            BY <1>1, <3>1
    <2>8. CASE EndTurn(t) \/ StreamEnds(t) \/ StreamDropped(t)
        <3>1. messages'[t] = <<>>
            BY <2>8 DEF EndTurn, StreamEnds, StreamDropped, Forget
        <3> QED
            BY <3>1
    <2> QED
        BY <1>2, <2>2, <2>3, <2>4, <2>5, <2>6, <2>7, <2>8
           DEF TurnStep, CommandStep, BeginTurn, ModelFails, ModelAnswers, StreamRefused,
               ExecuteTools, NextIteration, FindOrphans, PadOrphan, ClearHistory, RetryTrims, local
<1>3. CASE \E t \in Turns : TurnStep(t) \/ CommandStep(t)
    <2>1. PICK t \in Turns : TurnStep(t) \/ CommandStep(t)
        BY <1>3
    <2>2. messages' = [messages EXCEPT ![t] = messages'[t]]
        BY <2>1, OneTurnSteps DEF OneTurn, TypeInv
    <2>3. messages'[t] \in Seq(Message)
        BY <1>2, <2>1
    <2> QED
        BY <1>1, <2>2, <2>3
<1>4. CASE Forget(Turns)
    <2>1. messages' = [t \in Turns |-> <<>>]
        BY <1>4 DEF Forget
    <2> QED
        BY <2>1
<1> QED
    BY <1>1, <1>3, <1>4, WhoSteps DEF local

\* What TypeOK says of one turn's variables.
Typed(t) ==
    /\ kind[t] \in {"full", "stream", "retry"}
    /\ iteration[t] \in 0 .. MaxIterations
    /\ calls[t] \in Seq(Call)
    /\ checked[t] \in 0 .. Len(calls[t])
    /\ results[t] \in Seq(Ids \cup {Resolved})
    /\ StageInv(t)

LEMMA TurnTyped ==
    ASSUME TypeInv, LoopInv, NEW t \in Turns, TurnStep(t) \/ CommandStep(t)
    PROVE  Typed(t)'
<1>1. /\ pc \in [Turns -> Loc] /\ kind \in [Turns -> {"full", "stream", "retry"}]
      /\ iteration \in [Turns -> 0 .. MaxIterations]
      /\ calls \in [Turns -> Seq(Call)] /\ checked \in [Turns -> Nat]
      /\ results \in [Turns -> Seq(Ids \cup {Resolved})]
    BY DEF TypeInv, TypeOK, LoopInv, LoopTypes
<1>2. Typed(t)
    BY DEF TypeInv, TypeOK, Typed
<1>3. MaxIterations \in Nat \ {0}
    BY TurnAssumption
<1>4. \A m \in Seq(Call) : Len(m) \in Nat
    OBVIOUS
<1> USE DEF Goto, Return, local, Typed, StageInv, Busy
<1>5. ASSUME NEW k \in {"full", "stream"}, BeginTurn(t, k) PROVE Typed(t)'
    BY <1>1, <1>2, <1>3, <1>5 DEF BeginTurn, Enter
<1>6. CASE ReadHistory(t)
    BY <1>1, <1>2, <1>3, <1>6 DEF ReadHistory
<1>7. CASE ModelFails(t) \/ ModelAnswers(t) \/ StreamRefused(t)
    BY <1>1, <1>2, <1>7 DEF ModelFails, ModelAnswers, StreamRefused
<1>8. CASE ModelCallsTools(t)
    <2>1. /\ pc[t] = "request" /\ pc'[t] = "check" /\ kind'[t] = kind[t] /\ results'[t] = results[t]
          /\ iteration'[t] = iteration[t] /\ checked'[t] = checked[t]
        BY <1>1, <1>8 DEF ModelCallsTools
    <2>2. calls'[t] \in Seq(Call)
        BY <1>8, NewCalls DEF TypeInv
    <2>3. checked[t] = 0
        BY <2>1 DEF LoopInv, TurnInv, CheckedInv
    <2>4. checked'[t] \in 0 .. Len(calls'[t])
        BY <1>4, <2>1, <2>2, <2>3
    <2> QED
        BY <1>2, <2>1, <2>2, <2>4
<1>9. CASE CheckCall(t)
    <2>1. /\ pc[t] = "check" /\ pc'[t] \in {"check", "pad", "return"} /\ kind'[t] = kind[t]
          /\ results'[t] = results[t] /\ iteration'[t] = iteration[t] /\ calls'[t] = calls[t]
        BY <1>1, <1>9 DEF CheckCall
    <2>2. checked'[t] = checked[t] + 1 /\ checked[t] < Len(calls[t])
        BY <1>1, <1>9 DEF CheckCall
    <2>3. checked'[t] \in 0 .. Len(calls'[t])
        BY <1>2, <1>4, <2>1, <2>2
    <2> QED
        BY <1>2, <2>1, <2>3
<1>10. CASE ExecuteTools(t)
    <2>1. /\ pc[t] = "check" /\ pc'[t] = "results" /\ kind'[t] = kind[t]
          /\ iteration'[t] = iteration[t] /\ calls'[t] = calls[t] /\ checked'[t] = checked[t]
        BY <1>1, <1>10 DEF ExecuteTools
    <2>2. results'[t] = IdsOf(calls[t])
        BY <1>1, <1>10 DEF ExecuteTools, Backstop, ToolResults
    <2>3. results'[t] \in Seq(Ids)
        BY <1>2, <2>2, IdsOfCalls
    <2>4. results'[t] \in Seq(Ids \cup {Resolved})
        BY <2>3, SeqMonotone
    <2> QED
        BY <1>2, <2>1, <2>3, <2>4
<1>11. CASE AppendResult(t)
    <2>1. /\ pc[t] = "results" /\ pc'[t] = "results" /\ kind'[t] = kind[t]
          /\ iteration'[t] = iteration[t] /\ calls'[t] = calls[t] /\ checked'[t] = checked[t]
          /\ results[t] # <<>> /\ results'[t] = Tail(results[t])
        BY <1>1, <1>11 DEF AppendResult
    <2>2. results'[t] \in Seq(Ids)
        BY <1>2, <2>1, TailTyped
    <2>3. results'[t] \in Seq(Ids \cup {Resolved})
        BY <2>2, SeqMonotone
    <2> QED
        BY <1>2, <2>1, <2>2, <2>3
<1>12. CASE NextIteration(t)
    <2>1. /\ pc[t] = "results" /\ kind'[t] = kind[t] /\ results'[t] = results[t] /\ results[t] = <<>>
          /\ calls'[t] = <<>> /\ checked'[t] = 0 /\ iteration'[t] = iteration[t] + 1
          /\ pc'[t] = "request" => iteration'[t] # MaxIterations
          /\ pc'[t] \in {"pad", "return", "request"}
        BY <1>1, <1>12 DEF NextIteration
    <2>2. iteration[t] < MaxIterations /\ iteration[t] \in Nat
        BY <1>2, <1>3, <2>1
    <2>3. iteration'[t] \in 0 .. MaxIterations /\ (pc'[t] = "request" => iteration'[t] < MaxIterations)
        BY <1>3, <2>1, <2>2
    <2> QED
        BY <1>2, <2>1, <2>3
<1>13. CASE FindOrphans(t)
    <2>1. /\ pc'[t] = "padding" /\ kind'[t] = kind[t] /\ results'[t] = Orphans(history)
          /\ iteration'[t] = iteration[t] /\ calls'[t] = calls[t] /\ checked'[t] = checked[t]
        BY <1>1, <1>13 DEF FindOrphans
    <2>2. results'[t] \in Seq(Ids \cup {Resolved})
        BY <2>1, OrphansTyped DEF TypeInv, TypeOK
    <2> QED
        BY <1>2, <2>1, <2>2
<1>14. CASE PadOrphan(t)
    <2>1. /\ pc'[t] = "padding" /\ kind'[t] = kind[t] /\ results[t] # <<>> /\ results'[t] = Tail(results[t])
          /\ iteration'[t] = iteration[t] /\ calls'[t] = calls[t] /\ checked'[t] = checked[t]
        BY <1>1, <1>14 DEF PadOrphan
    <2>2. results'[t] \in Seq(Ids \cup {Resolved})
        BY <1>2, <2>1, TailTyped
    <2> QED
        BY <1>2, <2>1, <2>2
<1>15. CASE EndTurn(t) \/ StreamEnds(t) \/ StreamDropped(t)
    <2>1. Forget({t})
        BY <1>15 DEF EndTurn, StreamEnds, StreamDropped
    <2>2. /\ pc'[t] = "idle" /\ kind'[t] = "full" /\ iteration'[t] = 0 /\ calls'[t] = <<>>
          /\ checked'[t] = 0 /\ results'[t] = <<>>
        BY <2>1, ForgetOne
    <2> QED
        BY <1>3, <2>2
<1>16. CASE ClearHistory(t)
    BY <1>1, <1>2, <1>16 DEF ClearHistory
<1>17. CASE RetryReads(t)
    BY <1>1, <1>2, <1>17 DEF RetryReads, Enter
<1>18. CASE RetryTrims(t)
    BY <1>1, <1>2, <1>18 DEF RetryTrims
<1> QED
    BY <1>5, <1>6, <1>7, <1>8, <1>9, <1>10, <1>11, <1>12, <1>13, <1>14, <1>15, <1>16, <1>17, <1>18
       DEF TurnStep, CommandStep

LEMMA CountersTyped ==
    ASSUME TypeInv, LoopInv, [Next]_vars
    PROVE  inputs' \in 0 .. MaxInputs /\ lastId' \in 0 .. MaxIds
<1>1. inputs \in 0 .. MaxInputs /\ lastId \in 0 .. MaxIds /\ MaxInputs \in Nat
    BY TurnAssumption DEF TypeInv, TypeOK
<1>2. inputs' = inputs \/ (inputs < MaxInputs /\ inputs' = inputs + 1)
    BY DEF Next, TurnStep, CommandStep, BeginTurn, Enter, Input, ReadHistory, ModelFails, ModelAnswers,
           StreamRefused, ModelCallsTools, CheckCall, ExecuteTools, AppendResult, NextIteration,
           FindOrphans, PadOrphan, EndTurn, StreamEnds, StreamDropped, ClearHistory, RetryReads,
           RetryTrims, Inject, Crash, AllServed, vars
<1>3. lastId' = lastId \/ \E t \in Turns : ModelCallsTools(t)
    BY DEF Next, TurnStep, CommandStep, BeginTurn, ReadHistory, ModelFails, ModelAnswers,
           StreamRefused, CheckCall, ExecuteTools, AppendResult, NextIteration,
           FindOrphans, PadOrphan, EndTurn, StreamEnds, StreamDropped, ClearHistory, RetryReads,
           RetryTrims, Inject, Crash, AllServed, vars
<1>4. inputs' \in 0 .. MaxInputs
    BY <1>1, <1>2
<1>5. lastId' \in 0 .. MaxIds
    BY <1>1, <1>3, NewCalls DEF TypeInv
<1> QED
    BY <1>4, <1>5

LEMMA ConsecutiveTyped ==
    ASSUME TypeInv, LoopInv, [Next]_vars
    PROVE  consecutive' \in [Turns -> 0 .. 3]
<1>1. consecutive \in [Turns -> 0 .. 3]
    BY DEF TypeInv, TypeOK
<1>2. ASSUME NEW t \in Turns, CheckCall(t) PROVE consecutive' \in [Turns -> 0 .. 3]
    <2>1. pc[t] = "check" /\ consecutive' = [consecutive EXCEPT ![t] = RunLength(t)]
        BY <1>2 DEF CheckCall
    <2>2. consecutive[t] <= 2
        BY <2>1 DEF LoopInv, TurnInv, RunInv, Busy
    <2>3. RunLength(t) \in 0 .. 3
        BY <1>1, <2>2 DEF RunLength
    <2> QED
        BY <1>1, <2>1, <2>3
<1>3. ASSUME NEW S \in SUBSET Turns, Forget(S) PROVE consecutive' \in [Turns -> 0 .. 3]
    BY <1>1, <1>3 DEF Forget
<1>4. ASSUME NEW t \in Turns, TurnStep(t) \/ CommandStep(t)
      PROVE  consecutive' = consecutive \/ CheckCall(t) \/ Forget({t})
    BY <1>4 DEF TurnStep, CommandStep, BeginTurn, ReadHistory, ModelFails, ModelAnswers,
           StreamRefused, ModelCallsTools, ExecuteTools, AppendResult, NextIteration,
           FindOrphans, PadOrphan, EndTurn, StreamEnds, StreamDropped, ClearHistory, RetryReads,
           RetryTrims, local
<1>5. \A t \in Turns : {t} \in SUBSET Turns
    OBVIOUS
<1> QED
    BY <1>1, <1>2, <1>3, <1>4, <1>5, WhoSteps DEF local

LEMMA FlagsTyped ==
    ASSUME TypeInv, LoopInv, [Next]_vars
    PROVE  alone' \in [Turns -> BOOLEAN] /\ sound' \in [Turns -> BOOLEAN]
<1>1. alone \in [Turns -> BOOLEAN] /\ sound \in [Turns -> BOOLEAN]
    BY DEF TypeInv, TypeOK
<1>2. ASSUME NEW S \in SUBSET Turns, Forget(S)
      PROVE  alone' \in [Turns -> BOOLEAN] /\ sound' \in [Turns -> BOOLEAN]
    BY <1>2 DEF Forget
<1>3. \A t \in Turns : {t} \in SUBSET Turns
    OBVIOUS
<1>4. ASSUME NEW t \in Turns, TurnStep(t) \/ CommandStep(t)
      PROVE  \/ sound' = sound \/ sound' = [sound EXCEPT ![t] = WellFormed(history)] \/ Forget({t})
    BY <1>4 DEF TurnStep, CommandStep, BeginTurn, ReadHistory, ModelFails, ModelAnswers,
           StreamRefused, ModelCallsTools, CheckCall, ExecuteTools, AppendResult, NextIteration,
           FindOrphans, PadOrphan, EndTurn, StreamEnds, StreamDropped, ClearHistory, RetryReads,
           RetryTrims, local
<1>5. ASSUME NEW t \in Turns, TurnStep(t) \/ CommandStep(t)
      PROVE  alone' = alone \/ Alone(t) \/ NobodyAlone \/ Forget({t})
    BY <1>5 DEF TurnStep, CommandStep, BeginTurn, ReadHistory, ModelFails, ModelAnswers,
           StreamRefused, ModelCallsTools, CheckCall, ExecuteTools, AppendResult, NextIteration,
           FindOrphans, PadOrphan, EndTurn, StreamEnds, StreamDropped, ClearHistory, RetryReads,
           RetryTrims, local
<1>6. WellFormed(history) \in BOOLEAN
    BY DEF WellFormed, CompleteTo
<1>7. ASSUME NEW t \in Turns, sound' = [sound EXCEPT ![t] = WellFormed(history)]
      PROVE  sound' \in [Turns -> BOOLEAN]
    BY <1>1, <1>6, <1>7
<1>8. sound' \in [Turns -> BOOLEAN]
    BY <1>1, <1>2, <1>3, <1>4, <1>7, WhoSteps DEF local
<1>9. (\E t \in Turns : Alone(t)) \/ NobodyAlone => alone' \in [Turns -> BOOLEAN]
    BY DEF Alone, NobodyAlone
<1>10. alone' \in [Turns -> BOOLEAN]
    BY <1>1, <1>2, <1>3, <1>5, <1>9, WhoSteps
<1> QED
    BY <1>8, <1>10

LEMMA TypeInvStep ==
    ASSUME TypeInv, LoopInv, LoopInv', [Next]_vars
    PROVE  TypeInv'
<1>1. /\ kind \in [Turns -> {"full", "stream", "retry"}]
      /\ iteration \in [Turns -> 0 .. MaxIterations]
      /\ calls \in [Turns -> Seq(Call)] /\ checked \in [Turns -> Nat]
      /\ results \in [Turns -> Seq(Ids \cup {Resolved})]
    BY DEF TypeInv, TypeOK, LoopInv, LoopTypes
<1>2. \A t \in Turns : Typed(t)
    BY DEF TypeInv, TypeOK, Typed
<1>3. /\ kind' \in [Turns -> {"full", "stream", "retry"}]
      /\ iteration' \in [Turns -> 0 .. MaxIterations]
      /\ calls' \in [Turns -> Seq(Call)]
      /\ results' \in [Turns -> Seq(Ids \cup {Resolved})]
      /\ \A t \in Turns : Typed(t)'
    <2>1. CASE \E t \in Turns : TurnStep(t) \/ CommandStep(t)
        <3>1. PICK t \in Turns : TurnStep(t) \/ CommandStep(t)
            BY <2>1
        <3>2. Typed(t)' /\ OneTurn(t)
            BY <3>1, TurnTyped, OneTurnSteps DEF TypeInv
        <3>3. ASSUME NEW u \in Turns, u # t PROVE Typed(u)'
            <4>1. Kept(u)
                BY <3>1, <3>3, OthersKept DEF TypeInv
            <4> QED
                BY <1>2, <4>1 DEF Kept, Typed, StageInv
        <3>4. /\ kind' \in [Turns -> {"full", "stream", "retry"}]
              /\ iteration' \in [Turns -> 0 .. MaxIterations]
              /\ calls' \in [Turns -> Seq(Call)]
              /\ results' \in [Turns -> Seq(Ids \cup {Resolved})]
            BY <1>1, <3>2 DEF Typed, OneTurn
        <3> QED
            BY <3>2, <3>3, <3>4
    <2>2. CASE Forget(Turns)
        <3>1. MaxIterations \in Nat \ {0}
            BY TurnAssumption
        <3>2. /\ kind' = [t \in Turns |-> "full"] /\ iteration' = [t \in Turns |-> 0]
              /\ calls' = [t \in Turns |-> <<>>] /\ results' = [t \in Turns |-> <<>>]
              /\ pc' = [t \in Turns |-> "idle"] /\ checked' = [t \in Turns |-> 0]
            BY <2>2 DEF Forget
        <3>3. <<>> \in Seq(Call) /\ <<>> \in Seq(Ids \cup {Resolved}) /\ Len(<<>>) = 0
            OBVIOUS
        <3>4. ASSUME NEW t \in Turns PROVE Typed(t)'
            BY <3>1, <3>2, <3>3 DEF Typed, StageInv, Busy
        <3> QED
            BY <3>1, <3>2, <3>3, <3>4
    <2>3. CASE UNCHANGED <<pc, local>>
        BY <1>1, <1>2, <2>3 DEF Typed, StageInv, local
    <2> QED
        BY <2>1, <2>2, <2>3, WhoSteps
<1>4. \A t \in Turns : checked'[t] \in 0 .. Len(calls'[t]) /\ StageInv(t)'
    BY <1>3 DEF Typed
<1>5. pc' \in [Turns -> Loc] /\ lastSig' \in [Turns -> Sigs \cup {NoSig}] /\ ran' \in [Turns -> Seq(Sigs)]
    BY DEF LoopInv, LoopTypes
<1>6. \A t \in Turns :
        /\ results'[t] # <<>> => pc'[t] \in {"results", "padding"}
        /\ pc'[t] = "request" => calls'[t] = <<>> /\ iteration'[t] < MaxIterations
    BY <1>4 DEF StageInv, Busy, LoopInv, TurnInv, CheckedInv
<1>7. TypeOK'
    BY <1>3, <1>4, <1>5, <1>6, HistoryTyped, MessagesTyped, CountersTyped, ConsecutiveTyped, FlagsTyped
       DEF TypeOK
<1> QED
    BY <1>4, <1>7 DEF TypeInv

LEMMA TypeInvInit == Init => TypeInv
<1> SUFFICES ASSUME Init PROVE TypeInv
    OBVIOUS
<1>1. {MaxIterations, MaxIds, MaxInputs} \subseteq Nat \ {0}
    BY TurnAssumption
<1>2. \A R : <<>> \in Seq(R)
    OBVIOUS
<1>3. /\ history \in Seq(Message) /\ messages \in [Turns -> Seq(Message)] /\ calls \in [Turns -> Seq(Call)]
      /\ results \in [Turns -> Seq(Ids \cup {Resolved})] /\ ran \in [Turns -> Seq(Sigs)]
    BY <1>2 DEF Init
<1>4. /\ inputs \in 0 .. MaxInputs /\ lastId \in 0 .. MaxIds /\ iteration \in [Turns -> 0 .. MaxIterations]
      /\ consecutive \in [Turns -> 0 .. 3] /\ lastSig \in [Turns -> Sigs \cup {NoSig}]
    BY <1>1 DEF Init
<1>5. /\ pc \in [Turns -> Loc] /\ kind \in [Turns -> {"full", "stream", "retry"}]
      /\ alone \in [Turns -> BOOLEAN] /\ sound \in [Turns -> BOOLEAN]
    BY DEF Init, Loc
<1>6. \A t \in Turns : /\ pc[t] = "idle" /\ calls[t] = <<>> /\ results[t] = <<>> /\ checked[t] = 0
                       /\ iteration[t] = 0
    BY DEF Init
<1>7. \A t \in Turns : checked[t] \in 0 .. Len(calls[t]) /\ StageInv(t)
    BY <1>6 DEF StageInv, Busy
<1> QED
    BY <1>3, <1>4, <1>5, <1>6, <1>7 DEF TypeInv, TypeOK

LEMMA TypesHold == Spec => [](TypeInv /\ LoopInv)
BY TypeInvInit, TypeInvStep, LoopInvInit, LoopInvStep, PTL DEF Spec

\* Types, with what they rest on: a turn is inside a round when it holds calls or
\* results, iterates at most maxToolIterations times, and its loop detection never
\* counts beyond three.
THEOREM TypeCorrect == Spec => []TypeOK
BY TypesHold, PTL DEF TypeInv

--------------------------------------------------------------------------------
(***************************************************************************)
(* Who has the session to itself.                                          *)
(***************************************************************************)
LEMMA AloneChanges ==
    ASSUME NEW t \in Turns, TurnStep(t) \/ CommandStep(t)
    PROVE  \/ pc[t] = "idle" /\ (Alone(t) \/ NobodyAlone)
           \/ pc[t] # "idle" /\ (alone' = alone \/ Forget({t}))
BY DEF TurnStep, CommandStep, BeginTurn, Enter, ReadHistory, ModelFails, ModelAnswers,
       StreamRefused, ModelCallsTools, CheckCall, ExecuteTools, AppendResult, NextIteration,
       FindOrphans, PadOrphan, EndTurn, StreamEnds, StreamDropped, ClearHistory, RetryReads,
       RetryTrims

\* A step of a turn is the end of any other turn's being alone.
LEMMA OthersNotAlone ==
    ASSUME NEW t \in Turns, NEW u \in Turns, u # t, AloneInv(u), TurnStep(t) \/ CommandStep(t)
    PROVE  ~alone'[u]
<1>1. CASE pc[t] = "idle"
    BY <1>1, AloneChanges DEF Alone, NobodyAlone
<1>2. CASE pc[t] # "idle"
    <2>1. ~alone[u]
        BY <1>2 DEF AloneInv
    <2>2. {t} \in SUBSET Turns /\ u \notin {t}
        OBVIOUS
    <2>3. Forget({t}) => (alone'[u] => alone[u])
        BY <2>2, ForgetOne
    <2> QED
        BY <1>2, <2>1, <2>3, AloneChanges
<1> QED
    BY <1>1, <1>2

LEMMA AloneKept ==
    ASSUME TypeOK, LoopInv, NEW t \in Turns, AloneInv(t), TurnStep(t) \/ CommandStep(t)
    PROVE  AloneInv(t)'
<1> SUFFICES ASSUME alone'[t], NEW u \in Turns, u # t PROVE pc'[u] = "idle"
    BY DEF AloneInv
<1>1. pc'[u] = pc[u]
    BY OthersKept DEF Kept
<1>2. ~NobodyAlone
    BY DEF NobodyAlone
<1>3. ~Forget({t})
    <2>1. {t} \in SUBSET Turns /\ t \in {t}
        OBVIOUS
    <2> QED
        BY <2>1, ForgetOne
<1>4. CASE Alone(t)
    <2>1. \A v \in Turns : pc[v] = "idle"
        BY <1>4 DEF Alone
    <2> QED
        BY <1>1, <2>1
<1>5. CASE alone' = alone
    BY <1>1, <1>5 DEF AloneInv
<1> QED
    BY <1>2, <1>3, <1>4, <1>5, AloneChanges

\* What other turns do to a turn.
LEMMA DisturbedKeeps ==
    ASSUME NEW u \in Turns, Kept(u), ~alone'[u], KindInv(u), ListInv(u)
    PROVE  KindInv(u)' /\ AloneInv(u)' /\ CopyInv(u)' /\ ListInv(u)'
<1>1. KindInv(u)'
    BY DEF KindInv, Kept
<1>2. AloneInv(u)' /\ CopyInv(u)'
    BY DEF AloneInv, CopyInv
<1>3. RoundInv(u, messages[u]) => RoundInv(u, messages[u])'
    BY DEF RoundInv, Kept
<1>4. ListInv(u)'
    BY <1>3 DEF ListInv, Kept
<1> QED
    BY <1>1, <1>2, <1>4

LEMMA ForgottenKeeps ==
    ASSUME NEW u \in Turns, pc'[u] = "idle", kind'[u] = "full", ~sound'[u], ~alone'[u]
    PROVE  KindInv(u)' /\ AloneInv(u)' /\ CopyInv(u)' /\ ListInv(u)'
BY DEF KindInv, AloneInv, CopyInv, ListInv

--------------------------------------------------------------------------------
(***************************************************************************)
(* The lists of a turn, step by step.                                      *)
(***************************************************************************)
LEMMA PromptAppend ==
    ASSUME NEW h \in Seq(Message), NEW x \in Message
    PROVE  Append(<<SystemPrompt>> \o h, x) = <<SystemPrompt>> \o Append(h, x)
<1>1. <<SystemPrompt>> \in Seq(Message)
    BY MessageTypes
<1> HIDE DEF SystemPrompt
<1> QED
    BY <1>1

LEMMA KindKept ==
    ASSUME TypeInv, LoopInv, NEW t \in Turns, KindInv(t), TurnStep(t) \/ CommandStep(t)
    PROVE  KindInv(t)'
<1>1. pc \in [Turns -> Loc] /\ kind \in [Turns -> {"full", "stream", "retry"}]
    BY DEF TypeInv, TypeOK
<1> USE DEF KindInv, Goto, Return, local
<1>2. ASSUME NEW k \in {"full", "stream"}, BeginTurn(t, k) PROVE KindInv(t)'
    BY <1>1, <1>2 DEF BeginTurn
<1>3. CASE ReadHistory(t) \/ ModelFails(t) \/ ModelAnswers(t) \/ StreamRefused(t)
    BY <1>1, <1>3 DEF ReadHistory, ModelFails, ModelAnswers, StreamRefused
<1>4. CASE ModelCallsTools(t) \/ ExecuteTools(t) \/ AppendResult(t)
    BY <1>1, <1>4 DEF ModelCallsTools, ExecuteTools, AppendResult, Record
<1>5. CASE CheckCall(t) \/ NextIteration(t)
    BY <1>1, <1>5 DEF CheckCall, NextIteration
<1>6. CASE FindOrphans(t) \/ PadOrphan(t)
    BY <1>1, <1>6 DEF FindOrphans, PadOrphan
<1>7. CASE EndTurn(t) \/ StreamEnds(t) \/ StreamDropped(t)
    <2>1. Forget({t}) /\ {t} \in SUBSET Turns /\ t \in {t}
        BY <1>7 DEF EndTurn, StreamEnds, StreamDropped
    <2>2. pc'[t] = "idle" /\ kind'[t] = "full"
        BY <2>1, ForgetOne
    <2> QED
        BY <2>2
<1>8. CASE CommandStep(t)
    BY <1>1, <1>8 DEF CommandStep, ClearHistory, RetryReads, RetryTrims
<1> QED
    BY <1>2, <1>3, <1>4, <1>5, <1>6, <1>7, <1>8 DEF TurnStep

LEMMA ReadHistoryLists ==
    ASSUME TypeInv, NEW t \in Turns, ReadHistory(t)
    PROVE  CopyInv(t)' /\ ListInv(t)'
<1>1. /\ pc'[t] = "request" /\ messages'[t] = <<SystemPrompt>> \o history /\ history' = history
      /\ sound'[t] = WellFormed(history) /\ history \in Seq(Message)
    BY DEF ReadHistory, Goto, TypeInv, TypeOK
<1>2. WellFormed(history) => WellFormed(messages'[t])
    BY <1>1, PromptInFront
<1>3. CopyInv(t)'
    BY <1>1 DEF CopyInv
<1>4. ListInv(t)'
    BY <1>1, <1>2 DEF ListInv, RoundInv, PadInv
<1> QED
    BY <1>3, <1>4

LEMMA ModelEndsLists ==
    ASSUME TypeInv, NEW t \in Turns, KindInv(t), ListInv(t),
           ModelFails(t) \/ ModelAnswers(t) \/ StreamRefused(t)
    PROVE  CopyInv(t)' /\ ListInv(t)'
<1>1. /\ pc[t] = "request" /\ kind[t] # "retry" /\ kind'[t] = kind[t] /\ sound' = sound /\ alone' = alone
      /\ pc'[t] \in {"pad", "return", "stream"} /\ (pc'[t] = "pad" => kind[t] = "full")
    BY DEF ModelFails, ModelAnswers, StreamRefused, Return, Goto, KindInv, TypeInv, TypeOK, local
<1>2. pc'[t] = "pad" => history' = history \/ history' = Append(history, Assistant(<<>>))
    BY <1>1 DEF ModelFails, ModelAnswers, StreamRefused, Append1
<1>3. alone[t] /\ sound[t] => WellFormed(history)
    BY <1>1 DEF ListInv, RoundInv
<1>4. WellFormed(history) => WellFormed(Append(history, Assistant(<<>>)))
    BY AppendPlain, PlainMessages DEF TypeInv, TypeOK
<1>5. CopyInv(t)'
    BY <1>1 DEF CopyInv, Busy
<1>6. ListInv(t)'
    BY <1>1, <1>2, <1>3, <1>4 DEF ListInv, RoundInv, PadInv
<1> QED
    BY <1>5, <1>6

\* A message goes to the history and to the prompt.
LEMMA RecordKeepsCopy ==
    ASSUME TypeInv, NEW t \in Turns, NEW x \in Message, CopyInv(t), alone'[t] => alone[t],
           pc[t] \in Busy, pc'[t] # "trim",
           history' = Append(history, x), messages'[t] = Append(messages[t], x)
    PROVE  CopyInv(t)'
<1>1. history \in Seq(Message)
    BY DEF TypeInv, TypeOK
<1>2. Append(<<SystemPrompt>> \o history, x) = <<SystemPrompt>> \o Append(history, x)
    BY <1>1, PromptAppend
<1> QED
    BY <1>2 DEF CopyInv

LEMMA ModelCallsToolsLists ==
    ASSUME TypeInv, NEW t \in Turns, CopyInv(t), ListInv(t), ModelCallsTools(t)
    PROVE  CopyInv(t)' /\ ListInv(t)'
<1> DEFINE c == IdsOf(calls'[t])
           x == Assistant(c)
<1>1. /\ pc[t] = "request" /\ pc'[t] = "check" /\ sound' = sound /\ alone' = alone
      /\ history' = Append(history, x) /\ messages'[t] = Append(messages[t], x)
      /\ history \in Seq(Message) /\ messages[t] \in Seq(Message)
    BY DEF ModelCallsTools, Goto, Record, Append1, TypeInv, TypeOK
<1>2. /\ calls'[t] \in Seq(Call) /\ calls'[t] # <<>>
      /\ \A i, j \in 1 .. Len(calls'[t]) : c[i] = c[j] => i = j
    BY NewCalls DEF TypeInv
<1>3. c \in Seq(Ids) /\ Len(c) = Len(calls'[t])
    BY <1>2, IdsOfCalls
<1>4. c # <<>>
    BY <1>2, <1>3
<1>5. x \in Message
    BY <1>3, MessageTypes
<1>6. CopyInv(t)'
    BY <1>1, <1>5, RecordKeepsCopy DEF Busy
<1> HIDE DEF c
<1>7. ASSUME NEW m \in Seq(Message), WellFormed(m)
      PROVE  \E p \in 1 .. Len(Append(m, x)) : Partial(Append(m, x), p, 0) /\ Asked(Append(m, x)[p]) = c
    <2>1. Partial(Append(m, x), Len(m) + 1, 0) /\ Asked(Append(m, x)[Len(m) + 1]) = c
        BY <1>2, <1>3, <1>4, <1>7, StartsRound
    <2>2. Len(m) + 1 \in 1 .. Len(Append(m, x))
        BY <1>5
    <2> QED
        BY <2>1, <2>2
<1>8. sound[t] => WellFormed(messages[t])
    BY <1>1 DEF ListInv, RoundInv
<1>9. sound[t] /\ alone[t] => WellFormed(history)
    BY <1>1 DEF ListInv, RoundInv
<1>10. /\ sound'[t] => \E p \in 1 .. Len(messages'[t]) : Partial(messages'[t], p, 0) /\ Asked(messages'[t][p]) = c
       /\ sound'[t] /\ alone'[t] => \E p \in 1 .. Len(history') : Partial(history', p, 0) /\ Asked(history'[p]) = c
    BY <1>1, <1>7, <1>8, <1>9
<1>11. ListInv(t)'
    BY <1>1, <1>10 DEF ListInv, RoundInv, PadInv, c
<1> QED
    BY <1>6, <1>11

LEMMA CheckCallLists ==
    ASSUME TypeInv, NEW t \in Turns, KindInv(t), CopyInv(t), ListInv(t), CheckCall(t)
    PROVE  CopyInv(t)' /\ ListInv(t)'
<1>1. /\ pc[t] = "check" /\ kind[t] # "retry" /\ kind' = kind /\ sound' = sound /\ alone' = alone
      /\ calls' = calls /\ history \in Seq(Message) /\ messages[t] \in Seq(Message)
    BY DEF CheckCall, KindInv, TypeInv, TypeOK
<1>2. CASE UNCHANGED <<history, messages, pc>>
    BY <1>1, <1>2 DEF CopyInv, ListInv, RoundInv, PadInv
<1>3. CASE Record(t, Warning) /\ Return(t)
    <2>1. /\ pc'[t] \in {"pad", "return"}
          /\ history' = Append(history, Warning) /\ messages'[t] = Append(messages[t], Warning)
        BY <1>3 DEF Record, Append1, Return, Goto, TypeInv, TypeOK
    <2>2. CopyInv(t)'
        BY <2>1 DEF CopyInv, Busy
    <2>3. ASSUME alone[t], sound[t] PROVE \E p \in 1 .. Len(history') : Partial(history', p, 0)
        <3>1. PICK p \in 1 .. Len(history) : Partial(history, p, 0)
            BY <1>1, <2>3 DEF ListInv, RoundInv
        <3>2. Warning \in Message /\ Warning.role = "system"
            BY MessageTypes DEF Warning
        <3>3. Partial(history', p, 0)
            BY <1>1, <2>1, <3>1, <3>2, WarnKeeps
        <3>4. p \in 1 .. Len(history')
            BY <1>1, <2>1, <3>2
        <3> QED
            BY <3>3, <3>4
    <2>4. ListInv(t)'
        BY <1>1, <2>1, <2>3 DEF ListInv, RoundInv, PadInv
    <2> QED
        BY <2>2, <2>4
<1> QED
    BY <1>2, <1>3 DEF CheckCall

LEMMA ExecuteToolsLists ==
    ASSUME TypeInv, NEW t \in Turns, CopyInv(t), ListInv(t), ExecuteTools(t)
    PROVE  CopyInv(t)' /\ ListInv(t)'
<1>1. /\ pc[t] = "check" /\ pc'[t] = "results" /\ sound' = sound /\ alone' = alone
      /\ history' = history /\ messages' = messages
      /\ history \in Seq(Message) /\ messages[t] \in Seq(Message)
    BY DEF ExecuteTools, Goto, TypeInv, TypeOK
<1>2. results'[t] = IdsOf(calls[t])
    BY DEF ExecuteTools, Backstop, ToolResults, TypeInv, TypeOK
<1>3. ASSUME NEW m \in Seq(Message), RoundInv(t, m) PROVE Awaiting(results'[t], m)
    <2>1. PICK p \in 1 .. Len(m) : Partial(m, p, 0) /\ Asked(m[p]) = IdsOf(calls[t])
        BY <1>1, <1>3 DEF RoundInv
    <2> QED
        BY <1>2, <2>1, RoundBegins
<1>4. CopyInv(t)'
    BY <1>1 DEF CopyInv, Busy
<1>5. ListInv(t)'
    BY <1>1, <1>3 DEF ListInv, RoundInv, PadInv
<1> QED
    BY <1>4, <1>5

LEMMA AppendResultLists ==
    ASSUME TypeInv, NEW t \in Turns, CopyInv(t), ListInv(t), AppendResult(t)
    PROVE  CopyInv(t)' /\ ListInv(t)'
<1> DEFINE s == results[t]
           x == Tool(Head(s))
<1>1. /\ pc[t] = "results" /\ pc'[t] = "results" /\ sound' = sound /\ alone' = alone
      /\ s # <<>> /\ results'[t] = Tail(s)
      /\ history' = Append(history, x) /\ messages'[t] = Append(messages[t], x)
      /\ history \in Seq(Message) /\ messages[t] \in Seq(Message) /\ s \in Seq(Ids \cup {Resolved})
    BY DEF AppendResult, Record, Append1, TypeInv, TypeOK
<1>2. x \in Message
    <2>1. s \in Seq(Ids)
        BY <1>1 DEF TypeInv, StageInv
    <2> QED
        BY <1>1, <2>1, MessageTypes
<1>3. CopyInv(t)'
    BY <1>1, <1>2, RecordKeepsCopy DEF Busy
<1>4. ASSUME NEW m \in Seq(Message), RoundInv(t, m) PROVE Awaiting(results'[t], Append(m, x))
    <2>1. Awaiting(s, m)
        BY <1>1, <1>4 DEF RoundInv
    <2> QED
        BY <1>1, <2>1, AnswerOne
<1>5. /\ sound'[t] => Awaiting(results'[t], messages'[t])
      /\ sound'[t] /\ alone'[t] => Awaiting(results'[t], history')
    BY <1>1, <1>4 DEF ListInv
<1>6. ListInv(t)'
    BY <1>1, <1>5 DEF ListInv, RoundInv, PadInv
<1> QED
    BY <1>3, <1>6

LEMMA NextIterationLists ==
    ASSUME TypeInv, NEW t \in Turns, KindInv(t), CopyInv(t), ListInv(t), NextIteration(t)
    PROVE  CopyInv(t)' /\ ListInv(t)'
<1>1. /\ pc[t] = "results" /\ pc'[t] \in {"request", "pad", "return"} /\ sound' = sound /\ alone' = alone
      /\ kind[t] # "retry" /\ kind' = kind /\ history' = history /\ messages' = messages
      /\ results[t] = <<>> /\ history \in Seq(Message) /\ messages[t] \in Seq(Message)
    BY DEF NextIteration, Return, Goto, KindInv, TypeInv, TypeOK
<1>2. ASSUME NEW m \in Seq(Message), RoundInv(t, m) PROVE WellFormed(m)
    BY <1>1, <1>2, AnsweredAll DEF RoundInv
<1>3. CopyInv(t)'
    BY <1>1 DEF CopyInv, Busy
<1>4. ListInv(t)'
    BY <1>1, <1>2 DEF ListInv, RoundInv, PadInv
<1> QED
    BY <1>3, <1>4

LEMMA FindOrphansLists ==
    ASSUME TypeInv, NEW t \in Turns, ListInv(t), FindOrphans(t)
    PROVE  CopyInv(t)' /\ ListInv(t)'
<1>1. /\ pc[t] = "pad" /\ pc'[t] = "padding" /\ sound' = sound /\ alone' = alone
      /\ history' = history /\ results'[t] = Orphans(history) /\ history \in Seq(Message)
    BY DEF FindOrphans, Goto, TypeInv, TypeOK
<1>2. CopyInv(t)'
    BY <1>1 DEF CopyInv, Busy
<1>3. WellFormed(history) => results'[t] = <<>>
    BY <1>1, NoneOpen
<1>4. \A p \in 1 .. Len(history) : Partial(history, p, 0) => Awaiting(results'[t], history)
    BY <1>1, AllOpen, RoundBegins
<1>5. alone[t] /\ sound[t] =>
        (WellFormed(history) /\ results'[t] = <<>>) \/ Awaiting(results'[t], history)
    BY <1>1, <1>3, <1>4 DEF ListInv, PadInv
<1>6. ListInv(t)'
    BY <1>1, <1>5 DEF ListInv, RoundInv, PadInv
<1> QED
    BY <1>2, <1>6

LEMMA PadOrphanLists ==
    ASSUME TypeInv, NEW t \in Turns, ListInv(t), PadOrphan(t)
    PROVE  CopyInv(t)' /\ ListInv(t)'
<1> DEFINE s == results[t]
<1>1. /\ pc[t] = "padding" /\ pc'[t] = "padding" /\ sound' = sound /\ alone' = alone
      /\ s # <<>> /\ results'[t] = Tail(s)
      /\ Head(s) # Resolved => history' = Append(history, Tool(Head(s)))
      /\ history \in Seq(Message) /\ s \in Seq(Ids \cup {Resolved})
    BY DEF PadOrphan, Append1, TypeInv, TypeOK
<1>2. CopyInv(t)'
    BY <1>1 DEF CopyInv, Busy
<1>3. alone[t] /\ sound[t] => Awaiting(s, history)
    BY <1>1 DEF ListInv, PadInv
<1>4. alone[t] /\ sound[t] => Awaiting(results'[t], history')
    BY <1>1, <1>3, AnswerOne
<1>5. ListInv(t)'
    BY <1>1, <1>4 DEF ListInv, RoundInv, PadInv
<1> QED
    BY <1>2, <1>5

LEMMA RetryLists ==
    ASSUME TypeInv, NEW t \in Turns, CopyInv(t), ListInv(t), RetryReads(t) \/ RetryTrims(t)
    PROVE  CopyInv(t)' /\ ListInv(t)'
<1>1. CASE RetryReads(t)
    <2>1. /\ pc'[t] = "trim" /\ messages'[t] = history /\ history' = history
          /\ sound'[t] = WellFormed(history)
        BY <1>1 DEF RetryReads, Goto, TypeInv, TypeOK
    <2>2. CopyInv(t)'
        BY <2>1 DEF CopyInv, Busy
    <2>3. ListInv(t)'
        BY <2>1 DEF ListInv, RoundInv, PadInv
    <2> QED
        BY <2>2, <2>3
<1>2. CASE RetryTrims(t)
    <2>1. /\ pc[t] = "trim" /\ pc'[t] = "return" /\ sound' = sound /\ alone' = alone
          /\ history' \in {history, RetryCut(messages[t])} /\ messages[t] \in Seq(Message)
        BY <1>2 DEF RetryTrims, Goto, TypeInv, TypeOK, local
    <2>2. CopyInv(t)'
        BY <2>1 DEF CopyInv, Busy
    <2>3. alone[t] /\ sound[t] => messages[t] = history /\ WellFormed(messages[t])
        BY <2>1 DEF CopyInv, ListInv
    <2>4. alone[t] /\ sound[t] => WellFormed(history')
        BY <2>1, <2>3, CutComplete
    <2>5. ListInv(t)'
        BY <2>1, <2>4 DEF ListInv, RoundInv, PadInv
    <2> QED
        BY <2>2, <2>5
<1> QED
    BY <1>1, <1>2

LEMMA ListsKept ==
    ASSUME TypeInv, LoopInv, NEW t \in Turns, KindInv(t), CopyInv(t), ListInv(t),
           TurnStep(t) \/ CommandStep(t)
    PROVE  CopyInv(t)' /\ ListInv(t)'
<1>1. ASSUME NEW k, BeginTurn(t, k) PROVE CopyInv(t)' /\ ListInv(t)'
    <2>1. pc'[t] = "read"
        BY <1>1 DEF BeginTurn, Goto, TypeInv, TypeOK
    <2> QED
        BY <2>1 DEF CopyInv, ListInv, RoundInv, PadInv, Busy
<1>2. CASE ClearHistory(t)
    <2>1. pc'[t] = "idle" /\ ~alone'[t]
        BY <1>2 DEF ClearHistory, Enter, NobodyAlone
    <2> QED
        BY <2>1 DEF CopyInv, ListInv, RoundInv
<1>3. CASE EndTurn(t) \/ StreamEnds(t) \/ StreamDropped(t)
    <2>1. Forget({t}) /\ {t} \in SUBSET Turns /\ t \in {t}
        BY <1>3 DEF EndTurn, StreamEnds, StreamDropped
    <2> QED
        BY <2>1, ForgetOne, ForgottenKeeps
<1> QED
    BY <1>1, <1>2, <1>3, ReadHistoryLists, ModelEndsLists, ModelCallsToolsLists, CheckCallLists,
       ExecuteToolsLists, AppendResultLists, NextIterationLists, FindOrphansLists, PadOrphanLists,
       RetryLists DEF TurnStep, CommandStep

LEMMA HistoryInvStep ==
    ASSUME TypeInv, LoopInv, HistoryInv, [Next]_vars
    PROVE  HistoryInv'
<1> SUFFICES ASSUME NEW u \in Turns
             PROVE  KindInv(u)' /\ AloneInv(u)' /\ CopyInv(u)' /\ ListInv(u)'
    BY DEF HistoryInv
<1>1. KindInv(u) /\ AloneInv(u) /\ CopyInv(u) /\ ListInv(u) /\ TypeOK
    BY DEF HistoryInv, TypeInv
<1>2. ASSUME NEW t \in Turns, TurnStep(t) \/ CommandStep(t)
      PROVE  KindInv(u)' /\ AloneInv(u)' /\ CopyInv(u)' /\ ListInv(u)'
    <2>1. CASE u = t
        BY <1>1, <1>2, <2>1, KindKept, AloneKept, ListsKept
    <2>2. CASE u # t
        BY <1>1, <1>2, <2>2, OthersKept, OthersNotAlone, DisturbedKeeps
    <2> QED
        BY <2>1, <2>2
<1>3. CASE Forget(Turns)
    <2>1. Turns \in SUBSET Turns
        OBVIOUS
    <2> QED
        BY <1>3, <2>1, ForgetOne, ForgottenKeeps
<1>4. CASE UNCHANGED <<pc, local>> /\ NobodyAlone
    <2>1. Kept(u) /\ ~alone'[u]
        BY <1>4 DEF Kept, local, NobodyAlone
    <2> QED
        BY <1>1, <2>1, DisturbedKeeps
<1>5. CASE UNCHANGED <<pc, local, history, alone>>
    BY <1>1, <1>5 DEF KindInv, AloneInv, CopyInv, ListInv, RoundInv, PadInv, local
<1> QED
    BY <1>2, <1>3, <1>4, <1>5, WhoSteps

LEMMA HistoryInvInit == Init => HistoryInv
<1> SUFFICES ASSUME Init, NEW t \in Turns
             PROVE  KindInv(t) /\ AloneInv(t) /\ CopyInv(t) /\ ListInv(t)
    BY DEF HistoryInv
<1>1. pc[t] = "idle" /\ kind[t] = "full" /\ ~alone[t] /\ ~sound[t]
    BY DEF Init
<1> QED
    BY <1>1 DEF KindInv, AloneInv, CopyInv, ListInv

LEMMA HistoryHolds == Spec => [](TypeInv /\ HistoryInv)
<1>1. Spec => []HistoryInv
    BY TypesHold, HistoryInvInit, HistoryInvStep, PTL DEF Spec
<1> QED
    BY <1>1, TypesHold, PTL

--------------------------------------------------------------------------------
(***************************************************************************)
(* The theorems.                                                           *)
(***************************************************************************)
\* Safety: a turn that read a well-formed history never makes a request the API
\* refuses, whatever else happens on the session and however many tools fail.
THEOREM RequestsAccepted == Spec => []RoundsComplete
<1>1. HistoryInv => RoundsComplete
    BY DEF HistoryInv, RoundsComplete, ListInv, RoundInv
<1> QED
    BY <1>1, HistoryHolds, PTL

\* Safety: what the model is shown is what the session holds, for a turn that has
\* the session to itself ("messages" and the session's list in HandleMessage).
THEOREM PromptShowsHistory == Spec => []PromptIsHistory
<1>1. HistoryInv => PromptIsHistory
    BY DEF HistoryInv, PromptIsHistory, CopyInv, Busy
<1> QED
    BY <1>1, HistoryHolds, PTL

\* Safety: a turn or command that has the session to itself and found it well
\* formed leaves it so (padOrphanToolResults), streamed turns excepted.
THEOREM HistoryStaysWellFormed == Spec => []LeavesWellFormed
<1>1. ASSUME TypeInv, HistoryInv, NEW t \in Turns, alone[t], sound[t], kind[t] # "stream",
             pc[t] = "return" \/ (pc[t] = "padding" /\ results[t] = <<>>)
      PROVE  WellFormed(history)
    <2>1. PadInv(t) /\ KindInv(t) /\ history \in Seq(Message)
        BY <1>1 DEF HistoryInv, ListInv, TypeInv, TypeOK
    <2>2. CASE pc[t] = "return"
        BY <1>1, <2>1, <2>2 DEF PadInv, KindInv
    <2>3. CASE pc[t] = "padding" /\ results[t] = <<>>
        BY <2>1, <2>3, AnsweredAll DEF PadInv
    <2> QED
        BY <1>1, <2>2, <2>3
<1>2. TypeInv /\ HistoryInv => LeavesWellFormed
    BY <1>1 DEF LeavesWellFormed
<1> QED
    BY <1>2, HistoryHolds, PTL

==================================================================================
