---------------------------- MODULE LanesProofs ----------------------------
(* Proofs about Lanes for any finite set of primaries and any sub-agents.   *)
EXTENDS Lanes, FiniteSetTheorems, TLAPS

WaitingPrimaries == {c \in Primaries : Waiting(c)}

\* An ended context is remembered only while its caller waits.
EndedOnesWait == \A c \in ctxDone : Waiting(c)

\* NoLostWakeup is not inductive alone: that somebody is awake when the count
\* is above zero needs the count to be exact, and held to be exact.
IInv == TypeOK /\ OneHolder /\ WaitersCounted /\ NoLostWakeup /\ EndedOnesWait

\* The waiting primaries are finitely many, so they can be counted.
LEMMA WaitingFinite ==
    /\ IsFiniteSet(WaitingPrimaries)
    /\ Cardinality(WaitingPrimaries) \in Nat
    /\ Cardinality(WaitingPrimaries) > 0 => \E p \in Primaries : Waiting(p)
<1>1. IsFiniteSet(WaitingPrimaries)
  BY CallersAssumption, FS_Subset DEF WaitingPrimaries
<1>2. Cardinality(WaitingPrimaries) \in Nat
  BY <1>1, FS_CardinalityType
<1>3. WaitingPrimaries = {} => Cardinality(WaitingPrimaries) = 0
  BY FS_EmptySet
<1> QED  BY <1>1, <1>2, <1>3 DEF WaitingPrimaries

\* How the count moves when one caller starts or stops waiting, or none does.
LEMMA CountMoves ==
    ASSUME NEW S, IsFiniteSet(S), NEW c
    PROVE  /\ c \notin S => Cardinality(S \cup {c}) = Cardinality(S) + 1
           /\ c \in S => Cardinality(S \ {c}) = Cardinality(S) - 1
  BY FS_AddElement, FS_RemoveElement, FS_CardinalityType

\* A pass of the wait loop keeps the invariant, provided pw counts c itself.
LEMMA AttemptKeeps ==
    ASSUME IInv,
           NEW c \in Callers, NEW done \in BOOLEAN, NEW pw \in Nat,
           pc[c] \in {"idle", "woken"},
           pw = Cardinality(WaitingPrimaries \cup ({c} \cap Primaries)),
           c \in ctxDone => done,
           Attempt(c, pw, done),
           due \subseteq due', due' \subseteq Callers
    PROVE  IInv'
<1> DEFINE W == WaitingPrimaries \cup ({c} \cap Primaries)
<1>1. IsFiniteSet(W) /\ Cardinality(W) \in Nat
  <2>1. W \subseteq Primaries
    BY DEF WaitingPrimaries
  <2> QED  BY <2>1, CallersAssumption, FS_Subset, FS_CardinalityType
<1>2. pw - Share(c) = Cardinality(W \ {c})
  <2>1. CASE c \in Primaries
    <3>1. c \in W
      BY <2>1
    <3> QED  BY <1>1, <2>1, <3>1, CountMoves DEF Share
  <2>2. CASE c \notin Primaries
    <3>1. W \ {c} = W
      BY <2>2 DEF WaitingPrimaries
    <3>2. pw - Share(c) = pw
      BY <2>2 DEF Share
    <3> QED  BY <3>1, <3>2
  <2> QED  BY <2>1, <2>2
<1>3. CASE ~Blocked(c, pw)
  <2>1. held' = TRUE /\ pc' = [pc EXCEPT ![c] = "holding"]
        /\ primaryWaiting' = pw - Share(c) /\ ctxDone' = ctxDone \ {c}
    BY <1>3 DEF Attempt
  <2>2. primaryWaiting' = Cardinality(W \ {c})
    BY <1>1, <1>2, <2>1 DEF Share
  <2>3. WaitingPrimaries' = W \ {c}
    BY <2>1 DEF WaitingPrimaries, Waiting, IInv, TypeOK, Callers
  <2>4. WaitersCounted'
    BY <2>2, <2>3 DEF WaitersCounted, WaitingPrimaries
  <2>5. TypeOK'
    <3>1. IsFiniteSet(W \ {c})
      BY <1>1, CountMoves, FS_RemoveElement
    <3>2. primaryWaiting' \in Nat
      BY <2>2, <3>1, FS_CardinalityType
    <3> QED  BY <2>1, <3>2 DEF IInv, TypeOK, Phases
  <2>6. OneHolder' /\ NoLostWakeup' /\ EndedOnesWait'
    BY <1>3, <2>1
    DEF IInv, TypeOK, OneHolder, NoLostWakeup, EndedOnesWait, Waiting, Blocked
  <2> QED  BY <2>4, <2>5, <2>6 DEF IInv
<1>4. CASE Blocked(c, pw) /\ done
  <2>1. held' = held /\ pc' = [pc EXCEPT ![c] = "idle"]
        /\ primaryWaiting' = pw - Share(c) /\ ctxDone' = ctxDone \ {c}
    BY <1>4 DEF Attempt
  <2>2. primaryWaiting' = Cardinality(W \ {c})
    BY <1>1, <1>2, <2>1 DEF Share
  <2>3. WaitingPrimaries' = W \ {c}
    BY <2>1 DEF WaitingPrimaries, Waiting, IInv, TypeOK, Callers
  <2>4. WaitersCounted'
    BY <2>2, <2>3 DEF WaitersCounted, WaitingPrimaries
  <2>5. TypeOK'
    <3>1. IsFiniteSet(W \ {c})
      BY <1>1, CountMoves, FS_RemoveElement
    <3>2. primaryWaiting' \in Nat
      BY <2>2, <3>1, FS_CardinalityType
    <3> QED  BY <2>1, <3>2 DEF IInv, TypeOK, Phases
  <2>6. OneHolder' /\ EndedOnesWait'
    BY <2>1 DEF IInv, TypeOK, OneHolder, EndedOnesWait, Waiting
  <2>7. held \/ c \notin Primaries
    BY <1>4 DEF Blocked
  <2>8. NoLostWakeup'
    BY <2>1, <2>7 DEF IInv, TypeOK, NoLostWakeup, Callers
  <2> QED  BY <2>4, <2>5, <2>6, <2>8 DEF IInv
<1>5. CASE Blocked(c, pw) /\ ~done
  <2>1. held' = held /\ pc' = [pc EXCEPT ![c] = "parked"]
        /\ primaryWaiting' = pw /\ ctxDone' = ctxDone
    BY <1>5 DEF Attempt
  <2>2. WaitingPrimaries' = W
    BY <2>1 DEF WaitingPrimaries, Waiting, IInv, TypeOK, Callers
  <2>3. WaitersCounted'
    BY <2>1, <2>2 DEF WaitersCounted, WaitingPrimaries
  <2>4. TypeOK'
    BY <2>1 DEF IInv, TypeOK, Phases
  <2>5. OneHolder' /\ EndedOnesWait'
    BY <1>5, <2>1 DEF IInv, TypeOK, OneHolder, EndedOnesWait, Waiting
  <2>6. held \/ (c \in Subs /\ \E p \in Primaries : pc[p] = "woken")
    <3>1. SUFFICES ASSUME ~held
                   PROVE  c \in Subs /\ \E p \in Primaries : pc[p] = "woken"
      OBVIOUS
    <3>2. c \in Subs /\ c \notin Primaries /\ pw > 0
      BY <1>5, <3>1 DEF Blocked, Callers
    <3>3. PICK p \in Primaries : Waiting(p)
      <4>1. W = WaitingPrimaries
        BY <3>2
      <4> QED  BY <3>2, <4>1, WaitingFinite
    <3>4. pc[p] # "parked"
      BY <3>1, <3>3, CallersAssumption DEF IInv, NoLostWakeup, Callers
    <3> QED  BY <3>2, <3>3, <3>4 DEF Waiting
  <2>7. NoLostWakeup'
    BY <1>5, <2>1, <2>6, CallersAssumption
    DEF IInv, TypeOK, NoLostWakeup, Callers
  <2> QED  BY <2>3, <2>4, <2>5, <2>7 DEF IInv
<1> QED  BY <1>3, <1>4, <1>5

\* The invariant holds at the start and every step of every caller keeps it.
LEMMA Invariant == Spec => []IInv
<1>1. Init => IInv
  <2> SUFFICES ASSUME Init PROVE IInv
    OBVIOUS
  <2>1. WaitingPrimaries = {}
    BY DEF Init, WaitingPrimaries, Waiting, Callers
  <2>2. WaitersCounted
    BY <2>1, FS_EmptySet DEF Init, WaitersCounted, WaitingPrimaries
  <2>3. TypeOK /\ OneHolder /\ NoLostWakeup /\ EndedOnesWait
    BY DEF Init, TypeOK, OneHolder, NoLostWakeup, EndedOnesWait, Phases
  <2> QED  BY <2>2, <2>3 DEF IInv
<1>2. IInv /\ [Next]_vars => IInv'
  <2> SUFFICES ASSUME IInv, [Next]_vars PROVE IInv'
    OBVIOUS
  <2>1. ASSUME NEW c \in Callers, NEW done \in BOOLEAN, Acquire(c, done)
        PROVE  IInv'
    <3>1. pc[c] = "idle" /\ Attempt(c, primaryWaiting + Share(c), done)
          /\ due' = IF done THEN due \cup {c} ELSE due
      BY <2>1 DEF Acquire
    <3>2. c \notin ctxDone /\ c \notin WaitingPrimaries
      BY <3>1 DEF IInv, EndedOnesWait, Waiting, WaitingPrimaries
    <3>3. primaryWaiting = Cardinality(WaitingPrimaries)
      BY DEF IInv, WaitersCounted, WaitingPrimaries
    <3>4. primaryWaiting + Share(c)
            = Cardinality(WaitingPrimaries \cup ({c} \cap Primaries))
      <4>1. CASE c \in Primaries
        <5>1. WaitingPrimaries \cup ({c} \cap Primaries) = WaitingPrimaries \cup {c}
          BY <4>1
        <5> QED  BY <3>2, <3>3, <4>1, <5>1, WaitingFinite, CountMoves DEF Share
      <4>2. CASE c \notin Primaries
        <5>1. WaitingPrimaries \cup ({c} \cap Primaries) = WaitingPrimaries
          BY <4>2
        <5> QED  BY <3>3, <4>2, <5>1, WaitingFinite DEF Share
      <4> QED  BY <4>1, <4>2
    <3>5. primaryWaiting + Share(c) \in Nat
      BY DEF IInv, TypeOK, Share
    <3>6. due \subseteq due' /\ due' \subseteq Callers
      BY <3>1 DEF IInv, TypeOK
    <3> QED  BY <3>1, <3>2, <3>4, <3>5, <3>6, AttemptKeeps
  <2>2. ASSUME NEW c \in Callers, Retry(c)
        PROVE  IInv'
    <3>1. pc[c] = "woken" /\ Attempt(c, primaryWaiting, c \in ctxDone) /\ due' = due
      BY <2>2 DEF Retry
    <3>2. WaitingPrimaries \cup ({c} \cap Primaries) = WaitingPrimaries
      BY <3>1 DEF WaitingPrimaries, Waiting
    <3>3. primaryWaiting = Cardinality(WaitingPrimaries \cup ({c} \cap Primaries))
      BY <3>2 DEF IInv, WaitersCounted, WaitingPrimaries
    <3>4. primaryWaiting \in Nat /\ due' \subseteq Callers /\ (c \in ctxDone) \in BOOLEAN
      BY <3>1 DEF IInv, TypeOK
    <3> QED  BY <3>1, <3>3, <3>4, AttemptKeeps
  <2>3. ASSUME NEW c \in Callers, Release(c)
        PROVE  IInv'
    <3>1. pc[c] = "holding" /\ held' = FALSE
          /\ pc' = Broadcast([pc EXCEPT ![c] = "idle"])
          /\ UNCHANGED <<primaryWaiting, ctxDone, due>>
      BY <2>3 DEF Release
    <3>2. \A d \in Callers : Waiting(d)' <=> Waiting(d)
      BY <3>1 DEF Broadcast, Waiting, IInv, TypeOK
    <3>3. \A d \in Callers : pc'[d] \notin {"holding", "parked"}
      BY <3>1 DEF Broadcast, IInv, TypeOK, OneHolder, Phases
    <3>4. WaitersCounted'
      <4>1. WaitingPrimaries' = WaitingPrimaries
        BY <3>2 DEF WaitingPrimaries, Callers
      <4> QED  BY <3>1, <4>1 DEF WaitersCounted, WaitingPrimaries, IInv
    <3>5. TypeOK'
      BY <3>1 DEF IInv, TypeOK, Phases, Broadcast
    <3>6. OneHolder' /\ NoLostWakeup' /\ EndedOnesWait'
      BY <3>1, <3>2, <3>3
      DEF IInv, TypeOK, OneHolder, NoLostWakeup, EndedOnesWait
    <3> QED  BY <3>4, <3>5, <3>6 DEF IInv
  <2>4. ASSUME NEW c \in Callers, CtxEnds(c)
        PROVE  IInv'
    <3>1. Waiting(c) /\ ctxDone' = ctxDone \cup {c} /\ due' = due \cup {c}
          /\ UNCHANGED <<held, primaryWaiting, pc>>
      BY <2>4 DEF CtxEnds
    <3>2. WaitersCounted'
      BY <3>1 DEF IInv, WaitersCounted, Waiting
    <3> QED
      BY <3>1, <3>2
      DEF IInv, TypeOK, OneHolder, NoLostWakeup, EndedOnesWait, Waiting
  <2>5. ASSUME NEW c \in Callers, AfterFunc(c)
        PROVE  IInv'
    <3>1. pc' = Broadcast(pc) /\ due' = due \ {c}
          /\ UNCHANGED <<held, primaryWaiting, ctxDone>>
      BY <2>5 DEF AfterFunc
    <3>2. \A d \in Callers : Waiting(d)' <=> Waiting(d)
      BY <3>1 DEF Broadcast, Waiting
    <3>3. \A d \in Callers : pc'[d] # "parked" /\ (pc'[d] = "holding" <=> pc[d] = "holding")
      BY <3>1 DEF Broadcast, IInv, TypeOK
    <3>4. WaitersCounted'
      <4>1. WaitingPrimaries' = WaitingPrimaries
        BY <3>2 DEF WaitingPrimaries, Callers
      <4> QED  BY <3>1, <4>1 DEF WaitersCounted, WaitingPrimaries, IInv
    <3>5. TypeOK'
      BY <3>1 DEF IInv, TypeOK, Phases, Broadcast
    <3>6. OneHolder' /\ NoLostWakeup' /\ EndedOnesWait'
      BY <3>1, <3>2, <3>3
      DEF IInv, TypeOK, OneHolder, NoLostWakeup, EndedOnesWait
    <3> QED  BY <3>4, <3>5, <3>6 DEF IInv
  <2>6. CASE UNCHANGED vars
    <3>1. WaitersCounted'
      BY <2>6 DEF vars, IInv, WaitersCounted, Waiting
    <3> QED
      BY <2>6, <3>1
      DEF vars, IInv, TypeOK, OneHolder, NoLostWakeup, EndedOnesWait, Waiting
  <2> QED  BY <2>1, <2>2, <2>3, <2>4, <2>5, <2>6 DEF Next
<1> QED  BY <1>1, <1>2, PTL DEF Spec

-----------------------------------------------------------------------------
\* The lane's fields keep their types.
THEOREM TypeCorrect == Spec => []TypeOK
<1>1. IInv => TypeOK
  BY DEF IInv
<1> QED  BY <1>1, Invariant, PTL

\* One model call at a time per server, for any number of callers.
THEOREM MutualExclusion == Spec => []OneHolder
<1>1. IInv => OneHolder
  BY DEF IInv
<1> QED  BY <1>1, Invariant, PTL

\* The waiting count is exact however calls give up and are cancelled.
THEOREM CountExact == Spec => []WaitersCounted
<1>1. IInv => WaitersCounted
  BY DEF IInv
<1> QED  BY <1>1, Invariant, PTL

\* Nobody is parked with nobody left to wake them.
THEOREM NobodyForgotten == Spec => []NoLostWakeup
<1>1. IInv => NoLostWakeup
  BY DEF IInv
<1> QED  BY <1>1, Invariant, PTL

\* A sub-agent passes no waiting primary: it would have to find the count at
\* zero, and the count is exact.
THEOREM PrimaryGoesFirst == Spec => PrimaryFirst
<1>1. IInv /\ [Next]_vars =>
        [\A s \in Subs : pc[s] # "holding" /\ pc'[s] = "holding"
            => \A p \in Primaries : ~Waiting(p)]_vars
  <2> SUFFICES ASSUME IInv, Next, NEW s \in Subs,
                      pc[s] # "holding", pc'[s] = "holding"
               PROVE  \A p \in Primaries : ~Waiting(p)
    BY DEF vars
  <2>1. s \in Callers /\ s \notin Primaries
    BY CallersAssumption DEF Callers
  <2>2. ASSUME NEW c \in Callers, NEW pw \in Nat, NEW done, Attempt(c, pw, done)
        PROVE  c = s /\ ~Blocked(c, pw)
    BY <2>1, <2>2 DEF Attempt, IInv, TypeOK
  <2>3. primaryWaiting \in Nat /\ primaryWaiting = Cardinality(WaitingPrimaries)
    BY DEF IInv, TypeOK, WaitersCounted, WaitingPrimaries
  <2>4. ASSUME NEW c \in Callers, NEW done \in BOOLEAN, Acquire(c, done)
        PROVE  primaryWaiting = 0
    <3>1. c = s /\ ~Blocked(c, primaryWaiting + Share(c))
      BY <2>2, <2>3, <2>4 DEF Acquire, Share
    <3> QED  BY <2>1, <2>3, <3>1 DEF Blocked, Share
  <2>5. ASSUME NEW c \in Callers, Retry(c)
        PROVE  primaryWaiting = 0
    <3>1. c = s /\ ~Blocked(c, primaryWaiting)
      BY <2>2, <2>3, <2>5 DEF Retry
    <3> QED  BY <2>1, <2>3, <3>1 DEF Blocked
  <2>6. ASSUME NEW c \in Callers, Release(c) \/ CtxEnds(c) \/ AfterFunc(c)
        PROVE  FALSE
    BY <2>1, <2>6 DEF Release, CtxEnds, AfterFunc, Broadcast, IInv, TypeOK
  <2>7. primaryWaiting = 0
    BY <2>4, <2>5, <2>6 DEF Next
  <2>8. WaitingPrimaries = {}
    BY <2>3, <2>7, WaitingFinite, FS_EmptySet
  <2> QED  BY <2>8 DEF WaitingPrimaries
<1> QED  BY <1>1, Invariant, PTL DEF Spec, PrimaryFirst
=============================================================================
