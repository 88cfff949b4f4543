------------------------------- MODULE Lanes -------------------------------
(***************************************************************************)
(* One server's lane (internal/subagent/lanes.go): the mutex, condition    *)
(* variable and waiting count that serialise model calls to one server,    *)
(* the primary's own calls first.  Lanes of two servers share no state, so *)
(* one instance of this module is one entry of Lanes.lanes.                *)
(*                                                                         *)
(* Every critical section of ln.mu is one step: a caller either passes the *)
(* wait loop, gives up, or parks in cond.Wait, which releases the mutex.   *)
(***************************************************************************)
EXTENDS Naturals, FiniteSets

CONSTANTS Primaries,  \* goroutines that acquire with primary = true
          Subs        \* goroutines that acquire with primary = false

ASSUME CallersAssumption ==
    /\ IsFiniteSet(Primaries)
    /\ Primaries \cap Subs = {}

Callers == Primaries \cup Subs

VARIABLES held,            \* lane.held
          primaryWaiting,  \* lane.primaryWaiting
          pc,              \* where each caller is
          ctxDone,         \* callers whose context has ended in this call
          due              \* AfterFunc goroutines started and not yet run

vars == <<held, primaryWaiting, pc, ctxDone, due>>

\* "parked" is inside cond.Wait; "woken" has been broadcast to and has yet
\* to take the mutex again.
Phases == {"idle", "parked", "woken", "holding"}
Waiting(c) == pc[c] \in {"parked", "woken"}
Broadcast(p) == [c \in Callers |-> IF p[c] = "parked" THEN "woken" ELSE p[c]]
Share(c) == IF c \in Primaries THEN 1 ELSE 0

Init ==
    /\ held = FALSE
    /\ primaryWaiting = 0
    /\ pc = [c \in Callers |-> "idle"]
    /\ ctxDone = {}
    /\ due = {}

\* Mutant: a sub-agent looks only at the holder.
BlockedByHolder(c, pw) == held

\* One pass of the wait loop, with pw callers counted as waiting primaries.
\* Both returns run the deferred decrement; neither of them broadcasts.
Blocked(c, pw) == held \/ (c \notin Primaries /\ pw > 0)

Attempt(c, pw, done) ==
    \/ /\ ~Blocked(c, pw)
       /\ held' = TRUE
       /\ pc' = [pc EXCEPT ![c] = "holding"]
       /\ primaryWaiting' = pw - Share(c)
       /\ ctxDone' = ctxDone \ {c}
    \/ /\ Blocked(c, pw) /\ done
       /\ pc' = [pc EXCEPT ![c] = "idle"]
       /\ primaryWaiting' = pw - Share(c)
       /\ ctxDone' = ctxDone \ {c}
       /\ UNCHANGED held
    \/ /\ Blocked(c, pw) /\ ~done
       /\ pc' = [pc EXCEPT ![c] = "parked"]
       /\ primaryWaiting' = pw
       /\ UNCHANGED <<held, ctxDone>>

\* Mutant: the waiting count is only ever decremented.
AcquireUncounted(c, done) ==
    /\ pc[c] = "idle"
    /\ Attempt(c, primaryWaiting, done)
    /\ due' = IF done THEN due \cup {c} ELSE due

\* Acquire up to its first return or wait.  A context that has already ended
\* starts its AfterFunc goroutine at once.
Acquire(c, done) ==
    /\ pc[c] = "idle"
    /\ Attempt(c, primaryWaiting + Share(c), done)
    /\ due' = IF done THEN due \cup {c} ELSE due

\* A woken caller has the mutex again and goes round the loop.
Retry(c) ==
    /\ pc[c] = "woken"
    /\ Attempt(c, primaryWaiting, c \in ctxDone)
    /\ UNCHANGED due

\* Mutant: Release wakes at most one waiter.
ReleaseSignals(c) ==
    /\ pc[c] = "holding"
    /\ held' = FALSE
    /\ LET parked == {d \in Callers : pc[d] = "parked"}
       IN  IF parked = {} THEN pc' = [pc EXCEPT ![c] = "idle"]
           ELSE \E d \in parked : pc' = [pc EXCEPT ![c] = "idle", ![d] = "woken"]
    /\ UNCHANGED <<primaryWaiting, ctxDone, due>>

\* The release function; once.Do makes a second call a no-op.
Release(c) ==
    /\ pc[c] = "holding"
    /\ held' = FALSE
    /\ pc' = Broadcast([pc EXCEPT ![c] = "idle"])
    /\ UNCHANGED <<primaryWaiting, ctxDone, due>>

\* Mutant: nothing watches the context of a waiting caller.
CtxEndsUnwatched(c) ==
    /\ Waiting(c) /\ c \notin ctxDone
    /\ ctxDone' = ctxDone \cup {c}
    /\ UNCHANGED <<held, primaryWaiting, pc, due>>

\* The caller's context ends while it waits.
CtxEnds(c) ==
    /\ Waiting(c) /\ c \notin ctxDone
    /\ ctxDone' = ctxDone \cup {c}
    /\ due' = due \cup {c}
    /\ UNCHANGED <<held, primaryWaiting, pc>>

\* The AfterFunc goroutine runs, whether or not its caller is still waiting.
AfterFunc(c) ==
    /\ c \in due
    /\ pc' = Broadcast(pc)
    /\ due' = due \ {c}
    /\ UNCHANGED <<held, primaryWaiting, ctxDone>>

Next == \E c \in Callers :
    \/ \E done \in BOOLEAN : Acquire(c, done)
    \/ Retry(c)
    \/ Release(c)
    \/ CtxEnds(c)
    \/ AfterFunc(c)

Spec == Init /\ [][Next]_vars

\* The scheduler runs a runnable goroutine and a started AfterFunc.  Nothing
\* makes a caller call Acquire, a context end or the holder's call return.
FairSpec == Spec /\ \A c \in Callers : WF_vars(Retry(c)) /\ WF_vars(AfterFunc(c))

\* What the lane's promise to a primary rests on: model calls end.
CallsEnd == \A c \in Callers : WF_vars(Release(c))

-----------------------------------------------------------------------------
\* The variables hold values of their types.
TypeOK ==
    /\ held \in BOOLEAN
    /\ primaryWaiting \in Nat
    /\ pc \in [Callers -> Phases]
    /\ ctxDone \subseteq Callers
    /\ due \subseteq Callers

\* At most one call is on the server, and held says exactly whether one is
\* (lanes.go: "Lanes serialises model calls per server").
OneHolder ==
    /\ held <=> \E c \in Callers : pc[c] = "holding"
    /\ \A c, d \in Callers : pc[c] = "holding" /\ pc[d] = "holding" => c = d

\* The waiting count is the number of primaries in the loop: a deferred
\* decrement missed on any return would lock sub-agents out for good, one
\* too many would let them past a waiting person.
WaitersCounted ==
    primaryWaiting = Cardinality({c \in Primaries : Waiting(c)})

\* No caller sleeps through its turn: whoever is parked is parked behind a
\* holder, whose release will broadcast, or is a sub-agent parked behind a
\* primary that is already awake; and a parked caller whose context ended
\* still has its AfterFunc to wake it.  The returns of Acquire that lower
\* primaryWaiting broadcast nothing, so this is not immediate.
NoLostWakeup == \A c \in Callers : pc[c] = "parked" =>
    /\ held \/ (c \in Subs /\ \E p \in Primaries : pc[p] = "woken")
    /\ c \in ctxDone => c \in due

\* A sub-agent never takes the lane while a primary is waiting for it
\* (lanes.go: "a sub-agent sharing the primary's server never makes the
\* person wait").
PrimaryFirst == [][\A s \in Subs : pc[s] # "holding" /\ pc'[s] = "holding"
                       => \A p \in Primaries : ~Waiting(p)]_vars

\* When calls end, a waiting primary gets the lane, gives up, or is behind
\* other primaries only: no stream of sub-agent calls starves the person.
PrimaryServed == CallsEnd => \A p \in Primaries :
    []<>(~Waiting(p) \/ \E q \in Primaries : pc[q] = "holding")

\* A wait whose context has ended comes back, with the lane or without it,
\* even when the call that holds the lane never ends (lanes.go: "Acquire
\* blocks until the server's lane is free ... or ctx ends").
CancelReturns == \A c \in Callers : (Waiting(c) /\ c \in ctxDone) ~> ~Waiting(c)
=============================================================================
