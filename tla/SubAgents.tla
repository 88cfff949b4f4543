----------------------------- MODULE SubAgents -----------------------------
(***************************************************************************)
(* The sub-agent runner (internal/agent/subagents.go, DispatchJob of       *)
(* internal/agent/jobs.go, the ready rule of internal/subagent/ready.go and *)
(* the task record's side of them in internal/engine/store.go).            *)
(*                                                                         *)
(* The task record has its own lock, the runner's maps are under mu, and   *)
(* no call into one is made while holding the other.  So every call here   *)
(* is several steps: read the tree; decide and reserve under mu; build     *)
(* unlocked; install under mu; mark the step dispatched in the record.     *)
(* One action is one critical section of either lock.                      *)
(*                                                                         *)
(* Steps and jobs are numbered in document order.  A scope is the set of   *)
(* paths it covers, so Overlap is intersection; the path-prefix rule that  *)
(* decides which paths those are is not part of this model.                *)
(***************************************************************************)
EXTENDS Integers, FiniteSets

CONSTANTS
    Steps,          \* standing steps of the task document
    Jobs,           \* DispatchJob calls, each also the id of the step it files
    After,          \* [Steps -> SUBSET Steps], what a step waits for
    Paths, Owners, Outsiders,   \* Outsiders: co-workers without sub_agent
    Online,         \* owners whose consent a scheduled event holds back
    Scope0, Owner0, \* each step's and job's first scope and owner
    MaxConcurrent,  \* sub_agents.max_concurrent
    May,            \* which events of the environment happen (a bound)
    None,
    Runners,        \* goroutines for runSub, one per run in flight (a bound)
    Schedulers,     \* callers of ScheduleSubAgents
    Assigners, Scopers,         \* callers of AssignOwner and of SetScope
    Stoppers,       \* callers of StopAllSubAgents, then EnableSubAgents
    Firers,         \* scheduled events' turns
    Gates,          \* StartSubAgents: resume pass, startup gate, first schedule
    Starters        \* callers of AllowSubAgentStart

\* Building a dispatch panics, a sub-agent asks, an operator or the main
\* model stops a run, the main model moves a step, an /agents start comes
\* before the startup question is answered, the program is killed and
\* started again.
Events == {"panic", "ask", "stop", "edit", "hasty", "crash"}

Ids == Steps \cup Jobs
Callers == Schedulers \cup Assigners \cup Scopers \cup Stoppers
              \cup Firers \cup Gates \cup Starters
Procs == Callers \cup Runners \cup Jobs

ASSUME SubAgentsAssumption ==
    /\ Ids \subseteq Nat /\ IsFiniteSet(Ids) /\ Steps \cap Jobs = {}
    /\ MaxConcurrent \in Nat /\ May \subseteq Events
    /\ Outsiders \subseteq Owners /\ Online \subseteq Owners
    /\ None \notin Owners /\ None \notin Ids /\ None \notin Runners
    /\ Scope0 \in [Ids -> SUBSET Paths] /\ Owner0 \in [Ids -> Owners \cup {None}]
    /\ After \in [Steps -> SUBSET Steps]
    /\ Runners \cap (Callers \cup Jobs) = {} /\ Callers \cap Jobs = {}

\* A caller makes calls of one kind.
ASSUME RolesAssumption ==
    /\ Schedulers \cap (Assigners \cup Scopers \cup Stoppers \cup Firers \cup Gates \cup Starters) = {}
    /\ Assigners \cap (Scopers \cup Stoppers \cup Firers \cup Gates \cup Starters) = {}
    /\ Scopers \cap (Stoppers \cup Firers \cup Gates \cup Starters) = {}
    /\ Stoppers \cap (Firers \cup Gates \cup Starters) = {}
    /\ Firers \cap (Gates \cup Starters) = {} /\ Gates \cap Starters = {}

VARIABLES
    step,        \* the task record: status, owner and scope of each node
    dispatched,  \* tree.dispatched
    runs,        \* subAgents.runs, None for no entry
    pending,     \* subAgents.pending, the ids in it
    slots,       \* and the job slots in it
    jobScopes,   \* jobs with an entry in subAgents.jobScopes
    hold, stopping, declined, allowed,
    fired,       \* a scheduled event's turn is running (Tools.Fired)
    run,         \* the subRun of each goroutine
    pc,
    snap,        \* the tree each caller last read
    picks,       \* reservations each caller has yet to build
    arg          \* what else a caller remembers

record == <<step, dispatched>>
gate   == <<declined, allowed>>
table  == <<runs, pending, slots, jobScopes>>
local  == <<snap, picks, arg>>
vars == <<record, table, hold, stopping, gate, fired, run, pc, local>>

Statuses == {"none", "todo", "done", "blocked"}
StepRecs == [status : Statuses, owner : Owners \cup {None}, scope : SUBSET Paths]
NoStep == [status |-> "none", owner |-> None, scope |-> {}]
Blank == [i \in Ids |-> NoStep]
NoRun == [node |-> None, owner |-> None, scope |-> {}, question |-> FALSE,
          interrupt |-> FALSE, sessionEnd |-> FALSE, stopped |-> FALSE,
          timedOut |-> FALSE, verdict |-> "none"]
NoArg == [id |-> None, owner |-> None, scope |-> {}, on |-> None,
          declined |-> FALSE, ids |-> {}, any |-> FALSE]

RunningIds == {i \in Ids : runs[i] # None}
\* Mutant: only runs count against the cap.
LoadOfRuns == Cardinality(RunningIds)
Load == Cardinality(RunningIds) + Cardinality(pending) + Cardinality(slots)
Overlap(a, b) == a \cap b # {}
Cancelled(g) == run[g].interrupt \/ run[g].stopped \/ run[g].timedOut
IsJob(i) == i \in Jobs

\* A session begins: the steps of todo are open and the others done, the
\* callers of calling are about to schedule, and the startup gates of gated
\* are still to come.
Begin(todo, calling, gated) ==
    /\ step = [i \in Ids |-> IF i \in Steps
                 THEN [status |-> IF i \in todo THEN "todo" ELSE "done",
                       owner |-> Owner0[i], scope |-> Scope0[i]]
                 ELSE NoStep]
    /\ dispatched = {}
    /\ runs = [i \in Ids |-> None]
    /\ pending = {} /\ slots = {} /\ jobScopes = {}
    /\ hold = {} /\ stopping = FALSE /\ declined = FALSE /\ allowed = {}
    /\ fired = FALSE
    /\ run = [g \in Runners |-> NoRun]
    /\ pc = [p \in Procs |-> IF p \in calling THEN "call"
                             ELSE IF p \in Runners THEN "free"
                             ELSE IF p \in Gates \ gated THEN "over" ELSE "idle"]
    /\ snap = [p \in Procs |-> Blank]
    /\ picks = [p \in Procs |-> {}]
    /\ arg = [p \in Procs |-> NoArg]
Init == Begin(Steps, Schedulers, Gates)

-----------------------------------------------------------------------------
(* ScheduleSubAgents, by any caller p *)

\* subagent.Ready: what may start, judged on the tree as it was read.  R is
\* determined by the scopes of running roots and of ready steps before it.
Eligible(tree, running) ==
    {i \in Steps \ running :
        /\ tree[i].status = "todo" /\ tree[i].scope # {}
        /\ tree[i].owner \in Owners \ Outsiders
        /\ \A d \in After[i] : tree[d].status = "done"}
\* Mutant: the scopes of what already runs are not looked at.
IsReadyAlone(R, tree, running) ==
    R = {i \in Eligible(tree, running) :
            \A j \in R : j < i => ~Overlap(tree[i].scope, tree[j].scope)}
IsReady(R, tree, running) ==
    R = {i \in Eligible(tree, running) :
            \A k \in running \cup {j \in R : j < i} :
                ~Overlap(tree[i].scope, tree[k].scope)}

JobScopeTaken(scope) == \E j \in jobScopes : Overlap(scope, Scope0[j])

\* Where a caller goes when its schedule call returns.
Returned(p, any) ==
    CASE p \in Runners -> "closing"
      [] p \in Starters -> IF any THEN "idle" ELSE "restore"
      [] p \in Gates -> "over"
      [] OTHER -> "idle"

\* ScheduleSubAgents called outright, by the main loop or a UI.
ScheduleSubAgents(s) ==
    /\ pc[s] = "idle"
    /\ pc' = [pc EXCEPT ![s] = "call"]
    /\ UNCHANGED <<record, table, hold, stopping, gate, fired, run, local>>

\* subSteps, before mu.
ReadTree(p) ==
    /\ pc[p] = "call"
    /\ snap' = [snap EXCEPT ![p] = step]
    /\ pc' = [pc EXCEPT ![p] = "decide"]
    /\ UNCHANGED <<record, table, hold, stopping, gate, fired, run, picks, arg>>

\* p reserves S out of the ready steps R.
Picks(p, R, S) ==
    LET startable == {i \in R : /\ i \notin hold
                                /\ ~JobScopeTaken(snap[p][i].scope)
                                /\ declined => i \in allowed}
    IN  /\ S \subseteq startable
        /\ IF stopping \/ fired THEN S = {}
           ELSE /\ Cardinality(S) + Load <= MaxConcurrent
                /\ S # startable => Cardinality(S) + Load = MaxConcurrent
                /\ \A i \in S, j \in startable \ S : i < j
        /\ pending' = pending \cup S
        /\ picks' = [picks EXCEPT ![p] = S]
        /\ IF S = {}
           THEN /\ pc' = [pc EXCEPT ![p] = Returned(p, FALSE)]
                /\ snap' = [snap EXCEPT ![p] = Blank]
           ELSE pc' = [pc EXCEPT ![p] = "build"] /\ UNCHANGED snap

\* Decide and reserve, under mu: the first of the startable steps, as many
\* as there is room for.
Reserve(p) ==
    /\ pc[p] = "decide"
    /\ \E R \in SUBSET Steps : /\ IsReady(R, snap[p], RunningIds \cup pending)
                              /\ \E S \in SUBSET R : Picks(p, R, S)
    /\ UNCHANGED <<record, runs, slots, jobScopes, hold, stopping, gate, fired, run, arg>>

\* The pick whose dispatch p is building: in document order.
Building(p, i) == pc[p] = "build" /\ i \in picks[p] /\ \A j \in picks[p] : i <= j

\* What p does after a pick it could not install.
Continue(p, i) ==
    LET rest == picks[p] \ {i}
        over == rest = {}
        next == IF over THEN Returned(p, arg[p].any) ELSE "build"
    IN  /\ picks' = [picks EXCEPT ![p] = rest]
        /\ snap' = IF over THEN [snap EXCEPT ![p] = Blank] ELSE snap
        /\ arg' = IF next = "idle" THEN [arg EXCEPT ![p] = NoArg] ELSE arg
        /\ pc' = [pc EXCEPT ![p] = IF p \in Jobs THEN "unstarted" ELSE next]

\* Mutant: the reservation outlives the install.
UnreserveNothing(i) == UNCHANGED <<pending, jobScopes>>
Unreserve(i) == pending' = pending \ {i} /\ jobScopes' = jobScopes \ {i}

\* dispatchPicked gives a pick back: the build panicked and was fenced or,
\* under mu again, the session had stopped, an operator had claimed the node
\* or a scheduled event's turn had begun.
GiveBack(p, i) ==
    /\ Building(p, i)
    /\ "panic" \in May \/ stopping \/ i \in hold \/ fired
    /\ Unreserve(i)
    /\ Continue(p, i)
    /\ UNCHANGED <<record, runs, slots, hold, stopping, gate, fired, run>>

\* Mutant: the checks made before the build are not made again.
InstallUnchecked(p, i, g) ==
    /\ Building(p, i) /\ pc[g] = "free"
    /\ Unreserve(i)
    /\ runs' = [runs EXCEPT ![i] = g]
    /\ run' = [run EXCEPT ![g] = [NoRun EXCEPT !.node = i,
                    !.owner = snap[p][i].owner, !.scope = snap[p][i].scope]]
    /\ picks' = [picks EXCEPT ![p] = @ \ {i}]
    /\ pc' = [pc EXCEPT ![p] = "mark", ![g] = "installed"]
    /\ arg' = [arg EXCEPT ![p].on = g]
    /\ UNCHANGED <<record, slots, hold, stopping, gate, fired, snap>>

Install(p, i, g) ==
    /\ Building(p, i) /\ pc[g] = "free"
    /\ ~stopping /\ i \notin hold /\ ~fired
    /\ Unreserve(i)
    /\ runs' = [runs EXCEPT ![i] = g]
    /\ run' = [run EXCEPT ![g] = [NoRun EXCEPT !.node = i,
                    !.owner = snap[p][i].owner, !.scope = snap[p][i].scope]]
    /\ picks' = [picks EXCEPT ![p] = @ \ {i}]
    /\ pc' = [pc EXCEPT ![p] = "mark", ![g] = "installed"]
    /\ arg' = [arg EXCEPT ![p].on = g]
    /\ UNCHANGED <<record, slots, hold, stopping, gate, fired, snap>>

\* SetDispatched in the record, then go runSub.
MarkDispatched(p) ==
    /\ pc[p] = "mark"
    /\ LET g == arg[p].on
           over == picks[p] = {}
       IN  /\ dispatched' = dispatched \cup {run[g].node}
           /\ arg' = [arg EXCEPT ![p] = IF over THEN NoArg
                            ELSE [@ EXCEPT !.on = None, !.any = p \in Starters]]
           /\ snap' = IF over THEN [snap EXCEPT ![p] = Blank] ELSE snap
           /\ pc' = [pc EXCEPT ![g] = "starting",
                ![p] = IF ~over THEN "build"
                       ELSE IF p \in Jobs THEN "over" ELSE Returned(p, TRUE)]
    /\ UNCHANGED <<step, table, hold, stopping, gate, fired, run, picks>>

-----------------------------------------------------------------------------
(* DispatchJob *)

Over(j) == pc' = [pc EXCEPT ![j] = "over"]

\* The refusals that need no lock, then the tree is read.
JobReads(j) ==
    /\ pc[j] = "idle"
    /\ IF fired THEN Over(j) /\ UNCHANGED snap
       ELSE /\ pc' = [pc EXCEPT ![j] = "check"]
            /\ snap' = [snap EXCEPT ![j] = step]
    /\ UNCHANGED <<record, table, hold, stopping, gate, fired, run, picks, arg>>

\* jobOverlapLocked: a reservation, a run's live scope, an open owned step.
JobConflict(j) ==
    \/ JobScopeTaken(Scope0[j])
    \/ \E i \in RunningIds : Overlap(Scope0[j], run[runs[i]].scope)
    \/ \E i \in Ids : /\ snap[j][i].status = "todo" /\ snap[j][i].owner # None
                      /\ Overlap(Scope0[j], snap[j][i].scope)

JobReserves(j) ==
    /\ pc[j] = "check"
    /\ snap' = [snap EXCEPT ![j] = Blank]
    /\ IF JobConflict(j) \/ Load >= MaxConcurrent \/ stopping
       THEN Over(j) /\ UNCHANGED <<slots, jobScopes>>
       ELSE /\ slots' = slots \cup {j}
            /\ jobScopes' = jobScopes \cup {j}
            /\ pc' = [pc EXCEPT ![j] = "file"]
    /\ UNCHANGED <<record, runs, pending, hold, stopping, gate, fired, run, picks, arg>>

\* Store.AddJob: refused, and nothing kept, beside a dispatched overlap.
JobFiles(j) ==
    /\ pc[j] = "file"
    /\ IF \E i \in dispatched : Overlap(Scope0[j], step[i].scope)
       THEN /\ slots' = slots \ {j} /\ jobScopes' = jobScopes \ {j}
            /\ Over(j)
            /\ UNCHANGED step
       ELSE /\ step' = [step EXCEPT ![j] = [status |-> "todo",
                            owner |-> Owner0[j], scope |-> Scope0[j]]]
            /\ pc' = [pc EXCEPT ![j] = "filed"]
            /\ UNCHANGED <<slots, jobScopes>>
    /\ UNCHANGED <<dispatched, runs, pending, hold, stopping, gate, fired, run, local>>

\* The slot becomes the step's own reservation.
JobSwaps(j) ==
    /\ pc[j] = "filed"
    /\ slots' = slots \ {j}
    /\ pending' = pending \cup {j}
    /\ picks' = [picks EXCEPT ![j] = {j}]
    /\ pc' = [pc EXCEPT ![j] = "reread"]
    /\ UNCHANGED <<record, runs, jobScopes, hold, stopping, gate, fired, run, snap, arg>>

JobRereads(j) ==
    /\ pc[j] = "reread"
    /\ snap' = [snap EXCEPT ![j] = step]
    /\ pc' = [pc EXCEPT ![j] = "build"]
    /\ UNCHANGED <<record, table, hold, stopping, gate, fired, run, picks, arg>>

\* Mutant: the mark stays on a step that was already closed.
CloseAsOpenOnly(i, status) ==
    IF step[i].status = "todo"
    THEN /\ step' = [step EXCEPT ![i].status = status]
         /\ dispatched' = dispatched \ {i}
    ELSE UNCHANGED record

\* Store.CloseAs on an open step; a closed one only loses its mark.
CloseAs(i, status) ==
    /\ step' = [step EXCEPT ![i].status = IF @ = "todo" THEN status ELSE @]
    /\ dispatched' = dispatched \ {i}

\* Mutant: a job that was not installed leaves its step open.
JobUnstartedOpen(j) ==
    /\ pc[j] = "unstarted"
    /\ Over(j)
    /\ UNCHANGED <<record, table, hold, stopping, gate, fired, run, local>>

\* Not installed: the ready rule never offers a job, so its step is closed.
JobUnstarted(j) ==
    /\ pc[j] = "unstarted"
    /\ CloseAs(j, "blocked")
    /\ Over(j)
    /\ UNCHANGED <<table, hold, stopping, gate, fired, run, local>>

-----------------------------------------------------------------------------
(* runSub *)

Moves(g, from, to) == pc[g] = from /\ pc' = [pc EXCEPT ![g] = to]

\* subConsent: an online run that meets a scheduled event's turn never
\* starts; its step stays todo, a job's step closes.  A refusal is an error,
\* so the run goes on to end with one.
Consent(g) ==
    /\ pc[g] = "starting"
    /\ IF fired /\ run[g].owner \in Online
       THEN /\ run' = [run EXCEPT ![g].verdict = IF IsJob(run[g].node) THEN "blocked" ELSE "held"]
            /\ pc' = [pc EXCEPT ![g] = "settled"]
       ELSE pc' = [pc EXCEPT ![g] = "working"] /\ UNCHANGED run
    /\ UNCHANGED <<record, table, hold, stopping, gate, fired, local>>

\* askMain registers its question, one at a time.
AskMain(g) ==
    /\ "ask" \in May /\ Moves(g, "working", "asking")
    /\ ~run[g].question /\ ~Cancelled(g)
    /\ run' = [run EXCEPT ![g].question = TRUE]
    /\ UNCHANGED <<record, table, hold, stopping, gate, fired, local>>

\* ReplyAsk clears the question under mu; the answer arrives after it.
ReplyAsk(i) ==
    /\ runs[i] # None /\ run[runs[i]].question
    /\ run' = [run EXCEPT ![runs[i]].question = FALSE]
    /\ UNCHANGED <<record, table, hold, stopping, gate, fired, pc, local>>

Answered(g) ==
    /\ Moves(g, "asking", "working")
    /\ ~run[g].question
    /\ UNCHANGED <<record, table, hold, stopping, gate, fired, run, local>>

AskTimesOut(g) ==
    /\ pc[g] = "asking" /\ ~run[g].timedOut
    /\ run' = [run EXCEPT ![g].timedOut = TRUE]
    /\ UNCHANGED <<record, table, hold, stopping, gate, fired, pc, local>>

\* StopSubAgent stops an owner's runs; JobStop stops one job.
Stoppable == {o \in Owners : "stop" \in May}
StopOwner(o) ==
    /\ \E g \in Runners : run[g].owner = o /\ runs[run[g].node] = g /\ ~run[g].stopped
    /\ run' = [g \in Runners |->
                 IF run[g].owner = o /\ runs[run[g].node] = g
                 THEN [run[g] EXCEPT !.stopped = TRUE] ELSE run[g]]
    /\ UNCHANGED <<record, table, hold, stopping, gate, fired, pc, local>>

\* settleSub's one read of the run's flags decides how the step ends.
Settle(g) ==
    /\ pc[g] = "working" \/ (pc[g] = "asking" /\ Cancelled(g))
    /\ \E end \in {"done", "blocked"} :
        run' = [run EXCEPT ![g].verdict =
            IF run[g].interrupt
            THEN IF IsJob(run[g].node) /\ run[g].sessionEnd THEN "blocked" ELSE "interrupted"
            ELSE IF run[g].timedOut \/ run[g].stopped THEN "blocked" ELSE end]
    /\ pc' = [pc EXCEPT ![g] = "settled"]
    /\ UNCHANGED <<record, table, hold, stopping, gate, fired, local>>

\* Mutant: every verdict is written as a status.
CloseStepRaw(g) ==
    /\ Moves(g, "settled", "closed")
    /\ CloseAs(run[g].node, run[g].verdict)
    /\ UNCHANGED <<table, hold, stopping, gate, fired, run, local>>
\* Mutant: the run's end is announced while it is still in the table.
CloseStepHeard(g) ==
    /\ pc[g] = "settled"
    /\ dispatched' = dispatched \ {run[g].node}
    /\ pc' = [p \in Procs |->
                IF p = g THEN "closed"
                ELSE IF p \in Assigners /\ pc[p] = "await" /\ arg[p].on = g THEN "assign"
                ELSE pc[p]]
    /\ UNCHANGED <<step, table, hold, stopping, gate, fired, run, local>>

\* CloseAs, Interrupt or SetDispatched(false) in the record.
CloseStep(g) ==
    /\ Moves(g, "settled", "closed")
    /\ IF run[g].verdict \in {"held", "interrupted"}
       THEN dispatched' = dispatched \ {run[g].node} /\ UNCHANGED step
       ELSE CloseAs(run[g].node, run[g].verdict)
    /\ UNCHANGED <<table, hold, stopping, gate, fired, run, local>>

\* Mutant: nothing is scheduled after a run.
RemoveRunQuietly(g) ==
    /\ Moves(g, "closed", "closing")
    /\ runs' = [runs EXCEPT ![run[g].node] = None]
    /\ UNCHANGED <<record, pending, slots, jobScopes, hold, stopping, gate, fired, run, local>>

\* The run leaves the table; what follows is the parting schedule.
RemoveRun(g) ==
    /\ Moves(g, "closed", "call")
    /\ runs' = [runs EXCEPT ![run[g].node] = None]
    /\ UNCHANGED <<record, pending, slots, jobScopes, hold, stopping, gate, fired, run, local>>

\* Mutant: nobody hears the run end.
FinishUnheard(g) ==
    /\ Moves(g, "closing", "free")
    /\ arg' = [p \in Procs |-> IF arg[p].on = g THEN [arg[p] EXCEPT !.on = None] ELSE arg[p]]
    /\ run' = [run EXCEPT ![g] = NoRun]
    /\ UNCHANGED <<record, table, hold, stopping, gate, fired, snap, picks>>

\* close(run.done), which a waiting AssignOwner hears, and wg.Done.  A
\* SetScope still holding the run writes to a record nobody reads again.
Finish(g) ==
    /\ pc[g] = "closing"
    /\ pc' = [p \in Procs |->
                IF p = g THEN "free"
                ELSE IF p \in Assigners /\ pc[p] = "await" /\ arg[p].on = g THEN "assign"
                ELSE pc[p]]
    /\ arg' = [p \in Procs |-> IF arg[p].on = g THEN [arg[p] EXCEPT !.on = None] ELSE arg[p]]
    /\ run' = [run EXCEPT ![g] = NoRun]
    /\ UNCHANGED <<record, table, hold, stopping, gate, fired, snap, picks>>

-----------------------------------------------------------------------------
(* AssignOwner *)

\* Under mu: a reserved or working step is refused (no change of state); a
\* parked run is held, interrupted and waited for.
AssignChecks(a, i, o) ==
    /\ pc[a] = "idle" /\ i \notin pending
    /\ arg' = [arg EXCEPT ![a] = [NoArg EXCEPT !.id = i, !.owner = o, !.on = runs[i]]]
    /\ IF runs[i] = None
       THEN /\ pc' = [pc EXCEPT ![a] = "assign"]
            /\ UNCHANGED <<hold, run>>
       ELSE /\ run[runs[i]].question
            /\ hold' = hold \cup {i}
            /\ run' = [run EXCEPT ![runs[i]].interrupt = TRUE]
            /\ pc' = [pc EXCEPT ![a] = "await"]
    /\ UNCHANGED <<record, table, stopping, gate, fired, snap, picks>>

\* Store.SetOwner: refused while the step is marked dispatched, or for an
\* owner that is no sub-agent.
AssignRewrites(a) ==
    /\ pc[a] = "assign"
    /\ LET i == arg[a].id
           o == arg[a].owner
       IN  IF i \in dispatched \/ o \in Outsiders
           THEN pc' = [pc EXCEPT ![a] = "giveup"] /\ UNCHANGED <<step, arg>>
           ELSE /\ step' = [step EXCEPT ![i].owner = o]
                /\ arg' = [arg EXCEPT ![a].any = step[i].owner # o]
                /\ pc' = [pc EXCEPT ![a] = "release"]
    /\ UNCHANGED <<dispatched, table, hold, stopping, gate, fired, run, snap, picks>>

\* The hold goes before the schedule; a failed assignment makes none.
AssignReleases(a) ==
    /\ pc[a] \in {"release", "giveup"}
    /\ hold' = hold \ {arg[a].id}
    /\ allowed' = IF arg[a].any THEN allowed \cup {arg[a].id} ELSE allowed
    /\ arg' = [arg EXCEPT ![a] = NoArg]
    /\ pc' = [pc EXCEPT ![a] = IF @ = "release" THEN "call" ELSE "idle"]
    /\ UNCHANGED <<record, table, stopping, declined, fired, run, snap, picks>>

-----------------------------------------------------------------------------
(* SetScope *)

\* Under mu: a reserved step is refused, and a running one unless widened.
ScopeChecks(c, i, new) ==
    /\ pc[c] = "idle" /\ i \notin pending
    /\ runs[i] # None => run[runs[i]].scope \subseteq new
    /\ arg' = [arg EXCEPT ![c] = [NoArg EXCEPT !.id = i, !.scope = new, !.on = runs[i]]]
    /\ pc' = [pc EXCEPT ![c] = "rescope"]
    /\ UNCHANGED <<record, table, hold, stopping, gate, fired, run, snap, picks>>

\* Store.SetScope: refused beside another dispatched step on those paths.
ScopeRewrites(c) ==
    /\ pc[c] = "rescope"
    /\ LET i == arg[c].id
           new == arg[c].scope
       IN  IF \E k \in dispatched \ {i} : Overlap(new, step[k].scope)
           THEN /\ pc' = [pc EXCEPT ![c] = "idle"]
                /\ arg' = [arg EXCEPT ![c] = NoArg]
                /\ UNCHANGED step
           ELSE /\ step' = [step EXCEPT ![i].scope = new]
                /\ arg' = [arg EXCEPT ![c].any = step[i].scope # new]
                /\ pc' = [pc EXCEPT ![c] = "apply"]
    /\ UNCHANGED <<dispatched, table, hold, stopping, gate, fired, run, snap, picks>>

\* Under mu again: the run read at the start gets the new scope.
ScopeApplies(c) ==
    /\ pc[c] = "apply"
    /\ LET g == arg[c].on
       IN  IF g = None
           THEN pc' = [pc EXCEPT ![c] = "call"] /\ UNCHANGED run
           ELSE /\ run' = [run EXCEPT ![g].scope = arg[c].scope]
                /\ pc' = [pc EXCEPT ![c] = IF run[g].question THEN "answer" ELSE "call"]
    /\ allowed' = IF arg[c].any THEN allowed \cup {arg[c].id} ELSE allowed
    /\ arg' = IF pc'[c] = "call" THEN [arg EXCEPT ![c] = NoArg] ELSE arg
    /\ UNCHANGED <<record, table, hold, stopping, declined, fired, snap, picks>>

\* The parked ask is answered "scope widened to ...".
ScopeAnswers(c) ==
    /\ Moves(c, "answer", "call")
    /\ LET i == arg[c].id
       IN  run' = IF runs[i] = None THEN run ELSE [run EXCEPT ![runs[i]].question = FALSE]
    /\ arg' = [arg EXCEPT ![c] = NoArg]
    /\ UNCHANGED <<record, table, hold, stopping, gate, fired, snap, picks>>

-----------------------------------------------------------------------------
(* StopAllSubAgents, EnableSubAgents, scheduled events, the startup gate *)

StopAll(s) ==
    /\ Moves(s, "idle", "draining")
    /\ stopping' = TRUE
    /\ run' = [g \in Runners |->
                 IF run[g].node # None /\ runs[run[g].node] = g
                 THEN [run[g] EXCEPT !.interrupt = TRUE, !.sessionEnd = TRUE] ELSE run[g]]
    /\ UNCHANGED <<record, table, hold, gate, fired, local>>

\* wg.Wait, or its five seconds are over.
StopReturns(s, drained) ==
    /\ Moves(s, "draining", "stopped")
    /\ drained => \A g \in Runners : pc[g] = "free"
    /\ arg' = [arg EXCEPT ![s].any = drained]
    /\ UNCHANGED <<record, table, hold, stopping, gate, fired, run, snap, picks>>

EnableSubAgents(s) ==
    /\ Moves(s, "stopped", "idle")
    /\ stopping' = FALSE
    /\ arg' = [arg EXCEPT ![s] = NoArg]
    /\ UNCHANGED <<record, table, hold, gate, fired, run, snap, picks>>

\* runFired: its closing schedule runs once the turn is no longer fired.
FireBegins(f) ==
    /\ Moves(f, "idle", "firing") /\ ~fired
    /\ fired' = TRUE
    /\ UNCHANGED <<record, table, hold, stopping, gate, run, local>>
FireEnds(f) ==
    /\ Moves(f, "firing", "call")
    /\ fired' = FALSE
    /\ UNCHANGED <<record, table, hold, stopping, gate, run, local>>

\* resumeSubAgents: job steps an earlier session left open are closed, unless
\* a job is being filed right now.
ResumeReads(t) ==
    /\ Moves(t, "idle", "resume")
    /\ snap' = [snap EXCEPT ![t] = step]
    /\ UNCHANGED <<record, table, hold, stopping, gate, fired, run, picks, arg>>
\* Mutant: a job with only its slot reserved is not thought of.
ResumeChecksSlotless(t) ==
    /\ Moves(t, "resume", "orphans")
    /\ arg' = [arg EXCEPT ![t] = [NoArg EXCEPT !.ids = {j \in Jobs :
                    /\ snap[t][j].status = "todo" /\ j \notin RunningIds \cup pending}]]
    /\ snap' = [snap EXCEPT ![t] = Blank]
    /\ UNCHANGED <<record, table, hold, stopping, gate, fired, run, picks>>
ResumeChecks(t) ==
    /\ Moves(t, "resume", "orphans")
    /\ arg' = [arg EXCEPT ![t] = [NoArg EXCEPT !.ids = {j \in Jobs :
                    /\ slots = {}
                    /\ snap[t][j].status = "todo" /\ j \notin RunningIds \cup pending}]]
    /\ snap' = [snap EXCEPT ![t] = Blank]
    /\ UNCHANGED <<record, table, hold, stopping, gate, fired, run, picks>>
ResumeCloses(t, j) ==
    /\ pc[t] = "orphans" /\ j \in arg[t].ids
    /\ CloseAs(j, "blocked")
    /\ arg' = [arg EXCEPT ![t].ids = @ \ {j}]
    /\ UNCHANGED <<table, hold, stopping, gate, fired, run, pc, snap, picks>>
ResumeDone(t) ==
    /\ Moves(t, "orphans", "startup") /\ arg[t].ids = {}
    /\ arg' = [arg EXCEPT ![t] = NoArg]
    /\ UNCHANGED <<record, table, hold, stopping, gate, fired, run, snap, picks>>

\* startupResumeGate: asked once, only when something is ready.
GateReads(t) ==
    /\ Moves(t, "startup", "gate")
    /\ snap' = [snap EXCEPT ![t] = step]
    /\ UNCHANGED <<record, table, hold, stopping, gate, fired, run, picks, arg>>
GateAsks(t) ==
    /\ \E R \in SUBSET Steps :
        /\ IsReady(R, snap[t], RunningIds \cup pending)
        /\ Moves(t, "gate", IF R = {} THEN "call" ELSE "question")
    /\ snap' = [snap EXCEPT ![t] = Blank]
    /\ UNCHANGED <<record, table, hold, stopping, gate, fired, run, picks, arg>>
GateAnswered(t, yes) ==
    /\ Moves(t, "question", "call")
    /\ IF yes THEN UNCHANGED gate ELSE declined' = TRUE /\ allowed' = {}
    /\ UNCHANGED <<record, table, hold, stopping, fired, run, local>>

\* AllowSubAgentStart: the decline is cleared for the schedule it makes, and
\* comes back, with what was allowed, when that dispatched nothing.
StartClears(t) ==
    /\ "hasty" \in May \/ \A g \in Gates : pc[g] = "over"
    /\ Moves(t, "idle", IF fired THEN "idle" ELSE "call")
    /\ declined' = FALSE /\ allowed' = {}
    /\ arg' = IF fired THEN arg
              ELSE [arg EXCEPT ![t] = [NoArg EXCEPT !.declined = declined, !.ids = allowed]]
    /\ UNCHANGED <<record, table, hold, stopping, fired, run, snap, picks>>
StartRestores(t) ==
    /\ Moves(t, "restore", "idle")
    /\ declined' = arg[t].declined
    /\ allowed' = allowed \cup arg[t].ids
    /\ arg' = [arg EXCEPT ![t] = NoArg]
    /\ UNCHANGED <<record, table, hold, stopping, fired, run, snap, picks>>

\* The main model moves a step with the task tool (Store.SetStatus), which
\* asks neither lock about runs.
Editable == {i \in Steps : "edit" \in May}
SetStatus(i, status) ==
    /\ step[i].status # status
    /\ step' = [step EXCEPT ![i].status = status]
    /\ UNCHANGED <<dispatched, table, hold, stopping, gate, fired, run, pc, local>>

\* The program is killed and started again: the task record is what was
\* saved, everything else, the dispatched marks too, begins anew.
Crash ==
    /\ "crash" \in May /\ \A t \in Gates : pc[t] = "over"
    /\ dispatched' = {} /\ runs' = [i \in Ids |-> None]
    /\ pending' = {} /\ slots' = {} /\ jobScopes' = {} /\ hold' = {}
    /\ stopping' = FALSE /\ declined' = FALSE /\ allowed' = {} /\ fired' = FALSE
    /\ run' = [g \in Runners |-> NoRun]
    /\ pc' = [p \in Procs |-> IF p \in Runners THEN "free"
                  ELSE IF p \in Jobs /\ pc[p] # "idle" THEN "lost" ELSE "idle"]
    /\ snap' = [p \in Procs |-> Blank]
    /\ picks' = [p \in Procs |-> {}]
    /\ arg' = [p \in Procs |-> NoArg]
    /\ UNCHANGED step

-----------------------------------------------------------------------------
ScheduleStep(p) ==
    \/ ReadTree(p) \/ Reserve(p) \/ MarkDispatched(p)
    \/ \E i \in Ids : GiveBack(p, i) \/ \E g \in Runners : Install(p, i, g)
JobStep(j) ==
    \/ JobReads(j) \/ JobReserves(j) \/ JobFiles(j)
    \/ JobSwaps(j) \/ JobRereads(j) \/ JobUnstarted(j)
RunEnds(g) ==
    Answered(g) \/ Settle(g) \/ CloseStep(g) \/ RemoveRun(g) \/ Finish(g)
RunStep(g) == Consent(g) \/ AskMain(g) \/ AskTimesOut(g) \/ RunEnds(g)
AssignStep(a) ==
    \/ \E i \in Steps, o \in Owners \cup {None} : AssignChecks(a, i, o)
    \/ AssignRewrites(a) \/ AssignReleases(a)
ScopeStep(c) ==
    \/ \E i \in Steps, new \in SUBSET Paths \ {{}} : ScopeChecks(c, i, new)
    \/ ScopeRewrites(c) \/ ScopeApplies(c) \/ ScopeAnswers(c)
StopStep(s) ==
    StopAll(s) \/ (\E drained \in BOOLEAN : StopReturns(s, drained)) \/ EnableSubAgents(s)
ResumeStep(t) ==
    ResumeReads(t) \/ ResumeChecks(t) \/ ResumeDone(t) \/ \E j \in Jobs : ResumeCloses(t, j)
GateStep(t) ==
    GateReads(t) \/ GateAsks(t) \/ \E yes \in BOOLEAN : GateAnswered(t, yes)

Next ==
    \/ \E p \in Procs : ScheduleStep(p)
    \/ \E s \in Schedulers : ScheduleSubAgents(s)
    \/ \E j \in Jobs : JobStep(j)
    \/ \E g \in Runners : RunStep(g)
    \/ \E i \in Ids : ReplyAsk(i)
    \/ \E o \in Stoppable : StopOwner(o)
    \/ \E a \in Assigners : AssignStep(a)
    \/ \E c \in Scopers : ScopeStep(c)
    \/ \E s \in Stoppers : StopStep(s)
    \/ \E f \in Firers : FireBegins(f) \/ FireEnds(f)
    \/ \E t \in Gates : ResumeStep(t) \/ GateStep(t)
    \/ Crash
    \/ \E t \in Starters : StartClears(t) \/ StartRestores(t)
    \/ \E i \in Editable, status \in Statuses \ {"none"} : SetStatus(i, status)

Spec == Init /\ [][Next]_vars

\* Goroutines run; a run past its consent ends however often it asks (its
\* turns are capped and its requests time out), and an ask has a timer.
\* Nobody has to call anything, answer anything or end a scheduled event.
Fairness ==
    /\ \A p \in Procs : WF_vars(ScheduleStep(p))
    /\ \A g \in Runners : SF_vars(Settle(g)) /\ WF_vars(RunEnds(g)) /\ WF_vars(AskTimesOut(g)) /\ WF_vars(Consent(g))
    /\ \A j \in Jobs : WF_vars(pc[j] # "idle" /\ JobStep(j))
    /\ \A a \in Assigners : WF_vars(AssignRewrites(a) \/ AssignReleases(a))
    /\ \A c \in Scopers : WF_vars(ScopeRewrites(c) \/ ScopeApplies(c) \/ ScopeAnswers(c))
    /\ \A s \in Stoppers : WF_vars(\E drained \in BOOLEAN : StopReturns(s, drained))
    /\ \A t \in Gates : WF_vars(ResumeStep(t))
    /\ \A t \in Starters : WF_vars(StartRestores(t))
FairSpec == Spec /\ Fairness

-----------------------------------------------------------------------------
Phases == {"idle", "call", "decide", "build", "mark", "check", "file", "filed",
           "reread", "unstarted", "over", "lost", "free", "installed", "starting",
           "working", "asking", "settled", "closed", "closing", "assign",
           "await", "release", "giveup", "rescope", "apply", "answer",
           "draining", "stopped", "firing", "resume", "orphans", "startup", "gate", "question", "restore"}

\* The variables hold values of their types.
TypeOK ==
    /\ step \in [Ids -> StepRecs]
    /\ dispatched \subseteq Ids
    /\ runs \in [Ids -> Runners \cup {None}]
    /\ pending \subseteq Ids /\ slots \subseteq Jobs /\ jobScopes \subseteq Jobs
    /\ hold \subseteq Ids /\ allowed \subseteq Ids
    /\ {stopping, declined, fired} \subseteq BOOLEAN
    /\ run \in [Runners -> [node : Ids \cup {None}, owner : Owners \cup {None},
                   scope : SUBSET Paths, question : BOOLEAN, interrupt : BOOLEAN,
                   sessionEnd : BOOLEAN, stopped : BOOLEAN, timedOut : BOOLEAN,
                   verdict : {"none", "done", "blocked", "interrupted", "held"}]]
    /\ pc \in [Procs -> Phases]
    /\ snap \in [Procs -> [Ids -> StepRecs]]
    /\ picks \in [Procs -> SUBSET Ids]
    /\ arg \in [Procs -> [id : Ids \cup {None}, owner : Owners \cup {None},
                   scope : SUBSET Paths, on : Runners \cup {None},
                   declined : BOOLEAN, ids : SUBSET Ids, any : BOOLEAN]]

\* The steps that run, are reserved or are being filed stay under
\* max_concurrent, however many callers schedule and dispatch at once
\* (subagents.go: "they count against max_concurrent").
Capped == Cardinality(RunningIds \cup pending \cup slots) <= MaxConcurrent

\* A reservation belongs to exactly one caller, who has still to build it,
\* and nothing is both reserved and running: no step is dispatched twice at
\* a time, and no abandoned pick stays behind (subagents.go: "A candidate
\* that is abandoned is always released from here").
Reservations ==
    /\ pending = UNION {picks[p] : p \in Procs}
    /\ \A p, q \in Procs : p # q => picks[p] \cap picks[q] = {}
    /\ pending \cap RunningIds = {}

\* Goroutines that work for a step, from the install to the hand-back.
Live == {g \in Runners : pc[g] \in {"installed", "starting", "working", "asking", "settled", "closed"}}

\* The record's mark follows the run although the two are never changed
\* together: marked only while a run is in the table, and marked for as long
\* as the sub-agent may be working (SetOwner and SetScope rely on it).
MarksMatch ==
    /\ dispatched \subseteq RunningIds
    /\ \A g \in Live : pc[g] \in {"starting", "working", "asking"} => run[g].node \in dispatched

\* Two runs never share a path.
NoOverlap == \A i, k \in RunningIds :
    i # k => ~Overlap(run[runs[i]].scope, run[runs[k]].scope)

\* Two standing steps that run never share a path, nor do two jobs.  A step
\* and a job may: SubAgents_overlap shows the order that gets past the check.
NoOverlapOfSteps == \A i, k \in RunningIds :
    i # k /\ (i \in Jobs <=> k \in Jobs) => ~Overlap(run[runs[i]].scope, run[runs[k]].scope)

\* A job's step is never left open with nothing running it and no call that
\* will still start or close it: the ready rule would never offer it and its
\* scope would refuse every later job.
NoOrphanJob == \A j \in Jobs :
    pc[j] = "over" /\ step[j].status = "todo" => j \in RunningIds

Quiet ==
    /\ \A p \in Callers \ Gates : pc[p] \in {"idle", "over", "stopped"}
    /\ \A t \in Gates : pc[t] = "over"
    /\ \A j \in Jobs : pc[j] \in {"idle", "over", "lost"}
    /\ \A g \in Runners : pc[g] = "free"

\* When nothing is in flight and nothing was stopped, every ready step is
\* one the operator declined at startup and nobody asked for since: each
\* schedule that found the table full, a step reserved or a turn fired is
\* followed by one that looks again, and what AssignOwner allowed stays
\* allowed across an /agents start that found nothing to do.
NoneForgotten == Quiet /\ ~stopping /\ ~fired =>
    \A R \in SUBSET Steps : IsReady(R, step, {}) =>
        \A i \in R : declined /\ i \notin allowed

\* AssignOwner on a parked run comes back: the interrupted run ends whatever
\* it was doing, and its parting schedule cannot take the step up again.
AssignReturns == \A a \in Assigners : pc[a] = "await" ~> pc[a] = "idle"

\* While an assignment that stopped a run rewrites the owner, nobody else
\* starts that step (subagents.go: "a re-dispatch in between would take the
\* node back").
HeldIsFree == \A a \in Assigners :
    pc[a] \in {"assign", "release", "giveup"} /\ arg[a].id \in hold
        => arg[a].id \notin RunningIds

\* A dispatched job's step ends closed: run to its end, stopped with the
\* session, held by a scheduled event, never started, or cut off by a crash
\* and closed by the next start.
JobCloses == \A j \in Jobs : step[j].status = "todo" ~> step[j].status \in {"done", "blocked"}

\* Once StopAllSubAgents returned, its wait not cut short, nothing runs until
\* the runner is enabled again: no dispatch that was being built slips in.
StoppedIsQuiet == \A s \in Stoppers :
    pc[s] = "stopped" /\ arg[s].any => RunningIds = {}

\* The resume pass closes what an earlier session left behind, and never a
\* job that this one is filing, starting or running (subagents.go: "leave
\* orphans for next time").
NoLiveJobClosed == [][\A t \in Gates, j \in Jobs :
    ResumeCloses(t, j) => j \notin RunningIds \cup pending \cup slots]_vars

\* A step's scope is only ever widened under a sub-agent that works on it:
\* the files it wrote stay files it may fix (subagents.go: "widening, and
\* only widening").
WidensOnly == [][\A g \in Runners :
    pc[g] # "free" /\ pc'[g] # "free" => run[g].scope \subseteq run'[g].scope
                                        \/ run[g].node = None]_vars

\* A decline at startup, and what was allowed since, stands until somebody
\* asks for sub-agents anew: an /agents start that found nothing to start
\* puts the decline back, and keeps what was allowed meanwhile.
DeclineStands ==
    [][(declined /\ ~declined') \/ ~(allowed \subseteq allowed') =>
          \/ Crash \/ \E u \in Starters : StartClears(u)
          \/ \E t \in Gates : GateAnswered(t, FALSE)]_vars

-----------------------------------------------------------------------------
(* What comments of the code promise and the interleavings break *)

\* A sub-agent works its own step: the owner is not changed under it
\* (subagents.go: "a run that is working is refused").
OwnerKept == \A g \in Runners :
    pc[g] = "working" => step[run[g].node].owner = run[g].owner
=============================================================================
