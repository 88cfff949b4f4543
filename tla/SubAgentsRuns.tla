--------------------------- MODULE SubAgentsRuns ---------------------------
(* Proofs that the table of runs, the goroutines, the record's marks and   *)
(* the steps of jobs stay in step with each other, for any number of       *)
(* steps, jobs and goroutines; and that, of one starter left undisturbed,  *)
(* no ready step is forgotten.                                             *)
EXTENDS SubAgentsProofs, WellFoundedInduction

\* Where a goroutine can be: in the table, or in its parting schedule.
Serving == {"installed", "starting", "working", "asking", "settled", "closed"}
Marked == {"starting", "working", "asking", "settled"}
RunnerPhases == {"free", "call", "decide", "build", "mark", "closing"} \cup Serving

\* The table and the goroutines agree: each entry is one goroutine that
\* serves that step, and each goroutine that serves has its entry.
TableExact ==
    /\ \A g \in Runners : pc[g] \in RunnerPhases
    /\ \A g \in Runners : pc[g] \in Serving => run[g].node \in Ids /\ runs[run[g].node] = g
    /\ \A i \in Ids : runs[i] # None => run[runs[i]].node = i /\ pc[runs[i]] \in Serving

\* A mark is on the step of a goroutine between its marking and its closing.
MarksExact ==
    /\ \A i \in dispatched : runs[i] # None /\ pc[runs[i]] \in Marked
    /\ \A g \in Runners : pc[g] \in Marked \ {"settled"} => run[g].node \in dispatched

\* A job's run is interrupted only with the session, so its verdict is one
\* that closes the step, and it has closed it before it leaves the table.
JobRuns == \A g \in Runners : run[g].node \in Jobs =>
    /\ pc[g] \in Serving /\ run[g].interrupt => run[g].sessionEnd
    /\ pc[g] = "settled" => run[g].verdict \in {"done", "blocked"}
    /\ pc[g] = "closed" => step[run[g].node].status # "todo"

\* A job's step exists from its filing on; what the call holds says how far
\* it has come; and once the call is over an open step has a run.
JobSteps == \A j \in Jobs :
    /\ pc[j] \in {"idle", "check", "file"} => step[j].status = "none"
    /\ pc[j] = "mark" => runs[j] = arg[j].on
    /\ j \in slots => pc[j] \in {"file", "filed"}
    /\ pc[j] \in {"reread", "build"} => j \in picks[j]
    /\ pc[j] = "over" /\ step[j].status = "todo" => runs[j] # None

\* What the resume pass has read names only jobs whose call is past filing;
\* what it is about to close, only jobs that can never run again.
Filing == {"idle", "check", "file"}
Ended == {"unstarted", "over", "lost"}
ResumeSafe == \A t \in Gates, j \in Jobs :
    /\ pc[t] = "resume" /\ snap[t][j].status = "todo" => pc[j] \notin Filing
    /\ pc[t] = "orphans" /\ j \in arg[t].ids => pc[j] \in Ended /\ runs[j] = None

RunInv == TableExact /\ MarksExact /\ JobRuns /\ JobSteps /\ ResumeSafe
Inv == TypeInv /\ CapInv /\ RunInv

-----------------------------------------------------------------------------
(* Frames *)

\* Only p moves, and what the others remember, read and picked stays.
Alone(p) == \A q \in Procs \ {p} :
    pc'[q] = pc[q] /\ arg'[q] = arg[q] /\ snap'[q] = snap[q] /\ picks'[q] = picks[q]

\* The runs keep what the proofs look at, and no job's run is interrupted
\* but with the session.
RunsCalm == \A g \in Runners :
    /\ run'[g].node = run[g].node /\ run'[g].verdict = run[g].verdict
    /\ run[g].sessionEnd => run'[g].sessionEnd
    /\ run'[g].interrupt => run[g].interrupt \/ run'[g].sessionEnd \/ run[g].node \notin Jobs

\* A step in which no run, mark, slot, pick or job changes.
Aside ==
    /\ UNCHANGED runs /\ UNCHANGED dispatched /\ UNCHANGED slots /\ UNCHANGED picks
    /\ RunsCalm
    /\ \A j \in Jobs : step'[j].status = step[j].status
    /\ \A q \in Runners \cup Jobs : pc'[q] = pc[q] /\ arg'[q] = arg[q]

\* No gate begins to read or to close, and those that do have no more to
\* close than before.
GatesKeep == \A t \in Gates :
    /\ pc'[t] = "resume" => pc[t] = "resume" /\ snap'[t] = snap[t]
    /\ pc'[t] = "orphans" => pc[t] = "orphans" /\ arg'[t].ids \subseteq arg[t].ids

\* A job's call only goes forward, and one that is over for good stays so.
JobsForward == \A j \in Jobs :
    /\ pc[j] \notin Filing => pc'[j] \notin Filing
    /\ pc[j] \in Ended /\ runs[j] = None => pc'[j] \in Ended /\ runs'[j] = None

LEMMA GatesForward ==
    ASSUME ResumeSafe, GatesKeep, JobsForward PROVE ResumeSafe'
<1> SUFFICES ASSUME NEW t \in Gates, NEW j \in Jobs
             PROVE  /\ pc'[t] = "resume" /\ snap'[t][j].status = "todo" => pc'[j] \notin Filing
                    /\ pc'[t] = "orphans" /\ j \in arg'[t].ids => pc'[j] \in Ended /\ runs'[j] = None
  BY DEF ResumeSafe
<1> QED  BY DEF ResumeSafe, GatesKeep, JobsForward

LEMMA Apart ==
    /\ Runners \cap Jobs = {} /\ Callers \cap Jobs = {} /\ Steps \cap Jobs = {}
    /\ Callers \cap Runners = {} /\ None \notin Runners /\ None \notin Ids
    /\ Runners \subseteq Procs /\ Jobs \subseteq Procs /\ Callers \subseteq Procs
    /\ Schedulers \cup Assigners \cup Scopers \cup Stoppers \cup Firers \cup Gates
          \cup Starters \subseteq Callers
    /\ Jobs \subseteq Ids /\ Steps \subseteq Ids
  BY SubAgentsAssumption, Disjoint, Blanks DEF Ids, Callers

LEMMA AsideRuns ==
    ASSUME Inv, Aside PROVE TableExact' /\ MarksExact' /\ JobRuns' /\ JobSteps'
<1> USE Apart
<1>1. TableExact'
  BY DEF Inv, RunInv, TableExact, Aside, RunsCalm, TypeInv, TableType
<1>2. MarksExact'
  BY DEF Inv, RunInv, MarksExact, Aside, RunsCalm, TypeInv, TableType, RecordType
<1>3. JobRuns'
  BY DEF Inv, RunInv, JobRuns, Aside, RunsCalm
<1>4. JobSteps'
  BY DEF Inv, RunInv, JobSteps, Aside
<1> QED  BY <1>1, <1>2, <1>3, <1>4

LEMMA AsideKeeps ==
    ASSUME Inv, Aside, GatesKeep PROVE RunInv'
<1>1. JobsForward
  BY DEF Aside, JobsForward
<1> QED  BY <1>1, AsideRuns, GatesForward DEF Inv, RunInv

LEMMA SameRuns == UNCHANGED run => RunsCalm
  BY DEF RunsCalm

LEMMA RunParts ==
    ASSUME NEW r \in RunRecs
    PROVE  /\ \A b \in BOOLEAN : LET n == [r EXCEPT !.question = b]
                                 IN  /\ n.node = r.node /\ n.verdict = r.verdict /\ n.scope = r.scope
                                     /\ n.sessionEnd = r.sessionEnd /\ n.interrupt = r.interrupt
           /\ LET n == [r EXCEPT !.interrupt = TRUE]
              IN  /\ n.node = r.node /\ n.verdict = r.verdict /\ n.scope = r.scope
                  /\ n.sessionEnd = r.sessionEnd
           /\ LET n == [r EXCEPT !.interrupt = TRUE, !.sessionEnd = TRUE]
              IN  /\ n.node = r.node /\ n.verdict = r.verdict /\ n.scope = r.scope /\ n.sessionEnd
           /\ LET n == [r EXCEPT !.stopped = TRUE]
              IN  /\ n.node = r.node /\ n.verdict = r.verdict /\ n.scope = r.scope
                  /\ n.sessionEnd = r.sessionEnd /\ n.interrupt = r.interrupt
           /\ LET n == [r EXCEPT !.timedOut = TRUE]
              IN  /\ n.node = r.node /\ n.verdict = r.verdict /\ n.scope = r.scope
                  /\ n.sessionEnd = r.sessionEnd /\ n.interrupt = r.interrupt
           /\ \A s : LET n == [r EXCEPT !.scope = s]
                     IN  /\ n.node = r.node /\ n.verdict = r.verdict /\ n.scope = s
                         /\ n.sessionEnd = r.sessionEnd /\ n.interrupt = r.interrupt
           /\ \A v : LET n == [r EXCEPT !.verdict = v]
                     IN  /\ n.node = r.node /\ n.verdict = v /\ n.scope = r.scope
                         /\ n.sessionEnd = r.sessionEnd /\ n.interrupt = r.interrupt
  BY DEF RunRecs

-----------------------------------------------------------------------------
(* Callers *)

LEMMA AloneKeepsGates ==
    ASSUME NEW p \in Procs, Alone(p), pc'[p] \notin {"resume", "orphans"} PROVE GatesKeep
  BY Apart DEF Alone, GatesKeep

\* A caller that is no goroutine and no job moves alone, and of the table,
\* the marks and the jobs it changes nothing.
LEMMA CallerAside ==
    ASSUME Inv, NEW p \in Callers, Alone(p), UNCHANGED table, UNCHANGED picks,
           UNCHANGED dispatched, RunsCalm, \A j \in Jobs : step'[j].status = step[j].status
    PROVE  Aside
<1>1. \A q \in Runners \cup Jobs : q \in Procs \ {p}
  BY Apart
<1> QED  BY <1>1 DEF Aside, Alone, table

LEMMA StatusKept ==
    ASSUME TypeInv, NEW i, NEW v,
           step' = [step EXCEPT ![i].owner = v] \/ step' = [step EXCEPT ![i].scope = v]
    PROVE  \A j \in Ids : step'[j].status = step[j].status
  BY DEF TypeInv, RecordType, Trees, StepRecs

LEMMA AssignAside ==
    ASSUME Inv, NEW a \in Assigners, AssignStep(a)
    PROVE  Alone(a) /\ Aside /\ GatesKeep
<1> USE Apart
<1> USE DEF Inv, TypeInv, PcType, ArgType
<1>1. CASE \E i \in Steps, o \in Owners \cup {None} : AssignChecks(a, i, o)
  <2>1. PICK i \in Steps, o \in Owners \cup {None} : AssignChecks(a, i, o)
    BY <1>1
  <2>2. PICK r : arg' = [arg EXCEPT ![a] = r]
    BY <2>1 DEF AssignChecks
  <2>3. PICK to \in {"assign", "await"} : pc' = [pc EXCEPT ![a] = to]
    BY <2>1 DEF AssignChecks
  <2>4. Alone(a) /\ pc'[a] = to
    BY <2>1, <2>2, <2>3 DEF AssignChecks, Alone
  <2>5. RunsCalm
    <3>1. CASE runs[i] = None
      BY <2>1, <3>1, SameRuns DEF AssignChecks
    <3>2. CASE runs[i] # None
      <4>1. /\ runs[i] \in Runners /\ run[runs[i]].node = i
            /\ run' = [run EXCEPT ![runs[i]].interrupt = TRUE]
        BY <2>1, <3>2 DEF AssignChecks, TableType, RunInv, TableExact
      <4>2. run[runs[i]] \in RunRecs
        BY <4>1 DEF RunType
      <4> QED  BY <4>1, <4>2, RunParts DEF RunsCalm, RunType
    <3> QED  BY <3>1, <3>2
  <2>6. Aside
    BY <2>1, <2>4, <2>5, CallerAside DEF AssignChecks, record
  <2> QED  BY <2>4, <2>6, AloneKeepsGates
<1>2. CASE AssignRewrites(a)
  <2>1. PICK to \in {"giveup", "release"} : pc' = [pc EXCEPT ![a] = to]
    BY <1>2 DEF AssignRewrites
  <2>2. \A q \in Procs \ {a} : arg'[q] = arg[q]
    BY <1>2 DEF AssignRewrites
  <2>3. Alone(a) /\ pc'[a] = to
    BY <1>2, <2>1, <2>2 DEF AssignRewrites, Alone
  <2>4. \A j \in Jobs : step'[j].status = step[j].status
    BY <1>2, StatusKept DEF AssignRewrites
  <2>5. Aside
    BY <1>2, <2>3, <2>4, SameRuns, CallerAside DEF AssignRewrites
  <2> QED  BY <2>3, <2>5, AloneKeepsGates
<1>3. CASE AssignReleases(a)
  <2>1. PICK to \in {"call", "idle"} : pc' = [pc EXCEPT ![a] = to]
    BY <1>3 DEF AssignReleases
  <2>2. Alone(a) /\ pc'[a] = to
    BY <1>3, <2>1 DEF AssignReleases, Alone
  <2>3. Aside
    BY <1>3, <2>2, SameRuns, CallerAside DEF AssignReleases, record
  <2> QED  BY <2>2, <2>3, AloneKeepsGates
<1> QED  BY <1>1, <1>2, <1>3 DEF AssignStep

LEMMA ScopeAside ==
    ASSUME Inv, NEW c \in Scopers, ScopeStep(c)
    PROVE  Alone(c) /\ Aside /\ GatesKeep
<1> USE Apart
<1> USE DEF Inv, TypeInv, PcType, ArgType
<1>1. CASE \E i \in Steps, new \in SUBSET Paths \ {{}} : ScopeChecks(c, i, new)
  <2>1. PICK i \in Steps, new \in SUBSET Paths \ {{}} : ScopeChecks(c, i, new)
    BY <1>1
  <2>2. PICK r : arg' = [arg EXCEPT ![c] = r]
    BY <2>1 DEF ScopeChecks
  <2>3. Alone(c) /\ pc'[c] = "rescope"
    BY <2>1, <2>2 DEF ScopeChecks, Alone
  <2>4. Aside
    BY <2>1, <2>3, SameRuns, CallerAside DEF ScopeChecks, record
  <2> QED  BY <2>3, <2>4, AloneKeepsGates
<1>2. CASE ScopeRewrites(c)
  <2>1. PICK to \in {"idle", "apply"} : pc' = [pc EXCEPT ![c] = to]
    BY <1>2 DEF ScopeRewrites
  <2>2. \A q \in Procs \ {c} : arg'[q] = arg[q]
    BY <1>2 DEF ScopeRewrites
  <2>3. Alone(c) /\ pc'[c] = to
    BY <1>2, <2>1, <2>2 DEF ScopeRewrites, Alone
  <2>4. \A j \in Jobs : step'[j].status = step[j].status
    BY <1>2, StatusKept DEF ScopeRewrites
  <2>5. Aside
    BY <1>2, <2>3, <2>4, SameRuns, CallerAside DEF ScopeRewrites
  <2> QED  BY <2>3, <2>5, AloneKeepsGates
<1>3. CASE ScopeApplies(c)
  <2>1. PICK to \in {"call", "answer"} : pc' = [pc EXCEPT ![c] = to]
    BY <1>3 DEF ScopeApplies
  <2>2. \A q \in Procs \ {c} : arg'[q] = arg[q]
    BY <1>3 DEF ScopeApplies
  <2>3. Alone(c) /\ pc'[c] = to
    BY <1>3, <2>1, <2>2 DEF ScopeApplies, Alone
  <2>4. RunsCalm
    <3>1. PICK g, s : UNCHANGED run \/ run' = [run EXCEPT ![g].scope = s]
      BY <1>3, Zenon DEF ScopeApplies
    <3>2. CASE UNCHANGED run \/ g \notin Runners
      BY <3>1, <3>2, SameRuns DEF RunType
    <3>3. CASE ~(UNCHANGED run) /\ g \in Runners
      <4>1. run[g] \in RunRecs
        BY <3>3 DEF RunType
      <4>2. /\ run'[g] = [run[g] EXCEPT !.scope = s]
            /\ \A h \in Runners \ {g} : run'[h] = run[h]
        BY <3>1, <3>3 DEF RunType
      <4>3. /\ run'[g].node = run[g].node /\ run'[g].verdict = run[g].verdict
            /\ run'[g].interrupt = run[g].interrupt /\ run'[g].sessionEnd = run[g].sessionEnd
        BY <4>1, <4>2, RunParts
      <4> QED  BY <4>2, <4>3 DEF RunsCalm
    <3> QED  BY <3>2, <3>3
  <2>5. Aside
    BY <1>3, <2>3, <2>4, CallerAside DEF ScopeApplies, record
  <2> QED  BY <2>3, <2>5, AloneKeepsGates
<1>4. CASE ScopeAnswers(c)
  <2>1. Alone(c) /\ pc'[c] = "call"
    BY <1>4 DEF ScopeAnswers, Moves, Alone
  <2>2. RunsCalm
    <3>1. PICK g : UNCHANGED run \/ run' = [run EXCEPT ![g].question = FALSE]
      BY <1>4, Zenon DEF ScopeAnswers
    <3>2. CASE UNCHANGED run \/ g \notin Runners
      BY <3>1, <3>2, SameRuns DEF RunType
    <3>3. CASE ~(UNCHANGED run) /\ g \in Runners
      <4>1. run[g] \in RunRecs
        BY <3>3 DEF RunType
      <4>2. /\ run'[g] = [run[g] EXCEPT !.question = FALSE]
            /\ \A h \in Runners \ {g} : run'[h] = run[h]
        BY <3>1, <3>3 DEF RunType
      <4>3. /\ run'[g].node = run[g].node /\ run'[g].verdict = run[g].verdict
            /\ run'[g].interrupt = run[g].interrupt /\ run'[g].sessionEnd = run[g].sessionEnd
        BY <4>1, <4>2, RunParts
      <4> QED  BY <4>2, <4>3 DEF RunsCalm
    <3> QED  BY <3>2, <3>3
  <2>3. Aside
    BY <1>4, <2>1, <2>2, CallerAside DEF ScopeAnswers, record
  <2> QED  BY <2>1, <2>3, AloneKeepsGates
<1> QED  BY <1>1, <1>2, <1>3, <1>4 DEF ScopeStep

LEMMA StopAside ==
    ASSUME Inv, NEW s \in Stoppers, StopStep(s)
    PROVE  Alone(s) /\ Aside /\ GatesKeep
<1> USE Apart
<1> USE DEF Inv, TypeInv, PcType, ArgType
<1>1. CASE StopAll(s)
  <2>1. Alone(s) /\ pc'[s] = "draining"
    BY <1>1 DEF StopAll, Moves, Alone, local
  <2>2. RunsCalm
    <3>1. \A g \in Runners : run[g] \in RunRecs
      BY DEF RunType
    <3> QED  BY <1>1, <3>1, RunParts DEF StopAll, RunsCalm
  <2>3. Aside
    BY <1>1, <2>1, <2>2, CallerAside DEF StopAll, record, local
  <2> QED  BY <2>1, <2>3, AloneKeepsGates
<1>2. CASE \E drained \in BOOLEAN : StopReturns(s, drained)
  <2>1. Alone(s) /\ pc'[s] = "stopped"
    BY <1>2 DEF StopReturns, Moves, Alone
  <2>2. Aside
    BY <1>2, <2>1, SameRuns, CallerAside DEF StopReturns, record
  <2> QED  BY <2>1, <2>2, AloneKeepsGates
<1>3. CASE EnableSubAgents(s)
  <2>1. Alone(s) /\ pc'[s] = "idle"
    BY <1>3 DEF EnableSubAgents, Moves, Alone
  <2>2. Aside
    BY <1>3, <2>1, SameRuns, CallerAside DEF EnableSubAgents, record
  <2> QED  BY <2>1, <2>2, AloneKeepsGates
<1> QED  BY <1>1, <1>2, <1>3 DEF StopStep

\* Schedules called outright and the turns of scheduled events.
LEMMA FireAside ==
    ASSUME Inv, NEW f \in Callers, FireBegins(f) \/ FireEnds(f) \/ ScheduleSubAgents(f)
    PROVE  Alone(f) /\ Aside /\ GatesKeep
<1> USE Apart
<1>1. PICK to \in {"firing", "call"} : pc' = [pc EXCEPT ![f] = to]
  BY DEF FireBegins, FireEnds, ScheduleSubAgents, Moves
<1>2. /\ UNCHANGED record /\ UNCHANGED table /\ UNCHANGED run
      /\ UNCHANGED snap /\ UNCHANGED picks /\ UNCHANGED arg
  BY DEF FireBegins, FireEnds, ScheduleSubAgents, Moves, local
<1>3. Alone(f) /\ pc'[f] = to
  BY <1>1, <1>2 DEF Alone, Inv, TypeInv, PcType
<1>4. Aside
  BY <1>2, <1>3, SameRuns, CallerAside DEF record
<1> QED  BY <1>3, <1>4, AloneKeepsGates

LEMMA StartAside ==
    ASSUME Inv, NEW t \in Starters, StartClears(t) \/ StartRestores(t)
    PROVE  Alone(t) /\ Aside /\ GatesKeep
<1> USE Apart
<1>1. PICK to \in {"idle", "call"} : pc' = [pc EXCEPT ![t] = to]
  BY DEF StartClears, StartRestores, Moves
<1>2. PICK r : arg' = arg \/ arg' = [arg EXCEPT ![t] = r]
  BY DEF StartClears, StartRestores
<1>3. UNCHANGED record /\ UNCHANGED table /\ UNCHANGED run /\ UNCHANGED snap /\ UNCHANGED picks
  BY DEF StartClears, StartRestores
<1>4. Alone(t) /\ pc'[t] = to
  BY <1>1, <1>2, <1>3 DEF Alone, Inv, TypeInv, PcType, ArgType
<1>5. Aside
  BY <1>3, <1>4, SameRuns, CallerAside DEF record
<1> QED  BY <1>4, <1>5, AloneKeepsGates

\* The startup question, and the resume pass until it closes.
LEMMA GateAside ==
    ASSUME Inv, NEW t \in Gates,
           GateStep(t) \/ ResumeReads(t) \/ ResumeChecks(t) \/ ResumeDone(t)
    PROVE  Alone(t) /\ Aside
<1> USE Apart
<1>1. PICK to : pc' = [pc EXCEPT ![t] = to]
  BY Zenon DEF GateStep, GateReads, GateAsks, GateAnswered, ResumeReads, ResumeChecks, ResumeDone, Moves
<1>2. PICK r, v : /\ arg' = arg \/ arg' = [arg EXCEPT ![t] = r]
                  /\ snap' = snap \/ snap' = [snap EXCEPT ![t] = v]
  BY Zenon DEF GateStep, GateReads, GateAsks, GateAnswered, ResumeReads, ResumeChecks, ResumeDone, local
<1>3. UNCHANGED record /\ UNCHANGED table /\ UNCHANGED run /\ UNCHANGED picks
  BY DEF GateStep, GateReads, GateAsks, GateAnswered, ResumeReads, ResumeChecks, ResumeDone, local
<1>4. Alone(t)
  BY <1>1, <1>2, <1>3 DEF Alone, Inv, TypeInv, PcType, ArgType, SnapType
<1>5. Aside
  BY <1>3, <1>4, SameRuns, CallerAside DEF record
<1> QED  BY <1>4, <1>5

\* The resume pass reads a record in which a job still being filed has no
\* step, and passes over whatever is being started or runs.
LEMMA GateResumes ==
    ASSUME Inv, NEW t \in Gates,
           GateStep(t) \/ ResumeReads(t) \/ ResumeChecks(t) \/ ResumeDone(t)
    PROVE  ResumeSafe'
<1> USE Apart
<1>1. Alone(t) /\ Aside /\ t \in Procs
  BY GateAside
<1>2. JobsForward
  BY <1>1 DEF Aside, JobsForward
<1>3. CASE pc'[t] \notin {"resume", "orphans"}
  BY <1>1, <1>2, <1>3, AloneKeepsGates, GatesForward DEF Inv, RunInv
<1>4. CASE ResumeReads(t)
  <2>1. pc'[t] = "resume" /\ snap'[t] = step
    BY <1>1, <1>4 DEF ResumeReads, Moves, Inv, TypeInv, PcType, SnapType
  <2>2. SUFFICES ASSUME NEW u \in Gates, NEW j \in Jobs
                 PROVE  /\ pc'[u] = "resume" /\ snap'[u][j].status = "todo" => pc'[j] \notin Filing
                        /\ pc'[u] = "orphans" /\ j \in arg'[u].ids => pc'[j] \in Ended /\ runs'[j] = None
    BY DEF ResumeSafe
  <2>3. CASE u = t
    BY <1>1, <2>1, <2>3 DEF Inv, RunInv, JobSteps, Filing, Aside
  <2>4. CASE u # t
    BY <1>1, <1>2, <2>4 DEF Alone, Inv, RunInv, ResumeSafe, JobsForward
  <2> QED  BY <2>3, <2>4
<1>5. CASE ResumeChecks(t)
  <2>1. /\ pc[t] = "resume" /\ pc'[t] = "orphans"
        /\ \A j \in arg'[t].ids : /\ j \in Jobs /\ slots = {} /\ snap[t][j].status = "todo"
                                  /\ j \notin RunningIds \cup pending
    BY <1>1, <1>5 DEF ResumeChecks, Moves, Inv, TypeInv, PcType, ArgType, NoArg
  <2>2. SUFFICES ASSUME NEW u \in Gates, NEW j \in Jobs
                 PROVE  /\ pc'[u] = "resume" /\ snap'[u][j].status = "todo" => pc'[j] \notin Filing
                        /\ pc'[u] = "orphans" /\ j \in arg'[u].ids => pc'[j] \in Ended /\ runs'[j] = None
    BY DEF ResumeSafe
  <2>3. CASE u = t
    <3>1. SUFFICES ASSUME j \in arg'[t].ids PROVE pc[j] \in Ended /\ runs[j] = None
      BY <1>1, <2>1, <2>3 DEF Aside
    <3>2. pc[j] \notin Filing /\ j \in Ids
      BY <2>1, <3>1 DEF Inv, RunInv, ResumeSafe
    <3>3. runs[j] = None
      BY <2>1, <3>1, <3>2 DEF RunningIds
    <3>4. pc[j] # "filed"
      BY <2>1, <3>1 DEF Inv, CapInv, JobPlaces
    <3>5. pc[j] \notin {"reread", "build"}
      <4>1. j \notin picks[j]
        BY <2>1, <3>1 DEF Inv, CapInv, Reservations
      <4> QED  BY <4>1 DEF Inv, RunInv, JobSteps
    <3>6. pc[j] # "mark"
      <4>1. pc[j] = "mark" => arg[j].on \in Runners
        BY DEF Inv, TypeInv, Marks
      <4> QED  BY <3>3, <4>1 DEF Inv, RunInv, JobSteps
    <3> QED  BY <3>2, <3>3, <3>4, <3>5, <3>6 DEF Inv, CapInv, JobPlaces, JobPhases, Filing, Ended
  <2>4. CASE u # t
    BY <1>1, <1>2, <2>4 DEF Alone, Inv, RunInv, ResumeSafe, JobsForward
  <2> QED  BY <2>3, <2>4
<1>6. CASE GateStep(t) \/ ResumeDone(t)
  <2>1. PICK to \in {"gate", "call", "question", "startup"} : pc' = [pc EXCEPT ![t] = to]
    BY <1>6, Zenon DEF GateStep, GateReads, GateAsks, GateAnswered, ResumeDone, Moves
  <2>2. pc'[t] \notin {"resume", "orphans"}
    BY <1>1, <2>1 DEF Inv, TypeInv, PcType
  <2> QED  BY <1>3, <2>2
<1> QED  BY <1>4, <1>5, <1>6

\* Closing a step: it is not open any more, and a closed one stays as it was.
LEMMA CloseEffect ==
    ASSUME TypeInv, NEW i \in Ids, NEW s, s # "todo", CloseAs(i, s)
    PROVE  /\ step'[i].status # "todo"
           /\ step[i].status # "todo" => step'[i].status = step[i].status
           /\ \A k \in Ids \ {i} : step'[k] = step[k]
           /\ dispatched' = dispatched \ {i}
  BY DEF CloseAs, TypeInv, RecordType, Trees, StepRecs

\* What the resume pass closes has neither a run nor a mark.
LEMMA ResumeClosesRuns ==
    ASSUME Inv, NEW t \in Gates, NEW j \in Jobs, ResumeCloses(t, j) PROVE RunInv'
<1> USE Apart DEF Inv
<1>1. /\ pc[t] = "orphans" /\ j \in arg[t].ids /\ CloseAs(j, "blocked")
      /\ arg' = [arg EXCEPT ![t].ids = @ \ {j}]
      /\ UNCHANGED table /\ UNCHANGED run /\ UNCHANGED pc /\ UNCHANGED snap /\ UNCHANGED picks
  BY DEF ResumeCloses
<1>2. pc[j] \in Ended /\ runs[j] = None
  BY <1>1 DEF RunInv, ResumeSafe
<1>3. j \notin dispatched
  BY <1>2 DEF RunInv, MarksExact
<1>4. /\ step'[j].status # "todo" /\ \A k \in Ids \ {j} : step'[k] = step[k]
      /\ dispatched' = dispatched
  <2>1. j \in Ids
    OBVIOUS
  <2>2. /\ step'[j].status # "todo" /\ \A k \in Ids \ {j} : step'[k] = step[k]
        /\ dispatched' = dispatched \ {j}
    BY <1>1, <2>1, CloseEffect
  <2> QED  BY <1>3, <2>2
<1>5. arg'[t].ids = arg[t].ids \ {j} /\ \A q \in Procs \ {t} : arg'[q] = arg[q]
  BY <1>1 DEF TypeInv, ArgType, ArgRecs
<1>6. TableExact' /\ MarksExact'
  BY <1>1, <1>4 DEF RunInv, TableExact, MarksExact, table
<1>7. JobRuns'
  BY <1>1, <1>4 DEF RunInv, JobRuns
<1>8. JobSteps'
  <2>1. t \notin Jobs
    OBVIOUS
  <2> QED  BY <1>1, <1>2, <1>4, <1>5, <2>1 DEF RunInv, JobSteps, Ended, table
<1>9. GatesKeep /\ JobsForward
  BY <1>1, <1>5 DEF GatesKeep, JobsForward, table
<1> QED  BY <1>6, <1>7, <1>8, <1>9, GatesForward DEF RunInv

-----------------------------------------------------------------------------
(* Goroutines *)

\* A goroutine that serves moves on within the table; no mark and no step
\* changes.
LEMMA RunMoves ==
    ASSUME Inv, NEW g \in Runners, NEW to \in Serving \ {"installed", "closed"},
           pc[g] \in Marked, to \in Marked,
           pc[g] # "settled", pc' = [pc EXCEPT ![g] = to],
           RunType', NodesKept,
           \A h \in Runners \ {g} : run'[h] = run[h],
           run[g].node \in Jobs =>
              /\ run'[g].interrupt => run'[g].sessionEnd
              /\ to = "settled" => run'[g].verdict \in {"done", "blocked"},
           UNCHANGED table, UNCHANGED record, UNCHANGED local
    PROVE  RunInv'
<1> USE Apart DEF Inv
<1>1. pc'[g] = to /\ \A q \in Procs \ {g} : pc'[q] = pc[q]
  BY DEF TypeInv, PcType
<1>2. TableExact'
  BY <1>1 DEF RunInv, TableExact, NodesKept, table, Serving, Marked, RunnerPhases,
              TypeInv, TableType
<1>3. MarksExact'
  BY <1>1 DEF RunInv, MarksExact, NodesKept, table, record, Marked
<1>4. JobRuns'
  BY <1>1 DEF RunInv, JobRuns, NodesKept, record, Serving
<1>5. JobSteps'
  BY <1>1 DEF RunInv, JobSteps, table, record, local
<1>6. GatesKeep /\ JobsForward
  BY <1>1 DEF GatesKeep, JobsForward, table, local
<1> QED  BY <1>2, <1>3, <1>4, <1>5, <1>6, GatesForward DEF RunInv

\* Consent, the ask and its answer, and the verdict.
LEMMA RunMovesOn ==
    ASSUME Inv, NEW g \in Runners,
           Consent(g) \/ AskMain(g) \/ Answered(g) \/ Settle(g)
    PROVE  RunInv'
<1> USE DEF Inv, TypeInv, RunType
<1>1. run[g] \in RunRecs /\ RunType'
  BY ConsentTypes, AskTypes, AnsweredTypes, SettleTypes
<1>2. CASE Consent(g)
  <2>1. CASE fired /\ run[g].owner \in Online
    <3>1. PICK v \in {"blocked", "held"} :
             /\ run' = [run EXCEPT ![g].verdict = v]
             /\ run[g].node \in Jobs => v = "blocked"
      BY <1>2, <2>1 DEF Consent, IsJob
    <3>2. run'[g] = [run[g] EXCEPT !.verdict = v] /\ \A h \in Runners \ {g} : run'[h] = run[h]
      BY <3>1
    <3>3. /\ run'[g].node = run[g].node /\ run'[g].verdict = v
          /\ run'[g].interrupt = run[g].interrupt /\ run'[g].sessionEnd = run[g].sessionEnd
      BY <1>1, <3>2, RunParts
    <3>4. pc[g] = "starting" /\ pc' = [pc EXCEPT ![g] = "settled"]
          /\ UNCHANGED table /\ UNCHANGED record /\ UNCHANGED local
      BY <1>2, <2>1 DEF Consent
    <3>5. run[g].node \in Jobs => (run[g].interrupt => run[g].sessionEnd)
      BY <3>4 DEF RunInv, JobRuns, Serving
    <3> QED  BY <1>1, <3>1, <3>2, <3>3, <3>4, <3>5, RunMoves DEF Serving, Marked, NodesKept
  <2>2. CASE ~(fired /\ run[g].owner \in Online)
    <3>1. pc[g] = "starting" /\ pc' = [pc EXCEPT ![g] = "working"] /\ UNCHANGED run
          /\ UNCHANGED table /\ UNCHANGED record /\ UNCHANGED local
      BY <1>2, <2>2 DEF Consent
    <3>2. run[g].node \in Jobs => (run[g].interrupt => run[g].sessionEnd)
      BY <3>1 DEF RunInv, JobRuns, Serving
    <3> QED  BY <1>1, <3>1, <3>2, RunMoves DEF Serving, Marked, NodesKept
  <2> QED  BY <2>1, <2>2
<1>3. CASE AskMain(g)
  <2>1. /\ pc[g] = "working" /\ pc' = [pc EXCEPT ![g] = "asking"]
        /\ run' = [run EXCEPT ![g].question = TRUE]
        /\ UNCHANGED table /\ UNCHANGED record /\ UNCHANGED local
    BY <1>3 DEF AskMain, Moves
  <2>2. run'[g] = [run[g] EXCEPT !.question = TRUE] /\ \A h \in Runners \ {g} : run'[h] = run[h]
    BY <2>1
  <2>3. /\ run'[g].node = run[g].node
        /\ run'[g].interrupt = run[g].interrupt /\ run'[g].sessionEnd = run[g].sessionEnd
    BY <1>1, <2>2, RunParts
  <2>4. run[g].node \in Jobs => (run[g].interrupt => run[g].sessionEnd)
    BY <2>1 DEF RunInv, JobRuns, Serving
  <2> QED  BY <1>1, <2>1, <2>2, <2>3, <2>4, RunMoves DEF Serving, Marked, NodesKept
<1>4. CASE Answered(g)
  <2>1. pc[g] = "asking" /\ pc' = [pc EXCEPT ![g] = "working"] /\ UNCHANGED run
        /\ UNCHANGED table /\ UNCHANGED record /\ UNCHANGED local
    BY <1>4 DEF Answered, Moves
  <2>2. run[g].node \in Jobs => (run[g].interrupt => run[g].sessionEnd)
    BY <2>1 DEF RunInv, JobRuns, Serving
  <2> QED  BY <1>1, <2>1, <2>2, RunMoves DEF Serving, Marked, NodesKept
<1>5. CASE Settle(g)
  <2>1. /\ pc[g] \in {"working", "asking"} /\ pc' = [pc EXCEPT ![g] = "settled"]
        /\ UNCHANGED table /\ UNCHANGED record /\ UNCHANGED local
    BY <1>5 DEF Settle
  <2>2. run[g].node \in Jobs => (run[g].interrupt => run[g].sessionEnd)
    BY <2>1 DEF RunInv, JobRuns, Serving
  <2>3. PICK end \in {"done", "blocked"} :
           run' = [run EXCEPT ![g].verdict =
               IF run[g].interrupt
               THEN IF IsJob(run[g].node) /\ run[g].sessionEnd THEN "blocked" ELSE "interrupted"
               ELSE IF run[g].timedOut \/ run[g].stopped THEN "blocked" ELSE end]
    BY <1>5, Zenon DEF Settle
  <2>4. PICK v : /\ run' = [run EXCEPT ![g].verdict = v]
                 /\ run[g].node \in Jobs => v \in {"done", "blocked"}
    BY <2>2, <2>3 DEF IsJob
  <2>5. run'[g] = [run[g] EXCEPT !.verdict = v] /\ \A h \in Runners \ {g} : run'[h] = run[h]
    BY <2>4
  <2>6. /\ run'[g].node = run[g].node /\ run'[g].verdict = v
        /\ run'[g].interrupt = run[g].interrupt /\ run'[g].sessionEnd = run[g].sessionEnd
    BY <1>1, <2>5, RunParts
  <2> QED  BY <1>1, <2>1, <2>2, <2>4, <2>5, <2>6, RunMoves DEF Serving, Marked, NodesKept
<1> QED  BY <1>2, <1>3, <1>4, <1>5

\* Two goroutines that serve have different steps.
LEMMA OneEach ==
    ASSUME Inv, NEW g \in Runners, NEW h \in Runners, g # h,
           pc[g] \in Serving, pc[h] \in Serving
    PROVE  run[g].node # run[h].node
  BY DEF Inv, RunInv, TableExact

LEMMA CloseStepRuns ==
    ASSUME Inv, NEW g \in Runners, CloseStep(g) PROVE RunInv'
<1> USE Apart DEF Inv
<1> DEFINE n == run[g].node
<1>1. /\ pc[g] = "settled" /\ pc' = [pc EXCEPT ![g] = "closed"]
      /\ UNCHANGED table /\ UNCHANGED run /\ UNCHANGED local
  BY DEF CloseStep, Moves
<1>2. pc'[g] = "closed" /\ \A q \in Procs \ {g} : pc'[q] = pc[q]
  BY <1>1 DEF TypeInv, PcType
<1>3. n \in Ids /\ runs[n] = g
  BY <1>1 DEF RunInv, TableExact, Serving
<1>4. /\ dispatched' = dispatched \ {n}
      /\ \A k \in Ids \ {n} : step'[k] = step[k]
      /\ step[n].status # "todo" => step'[n].status = step[n].status
      /\ n \in Jobs => step'[n].status # "todo"
  <2>1. CASE run[g].verdict \in {"held", "interrupted"}
    <3>1. dispatched' = dispatched \ {n} /\ UNCHANGED step
      BY <2>1 DEF CloseStep
    <3>2. n \notin Jobs
      BY <1>1, <2>1 DEF RunInv, JobRuns
    <3> QED  BY <3>1, <3>2
  <2>2. CASE run[g].verdict \notin {"held", "interrupted"}
    <3>1. CloseAs(n, run[g].verdict)
      BY <2>2 DEF CloseStep
    <3>2. run[g].verdict # "todo"
      BY DEF TypeInv, RunType, RunRecs
    <3> QED  BY <1>3, <3>1, <3>2, CloseEffect
  <2> QED  BY <2>1, <2>2
<1> HIDE DEF n
<1>5. TableExact'
  BY <1>1, <1>2 DEF RunInv, TableExact, table, Serving, RunnerPhases
<1>6. MarksExact'
  <2>1. ASSUME NEW i \in dispatched' PROVE runs'[i] # None /\ pc'[runs'[i]] \in Marked
    <3>1. i \in dispatched /\ i # n
      BY <1>4, <2>1
    <3>2. runs[i] # None /\ pc[runs[i]] \in Marked /\ i \in Ids /\ runs[i] \in Runners
      BY <3>1 DEF RunInv, MarksExact, TypeInv, RecordType, TableType
    <3>3. runs[i] # g
      BY <3>1, <3>2 DEF RunInv, TableExact, n
    <3> QED  BY <1>1, <1>2, <3>2, <3>3 DEF table
  <2>2. ASSUME NEW h \in Runners, pc'[h] \in Marked \ {"settled"} PROVE run'[h].node \in dispatched'
    <3>1. h # g /\ pc[h] \in Marked \ {"settled"}
      BY <1>2, <2>2 DEF Marked
    <3>2. run[h].node # n
      BY <1>1, <3>1, OneEach DEF Serving, Marked, n
    <3> QED  BY <1>1, <1>4, <3>1, <3>2 DEF RunInv, MarksExact
  <2> QED  BY <2>1, <2>2 DEF MarksExact
<1>7. JobRuns'
  <2>1. ASSUME NEW h \in Runners, h # g, run[h].node \in Jobs, pc'[h] = "closed"
        PROVE  step'[run[h].node].status # "todo"
    <3>1. pc[h] = "closed" /\ run[h].node # n
      BY <1>1, <1>2, <2>1, OneEach DEF Serving, n
    <3> QED  BY <1>4, <2>1, <3>1 DEF RunInv, JobRuns
  <2> QED  BY <1>1, <1>2, <1>4, <2>1 DEF RunInv, JobRuns, Serving, n
<1>8. JobSteps'
  <2>1. ASSUME NEW j \in Jobs
        PROVE  /\ pc'[j] = pc[j] /\ arg'[j] = arg[j] /\ picks'[j] = picks[j]
               /\ step[j].status # "todo" => step'[j].status = step[j].status
    BY <1>1, <1>2, <1>4 DEF local
  <2> QED  BY <1>1, <1>2, <2>1 DEF RunInv, JobSteps, table
<1>9. GatesKeep /\ JobsForward
  BY <1>1, <1>2 DEF GatesKeep, JobsForward, table, local
<1> QED  BY <1>5, <1>6, <1>7, <1>8, <1>9, GatesForward DEF RunInv

LEMMA RemoveRunRuns ==
    ASSUME Inv, NEW g \in Runners, RemoveRun(g) PROVE RunInv'
<1> USE Apart DEF Inv
<1> DEFINE n == run[g].node
<1>1. /\ pc[g] = "closed" /\ pc' = [pc EXCEPT ![g] = "call"]
      /\ runs' = [runs EXCEPT ![n] = None]
      /\ UNCHANGED record /\ UNCHANGED slots /\ UNCHANGED run /\ UNCHANGED local
  BY DEF RemoveRun, Moves
<1>2. pc'[g] = "call" /\ \A q \in Procs \ {g} : pc'[q] = pc[q]
  BY <1>1 DEF TypeInv, PcType
<1>3. n \in Ids /\ runs[n] = g
  BY <1>1 DEF RunInv, TableExact, Serving
<1>4. runs'[n] = None /\ \A k \in Ids \ {n} : runs'[k] = runs[k] /\ runs[k] # g
  BY <1>1, <1>3 DEF TypeInv, TableType, RunInv, TableExact
<1>5. n \in Jobs => step[n].status # "todo"
  BY <1>1 DEF RunInv, JobRuns
<1> HIDE DEF n
<1>6. TableExact'
  <2>1. ASSUME NEW h \in Runners, pc'[h] \in Serving
        PROVE  run'[h].node \in Ids /\ runs'[run'[h].node] = h
    <3>1. h # g /\ pc[h] \in Serving
      BY <1>2, <2>1 DEF Serving
    <3>2. run[h].node # n
      BY <1>1, <3>1, OneEach DEF Serving, n
    <3> QED  BY <1>1, <1>4, <3>1, <3>2 DEF RunInv, TableExact
  <2>2. ASSUME NEW i \in Ids, runs'[i] # None
        PROVE  run'[runs'[i]].node = i /\ pc'[runs'[i]] \in Serving
    <3>1. i # n /\ runs'[i] = runs[i] /\ runs[i] # g /\ runs[i] \in Runners
      BY <1>4, <2>2 DEF TypeInv, TableType
    <3> QED  BY <1>1, <1>2, <2>2, <3>1 DEF RunInv, TableExact
  <2>3. \A h \in Runners : pc'[h] \in RunnerPhases
    BY <1>2 DEF RunInv, TableExact, RunnerPhases
  <2> QED  BY <2>1, <2>2, <2>3 DEF TableExact
<1>7. MarksExact'
  <2>1. ASSUME NEW i \in dispatched' PROVE runs'[i] # None /\ pc'[runs'[i]] \in Marked
    <3>1. i \in Ids /\ runs[i] \in Runners /\ pc[runs[i]] \in Marked
      BY <1>1, <2>1 DEF RunInv, MarksExact, record, TypeInv, RecordType, TableType
    <3>2. i # n
      BY <1>1, <1>3, <3>1 DEF Marked
    <3> QED  BY <1>2, <1>4, <3>1, <3>2
  <2> QED  BY <1>1, <1>2, <2>1 DEF RunInv, MarksExact, record, Marked
<1>8. JobRuns'
  BY <1>1, <1>2 DEF RunInv, JobRuns, record, Serving
<1>9. JobSteps'
  <2>1. ASSUME NEW j \in Jobs, pc[j] = "mark" PROVE runs'[j] = arg'[j].on
    <3>1. runs[j] = arg[j].on /\ pc[runs[j]] = "installed"
      BY <2>1 DEF RunInv, JobSteps, TypeInv, Marks
    <3>2. j # n
      BY <1>1, <1>3, <3>1
    <3> QED  BY <1>1, <1>4, <3>1, <3>2 DEF local
  <2>2. ASSUME NEW j \in Jobs, pc[j] = "over", step[j].status = "todo" PROVE runs'[j] # None
    BY <1>4, <1>5, <2>2 DEF RunInv, JobSteps
  <2> QED  BY <1>1, <1>2, <2>1, <2>2 DEF RunInv, JobSteps, record, local
<1>10. GatesKeep /\ JobsForward
  BY <1>1, <1>2, <1>4 DEF GatesKeep, JobsForward, local
<1> QED  BY <1>6, <1>7, <1>8, <1>9, <1>10, GatesForward DEF RunInv

LEMMA FinishRuns ==
    ASSUME Inv, NEW g \in Runners, Finish(g) PROVE RunInv'
<1> USE Apart DEF Inv
<1>1. /\ pc[g] = "closing"
      /\ pc' = [p \in Procs |->
                  IF p = g THEN "free"
                  ELSE IF p \in Assigners /\ pc[p] = "await" /\ arg[p].on = g THEN "assign"
                  ELSE pc[p]]
      /\ arg' = [p \in Procs |-> IF arg[p].on = g THEN [arg[p] EXCEPT !.on = None] ELSE arg[p]]
      /\ run' = [run EXCEPT ![g] = NoRun]
      /\ UNCHANGED record /\ UNCHANGED table /\ UNCHANGED snap /\ UNCHANGED picks
  BY DEF Finish
<1>2. /\ pc'[g] = "free"
      /\ \A q \in Procs : pc'[q] # pc[q] => q = g \/ (q \in Assigners /\ pc'[q] = "assign")
      /\ \A q \in Runners \cup Jobs : q # g => pc'[q] = pc[q]
  BY <1>1
<1>3. /\ run'[g].node = None /\ \A h \in Runners \ {g} : run'[h] = run[h]
  BY <1>1 DEF TypeInv, RunType, NoRun
<1>4. \A q \in Procs : /\ arg'[q].ids = arg[q].ids
                       /\ arg[q].on # g => arg'[q] = arg[q]
  BY <1>1 DEF TypeInv, ArgType, ArgRecs
<1>5. \A i \in Ids : runs[i] # g
  BY <1>1 DEF RunInv, TableExact, Serving
<1>6. TableExact'
  <2>1. ASSUME NEW i \in Ids, runs'[i] # None
        PROVE  run'[runs'[i]].node = i /\ pc'[runs'[i]] \in Serving
    <3>1. runs'[i] = runs[i] /\ runs[i] \in Runners \ {g}
      BY <1>1, <1>5, <2>1 DEF table, TypeInv, TableType
    <3> QED  BY <1>2, <1>3, <2>1, <3>1 DEF RunInv, TableExact
  <2>2. \A h \in Runners : pc'[h] \in RunnerPhases
    BY <1>2 DEF RunInv, TableExact, RunnerPhases
  <2>3. ASSUME NEW h \in Runners, pc'[h] \in Serving
        PROVE  run'[h].node \in Ids /\ runs'[run'[h].node] = h
    <3>1. h # g
      BY <1>2, <2>3 DEF Serving
    <3> QED  BY <1>1, <1>2, <1>3, <2>3, <3>1 DEF RunInv, TableExact, table
  <2> QED  BY <2>1, <2>2, <2>3 DEF TableExact
<1>7. MarksExact'
  <2>1. ASSUME NEW i \in dispatched' PROVE runs'[i] # None /\ pc'[runs'[i]] \in Marked
    <3>1. i \in Ids /\ runs[i] \in Runners \ {g} /\ pc[runs[i]] \in Marked
      BY <1>1, <1>5, <2>1 DEF RunInv, MarksExact, record, TypeInv, RecordType, TableType
    <3> QED  BY <1>1, <1>2, <3>1 DEF table
  <2>2. ASSUME NEW h \in Runners, pc'[h] \in Marked \ {"settled"} PROVE run'[h].node \in dispatched'
    <3>1. h # g /\ pc[h] = pc'[h]
      BY <1>2, <2>2 DEF Marked
    <3> QED  BY <1>1, <1>3, <2>2, <3>1 DEF RunInv, MarksExact, record
  <2> QED  BY <2>1, <2>2 DEF MarksExact
<1>8. JobRuns'
  <2>1. ASSUME NEW h \in Runners, run'[h].node \in Jobs PROVE h # g
    BY <1>3, <2>1
  <2> QED  BY <1>1, <1>2, <1>3, <2>1 DEF RunInv, JobRuns, record
<1>9. JobSteps'
  <2>1. ASSUME NEW j \in Jobs, pc[j] = "mark" PROVE arg'[j] = arg[j]
    <3>1. arg[j].on # g
      BY <1>1, <2>1 DEF TypeInv, Marks
    <3> QED  BY <1>4, <3>1
  <2>2. UNCHANGED <<runs, step, slots, picks>>
    BY <1>1 DEF table, record
  <2>3. \A j \in Jobs : pc'[j] = pc[j]
    BY <1>2
  <2> QED  BY <2>1, <2>2, <2>3 DEF RunInv, JobSteps
<1>10. GatesKeep /\ JobsForward
  <2>1. ASSUME NEW t \in Gates, pc'[t] \in {"resume", "orphans"} PROVE pc[t] = pc'[t]
    BY <1>2, <2>1
  <2> QED  BY <1>1, <1>2, <1>4, <2>1 DEF GatesKeep, JobsForward, table
<1> QED  BY <1>6, <1>7, <1>8, <1>9, <1>10, GatesForward DEF RunInv

-----------------------------------------------------------------------------
(* Schedules *)

\* A caller or goroutine that schedules moves on with nothing built, or a
\* job's call gives its pick back.
LEMMA ScheduleMoves ==
    ASSUME Inv, NEW p \in Procs, pc[p] \in {"call", "decide", "build"}, NEW to,
           pc' = [pc EXCEPT ![p] = to], to \notin Serving \cup {"resume", "orphans"},
           p \in Runners => to \in RunnerPhases,
           p \in Jobs => pc[p] = "build" /\ to = "unstarted",
           UNCHANGED run, UNCHANGED record, UNCHANGED runs, UNCHANGED slots,
           \A q \in Procs \ {p} : arg'[q] = arg[q] /\ snap'[q] = snap[q] /\ picks'[q] = picks[q]
    PROVE  RunInv'
<1> USE Apart DEF Inv
<1>1. pc'[p] = to /\ \A q \in Procs \ {p} : pc'[q] = pc[q]
  BY DEF TypeInv, PcType
<1>2. pc[p] \notin Serving
  BY DEF Serving
<1>3. TableExact'
  <2>1. ASSUME NEW i \in Ids, runs[i] # None PROVE runs[i] \in Runners \ {p}
    BY <1>2, <2>1 DEF RunInv, TableExact, TypeInv, TableType
  <2>2. \A i \in Ids : runs'[i] # None => run'[runs'[i]].node = i /\ pc'[runs'[i]] \in Serving
    BY <1>1, <2>1 DEF RunInv, TableExact
  <2>3. \A h \in Runners : pc'[h] \in Serving => run'[h].node \in Ids /\ runs'[run'[h].node] = h
    BY <1>1 DEF RunInv, TableExact
  <2>4. \A h \in Runners : pc'[h] \in RunnerPhases
    BY <1>1 DEF RunInv, TableExact
  <2> QED  BY <2>2, <2>3, <2>4 DEF TableExact
<1>4. MarksExact'
  <2>1. ASSUME NEW i \in dispatched PROVE runs[i] # None /\ runs[i] \in Runners \ {p} /\ pc[runs[i]] \in Marked
    BY <1>2, <2>1 DEF RunInv, MarksExact, TypeInv, RecordType, TableType, Marked, Serving
  <2>2. \A i \in dispatched' : runs'[i] # None /\ pc'[runs'[i]] \in Marked
    BY <1>1, <2>1 DEF record
  <2>3. \A h \in Runners : pc'[h] \in Marked \ {"settled"} => run'[h].node \in dispatched'
    BY <1>1 DEF RunInv, MarksExact, record, Marked, Serving
  <2> QED  BY <2>2, <2>3 DEF MarksExact
<1>5. JobRuns'
  BY <1>1 DEF RunInv, JobRuns, record, Serving
<1>6. JobSteps'
  <2>1. ASSUME NEW j \in Jobs, j # p
        PROVE  pc'[j] = pc[j] /\ arg'[j] = arg[j] /\ picks'[j] = picks[j]
    BY <1>1, <2>1
  <2>2. p \in Jobs => p \notin slots
    BY DEF RunInv, JobSteps
  <2> QED  BY <1>1, <2>1, <2>2 DEF RunInv, JobSteps, record
<1>7. JobsForward
  BY <1>1 DEF JobsForward, Filing, Ended
<1>8. GatesKeep
  BY <1>1 DEF GatesKeep
<1> QED  BY <1>3, <1>4, <1>5, <1>6, <1>7, <1>8, GatesForward DEF RunInv

\* A goroutine's parting schedule ends where the goroutine closes.
LEMMA RunnerReturns ==
    ASSUME NEW p \in Runners, NEW any PROVE Returned(p, any) = "closing"
<1>1. p \notin Starters /\ p \notin Gates
  BY Apart
<1> QED  BY <1>1, Zenon DEF Returned

LEMMA ReadTreeRuns ==
    ASSUME Inv, NEW p \in Procs, ReadTree(p) PROVE RunInv'
<1>1. /\ pc[p] = "call" /\ pc' = [pc EXCEPT ![p] = "decide"]
      /\ snap' = [snap EXCEPT ![p] = step]
      /\ UNCHANGED run /\ UNCHANGED record /\ UNCHANGED runs /\ UNCHANGED slots
      /\ UNCHANGED arg /\ UNCHANGED picks
  BY DEF ReadTree, table
<1>2. p \notin Jobs
  BY <1>1 DEF Inv, CapInv, JobPlaces, JobPhases
<1>3. \A q \in Procs \ {p} : snap'[q] = snap[q]
  BY <1>1 DEF Inv, TypeInv, SnapType
<1> QED  BY <1>1, <1>2, <1>3, ScheduleMoves DEF Serving, RunnerPhases

LEMMA ReserveRuns ==
    ASSUME Inv, NEW p \in Procs, Reserve(p) PROVE RunInv'
<1> DEFINE r == Returned(p, FALSE)
<1>1. r \in {"closing", "idle", "restore", "over"} /\ (p \in Runners => r = "closing")
  BY ReturnedType, RunnerReturns
<1>2. PICK S :
         /\ picks' = [picks EXCEPT ![p] = S]
         /\ \/ pc' = [pc EXCEPT ![p] = r] /\ snap' = [snap EXCEPT ![p] = Blank]
            \/ pc' = [pc EXCEPT ![p] = "build"] /\ UNCHANGED snap
  BY Zenon DEF Reserve, Picks
<1>3. /\ pc[p] = "decide"
      /\ UNCHANGED run /\ UNCHANGED record /\ UNCHANGED runs /\ UNCHANGED slots
      /\ UNCHANGED arg
  BY Zenon DEF Reserve, Picks
<1> HIDE DEF r
<1>4. p \notin Jobs
  BY <1>3 DEF Inv, CapInv, JobPlaces, JobPhases
<1>5. \A q \in Procs \ {p} : snap'[q] = snap[q] /\ picks'[q] = picks[q]
  BY <1>2 DEF Inv, TypeInv, SnapType, PicksType
<1>6. PICK to \in {"closing", "idle", "restore", "over", "build"} :
         pc' = [pc EXCEPT ![p] = to] /\ (p \in Runners => to \in {"closing", "build"})
  BY <1>1, <1>2
<1> QED  BY <1>3, <1>4, <1>5, <1>6, ScheduleMoves DEF Serving, RunnerPhases

LEMMA GiveBackRuns ==
    ASSUME Inv, NEW p \in Procs, NEW i \in Ids, GiveBack(p, i) PROVE RunInv'
<1> DEFINE r == Returned(p, arg[p].any)
<1>1. r \in {"closing", "idle", "restore", "over"} /\ (p \in Runners => r = "closing")
  BY ReturnedType, RunnerReturns
<1>2. /\ pc[p] = "build"
      /\ picks' = [picks EXCEPT ![p] = picks[p] \ {i}]
      /\ snap' = [snap EXCEPT ![p] = Blank] \/ snap' = snap
      /\ arg' = [arg EXCEPT ![p] = NoArg] \/ arg' = arg
      /\ UNCHANGED run /\ UNCHANGED record /\ UNCHANGED runs /\ UNCHANGED slots
  BY Zenon DEF GiveBack, Building, Continue
<1>3. pc' = [pc EXCEPT ![p] = IF p \in Jobs THEN "unstarted"
                              ELSE IF picks[p] \ {i} = {} THEN r ELSE "build"]
  BY Zenon DEF GiveBack, Continue
<1> HIDE DEF r
<1>4. PICK to \in {"unstarted", "closing", "idle", "restore", "over", "build"} :
         /\ pc' = [pc EXCEPT ![p] = to]
         /\ p \in Runners => to \in {"closing", "build"}
         /\ p \in Jobs => to = "unstarted"
  BY <1>1, <1>3, Apart
<1>5. \A q \in Procs \ {p} : arg'[q] = arg[q] /\ snap'[q] = snap[q] /\ picks'[q] = picks[q]
  BY <1>2 DEF Inv, TypeInv, SnapType, PicksType, ArgType
<1> QED  BY <1>2, <1>4, <1>5, ScheduleMoves DEF Serving, RunnerPhases

\* The new run gets a free goroutine and a step that nothing runs.
LEMMA InstallRuns ==
    ASSUME Inv, NEW p \in Procs, NEW i \in Ids, NEW g \in Runners, Install(p, i, g)
    PROVE  RunInv'
<1> USE Apart DEF Inv
<1>1. /\ pc[p] = "build" /\ pc[g] = "free" /\ i \in picks[p]
      /\ runs' = [runs EXCEPT ![i] = g]
      /\ run' = [run EXCEPT ![g] = [NoRun EXCEPT !.node = i,
                    !.owner = snap[p][i].owner, !.scope = snap[p][i].scope]]
      /\ picks' = [picks EXCEPT ![p] = @ \ {i}]
      /\ pc' = [pc EXCEPT ![p] = "mark", ![g] = "installed"]
      /\ arg' = [arg EXCEPT ![p].on = g]
      /\ UNCHANGED record /\ UNCHANGED slots /\ UNCHANGED snap
  BY Zenon DEF Install, Building, Unreserve
<1>2. pc'[p] = "mark" /\ pc'[g] = "installed" /\ p # g
      /\ \A q \in Procs \ {p, g} : pc'[q] = pc[q]
  BY <1>1 DEF TypeInv, PcType
<1>3. runs[i] = None /\ runs'[i] = g /\ \A k \in Ids \ {i} : runs'[k] = runs[k]
  BY <1>1 DEF CapInv, Reservations, RunningIds, TypeInv, TableType
<1>4. /\ run'[g].node = i /\ run'[g].interrupt = FALSE
      /\ \A h \in Runners \ {g} : run'[h] = run[h]
  BY <1>1 DEF TypeInv, RunType, NoRun
<1>5. /\ arg'[p].on = g /\ arg'[p].ids = arg[p].ids
      /\ \A q \in Procs \ {p} : arg'[q] = arg[q] /\ picks'[q] = picks[q]
  BY <1>1 DEF TypeInv, ArgType, ArgRecs, PicksType
<1>6. p \in Jobs => i = p
  BY <1>1 DEF CapInv, Picking
<1>7. \A j \in Jobs : i = j => p = j
  BY <1>1 DEF CapInv, Picking
<1>8. \A k \in Ids : runs[k] # None => runs[k] \in Runners \ {g, p}
  BY <1>1 DEF RunInv, TableExact, Serving, TypeInv, TableType
<1>9. TableExact'
  <2>1. ASSUME NEW h \in Runners PROVE pc'[h] \in RunnerPhases
    BY <1>2 DEF RunInv, TableExact, RunnerPhases, Serving
  <2>2. ASSUME NEW h \in Runners, pc'[h] \in Serving
        PROVE  run'[h].node \in Ids /\ runs'[run'[h].node] = h
    <3>1. CASE h = g
      BY <1>3, <1>4, <3>1
    <3>2. CASE h # g
      <4>1. h # p /\ pc[h] \in Serving
        BY <1>2, <2>2, <3>2 DEF Serving
      <4>2. run[h].node \in Ids \ {i}
        BY <1>3, <4>1 DEF RunInv, TableExact
      <4> QED  BY <1>3, <1>4, <3>2, <4>1, <4>2 DEF RunInv, TableExact
    <3> QED  BY <3>1, <3>2
  <2>3. ASSUME NEW k \in Ids, runs'[k] # None
        PROVE  run'[runs'[k]].node = k /\ pc'[runs'[k]] \in Serving
    <3>1. CASE k = i
      BY <1>2, <1>3, <1>4, <3>1 DEF Serving
    <3>2. CASE k # i
      <4>1. runs'[k] = runs[k] /\ runs[k] \in Runners \ {g, p}
        BY <1>3, <1>8, <2>3, <3>2
      <4> QED  BY <1>2, <1>4, <2>3, <4>1 DEF RunInv, TableExact
    <3> QED  BY <3>1, <3>2
  <2> QED  BY <2>1, <2>2, <2>3 DEF TableExact
<1>10. MarksExact'
  <2>1. ASSUME NEW k \in dispatched' PROVE runs'[k] # None /\ pc'[runs'[k]] \in Marked
    <3>1. k \in Ids /\ runs[k] # None /\ pc[runs[k]] \in Marked
      BY <1>1, <2>1 DEF RunInv, MarksExact, record, TypeInv, RecordType
    <3>2. k # i /\ runs[k] \in Runners \ {g, p}
      BY <1>3, <1>8, <3>1
    <3> QED  BY <1>2, <1>3, <3>1, <3>2
  <2>2. ASSUME NEW h \in Runners, pc'[h] \in Marked \ {"settled"} PROVE run'[h].node \in dispatched'
    <3>1. h # g /\ h # p
      BY <1>2, <2>2 DEF Marked
    <3> QED  BY <1>1, <1>2, <1>4, <2>2, <3>1 DEF RunInv, MarksExact, record
  <2> QED  BY <2>1, <2>2 DEF MarksExact
<1>11. JobRuns'
  <2>1. ASSUME NEW h \in Runners, h # g, run'[h].node \in Jobs
        PROVE  /\ pc'[h] \in Serving /\ run'[h].interrupt => run'[h].sessionEnd
               /\ pc'[h] = "settled" => run'[h].verdict \in {"done", "blocked"}
               /\ pc'[h] = "closed" => step'[run'[h].node].status # "todo"
    <3>1. CASE h = p
      BY <1>2, <3>1 DEF Serving
    <3>2. CASE h # p
      BY <1>1, <1>2, <1>4, <2>1, <3>2 DEF RunInv, JobRuns, record
    <3> QED  BY <3>1, <3>2
  <2> QED  BY <1>2, <1>4, <2>1 DEF JobRuns
<1>12. JobSteps'
  <2>1. ASSUME NEW j \in Jobs, j # p
        PROVE  /\ pc'[j] = pc[j] /\ arg'[j] = arg[j] /\ picks'[j] = picks[j] /\ runs'[j] = runs[j]
    BY <1>2, <1>3, <1>5, <1>7, <2>1
  <2>2. p \in Jobs => p \notin slots /\ runs'[p] = arg'[p].on
    BY <1>1, <1>3, <1>5, <1>6 DEF RunInv, JobSteps
  <2>3. UNCHANGED step /\ UNCHANGED slots /\ pc'[p] = "mark"
    BY <1>1, <1>2 DEF record
  <2>4. ASSUME NEW j \in Jobs
        PROVE  /\ pc'[j] \in {"idle", "check", "file"} => step'[j].status = "none"
               /\ pc'[j] = "mark" => runs'[j] = arg'[j].on
               /\ j \in slots' => pc'[j] \in {"file", "filed"}
               /\ pc'[j] \in {"reread", "build"} => j \in picks'[j]
               /\ pc'[j] = "over" /\ step'[j].status = "todo" => runs'[j] # None
    <3>1. CASE j = p
      BY <2>2, <2>3, <3>1
    <3>2. CASE j # p
      BY <2>1, <2>3, <3>2 DEF RunInv, JobSteps
    <3> QED  BY <3>1, <3>2
  <2> QED  BY <2>4 DEF JobSteps
<1>13. JobsForward
  <2>1. ASSUME NEW j \in Jobs, j # p PROVE pc'[j] = pc[j] /\ runs'[j] = runs[j]
    BY <1>2, <1>3, <1>7, <2>1
  <2> QED  BY <1>1, <1>2, <2>1 DEF JobsForward, Filing, Ended
<1>14. GatesKeep
  <2>1. ASSUME NEW t \in Gates, pc'[t] \in {"resume", "orphans"} PROVE t # p /\ t # g
    BY <1>2, <2>1
  <2> QED  BY <1>1, <1>2, <1>5, <2>1 DEF GatesKeep
<1> QED  BY <1>9, <1>10, <1>11, <1>12, <1>13, <1>14, GatesForward DEF RunInv

LEMMA MarkRuns ==
    ASSUME Inv, NEW p \in Procs, MarkDispatched(p) PROVE RunInv'
<1> USE Apart DEF Inv
<1> DEFINE g == arg[p].on
           r == Returned(p, TRUE)
           to == IF picks[p] # {} THEN "build" ELSE IF p \in Jobs THEN "over" ELSE r
<1>1. /\ pc[p] = "mark"
      /\ dispatched' = dispatched \cup {run[g].node}
      /\ pc' = [pc EXCEPT ![g] = "starting", ![p] = to]
      /\ snap' = [snap EXCEPT ![p] = Blank] \/ snap' = snap
      /\ UNCHANGED step /\ UNCHANGED table /\ UNCHANGED run /\ UNCHANGED picks
  BY Zenon DEF MarkDispatched
<1>2. PICK a : arg' = [arg EXCEPT ![p] = a]
  BY Zenon DEF MarkDispatched
<1>3. g \in Runners /\ pc[g] = "installed" /\ run[g].node \in Ids /\ runs[run[g].node] = g
  BY <1>1 DEF TypeInv, Marks, RunInv, TableExact, Serving
<1>4. r \in {"closing", "idle", "restore", "over"} /\ (p \in Runners => r = "closing")
  BY ReturnedType, RunnerReturns
<1>5. p \in Jobs => runs[p] = g /\ picks[p] = {}
  <2>1. p \in Jobs => runs[p] = g /\ p \in Ids
    BY <1>1 DEF RunInv, JobSteps
  <2>2. p \in Jobs => p \in RunningIds
    BY <1>3, <2>1 DEF RunningIds
  <2> QED  BY <2>1, <2>2 DEF CapInv, Reservations, Picking
<1>6. /\ to \in {"build", "closing", "idle", "restore", "over"}
      /\ p \in Runners => to \in {"build", "closing"}
      /\ p \in Jobs => to = "over"
  BY <1>4, <1>5
<1> HIDE DEF g, to, r
<1>7. /\ pc'[p] = to /\ pc'[g] = "starting" /\ p # g
      /\ \A q \in Procs \ {p, g} : pc'[q] = pc[q]
  BY <1>1, <1>3 DEF TypeInv, PcType
<1>8. \A q \in Procs \ {p} : arg'[q] = arg[q] /\ snap'[q] = snap[q]
  BY <1>1, <1>2 DEF TypeInv, ArgType, SnapType
<1>9. TableExact'
  <2>1. ASSUME NEW h \in Runners PROVE pc'[h] \in RunnerPhases
    BY <1>6, <1>7 DEF RunInv, TableExact, RunnerPhases, Serving
  <2>2. ASSUME NEW h \in Runners
        PROVE  pc'[h] \in Serving <=> pc[h] \in Serving
    BY <1>1, <1>3, <1>6, <1>7 DEF Serving
  <2>3. \A k \in Ids : runs[k] # None => runs[k] \in Runners
    BY DEF TypeInv, TableType
  <2> QED  BY <1>1, <2>1, <2>2, <2>3 DEF RunInv, TableExact, table
<1>10. MarksExact'
  <2>1. ASSUME NEW k \in dispatched' PROVE runs'[k] # None /\ pc'[runs'[k]] \in Marked
    <3>1. CASE k = run[g].node
      BY <1>1, <1>3, <1>7, <3>1 DEF table, Marked
    <3>2. CASE k # run[g].node
      <4>1. k \in dispatched /\ k \in Ids /\ runs[k] # None /\ pc[runs[k]] \in Marked
        BY <1>1, <2>1, <3>2 DEF RunInv, MarksExact, TypeInv, RecordType
      <4>2. runs[k] \in Runners \ {p, g}
        BY <1>1, <1>3, <4>1 DEF TypeInv, TableType, Marked
      <4> QED  BY <1>1, <1>7, <4>1, <4>2 DEF table
    <3> QED  BY <3>1, <3>2
  <2>2. ASSUME NEW h \in Runners, pc'[h] \in Marked \ {"settled"} PROVE run'[h].node \in dispatched'
    <3>1. h # p
      BY <1>6, <1>7, <2>2 DEF Marked
    <3> QED  BY <1>1, <1>7, <2>2, <3>1 DEF RunInv, MarksExact
  <2> QED  BY <2>1, <2>2 DEF MarksExact
<1>11. JobRuns'
  <2>1. ASSUME NEW h \in Runners PROVE /\ pc'[h] \in Serving => pc[h] \in Serving
                                       /\ pc'[h] \in {"settled", "closed"} => pc'[h] = pc[h]
    BY <1>3, <1>6, <1>7 DEF Serving
  <2> QED  BY <1>1, <2>1 DEF RunInv, JobRuns
<1>12. JobSteps'
  <2>1. ASSUME NEW j \in Jobs, j # p PROVE pc'[j] = pc[j] /\ arg'[j] = arg[j]
    BY <1>3, <1>7, <1>8, <2>1
  <2>2. p \in Jobs => p \notin slots /\ runs[p] # None /\ pc'[p] = "over"
    BY <1>1, <1>3, <1>5, <1>6, <1>7 DEF RunInv, JobSteps
  <2>3. UNCHANGED <<runs, slots, picks, step>>
    BY <1>1 DEF table
  <2> QED  BY <2>1, <2>2, <2>3 DEF RunInv, JobSteps
<1>13. JobsForward
  <2>1. ASSUME NEW j \in Jobs, j # p PROVE pc'[j] = pc[j]
    BY <1>3, <1>7, <2>1
  <2> QED  BY <1>1, <1>6, <1>7, <2>1 DEF JobsForward, Filing, Ended, table
<1>14. GatesKeep
  <2>1. ASSUME NEW t \in Gates, pc'[t] \in {"resume", "orphans"} PROVE t # p /\ t # g
    BY <1>6, <1>7, <2>1
  <2> QED  BY <1>7, <1>8, <2>1 DEF GatesKeep
<1> QED  BY <1>9, <1>10, <1>11, <1>12, <1>13, <1>14, GatesForward DEF RunInv

-----------------------------------------------------------------------------
(* DispatchJob *)

\* A job's call moves on while nothing runs for it.
LEMMA JobMovesRuns ==
    ASSUME Inv, NEW j \in Jobs, pc[j] \in Filing \cup {"filed", "reread", "unstarted"},
           NEW to \in JobPhases \ {"mark"}, pc' = [pc EXCEPT ![j] = to],
           UNCHANGED run, UNCHANGED runs, UNCHANGED dispatched, UNCHANGED arg,
           \A q \in Procs \ {j} : snap'[q] = snap[q] /\ picks'[q] = picks[q],
           \A k \in Jobs \ {j} : /\ step'[k].status = step[k].status
                                 /\ k \in slots' => k \in slots,
           j \in slots' => to \in {"file", "filed"},
           to \in Filing => pc[j] \in Filing /\ step'[j].status = "none",
           to \in {"reread", "build"} => j \in picks'[j],
           to = "over" => step'[j].status # "todo",
           pc[j] = "unstarted" => to = "over"
    PROVE  RunInv'
<1> USE Apart DEF Inv
<1>1. pc'[j] = to /\ \A q \in Procs \ {j} : pc'[q] = pc[q]
  BY DEF TypeInv, PcType
<1>2. runs[j] = None
  BY DEF CapInv, JobPlaces, Filing
<1>3. \A g \in Runners : pc'[g] = pc[g]
  BY <1>1
<1>4. TableExact'
  BY <1>3 DEF RunInv, TableExact, TypeInv, TableType
<1>5. MarksExact'
  BY <1>3 DEF RunInv, MarksExact, TypeInv, TableType, RecordType
<1>6. JobRuns'
  <2>1. ASSUME NEW g \in Runners, pc[g] = "closed" PROVE run[g].node # j
    BY <1>2, <2>1 DEF RunInv, TableExact, Serving
  <2> QED  BY <1>3, <2>1 DEF RunInv, JobRuns
<1>7. JobSteps'
  <2>1. ASSUME NEW k \in Jobs \ {j} PROVE pc'[k] = pc[k] /\ picks'[k] = picks[k]
    BY <1>1
  <2>2. \A k \in Jobs \ {j} :
           /\ pc'[k] \in {"idle", "check", "file"} => step'[k].status = "none"
           /\ pc'[k] = "mark" => runs'[k] = arg'[k].on
           /\ k \in slots' => pc'[k] \in {"file", "filed"}
           /\ pc'[k] \in {"reread", "build"} => k \in picks'[k]
           /\ pc'[k] = "over" /\ step'[k].status = "todo" => runs'[k] # None
    BY <2>1 DEF RunInv, JobSteps
  <2> QED  BY <1>1, <2>2 DEF JobSteps, Filing
<1>8. JobsForward
  <2>1. pc[j] \in Ended => to \in Ended
    BY DEF Ended, Filing
  <2> QED  BY <1>1, <2>1 DEF JobsForward
<1>9. GatesKeep
  <2>1. \A t \in Gates : t # j
    OBVIOUS
  <2> QED  BY <1>1, <2>1 DEF GatesKeep
<1> QED  BY <1>4, <1>5, <1>6, <1>7, <1>8, <1>9, GatesForward DEF RunInv

LEMMA JobStepRuns ==
    ASSUME Inv, NEW j \in Jobs, JobStep(j) PROVE RunInv'
<1> USE Apart
<1>0. step[j].status = "none" \/ pc[j] \notin Filing
  BY DEF Inv, RunInv, JobSteps, Filing
<1>1. CASE JobReads(j)
  <2>1. PICK to \in {"check", "over"} : pc' = [pc EXCEPT ![j] = to]
    BY <1>1 DEF JobReads, Over
  <2>2. pc[j] = "idle" /\ UNCHANGED <<record, run, runs, slots, arg, picks>>
    BY <1>1 DEF JobReads, table
  <2>3. \A q \in Procs \ {j} : snap'[q] = snap[q]
    BY <1>1 DEF JobReads, Inv, TypeInv, SnapType
  <2>4. j \notin slots
    BY <2>2 DEF Inv, RunInv, JobSteps
  <2> QED  BY <1>0, <2>1, <2>2, <2>3, <2>4, JobMovesRuns DEF Filing, JobPhases, record
<1>2. CASE JobReserves(j)
  <2>1. PICK to \in {"file", "over"} :
           /\ pc' = [pc EXCEPT ![j] = to]
           /\ slots' = IF to = "file" THEN slots \cup {j} ELSE slots
    BY <1>2 DEF JobReserves, Over
  <2>2. pc[j] = "check" /\ UNCHANGED <<record, run, runs, arg, picks>>
    BY <1>2 DEF JobReserves
  <2>3. \A q \in Procs \ {j} : snap'[q] = snap[q]
    BY <1>2 DEF JobReserves, Inv, TypeInv, SnapType
  <2>4. j \notin slots
    BY <2>2 DEF Inv, RunInv, JobSteps
  <2> QED  BY <1>0, <2>1, <2>2, <2>3, <2>4, JobMovesRuns DEF Filing, JobPhases, record
<1>3. CASE JobFiles(j)
  <2>1. PICK to \in {"filed", "over"} :
           /\ pc' = [pc EXCEPT ![j] = to]
           /\ slots' = IF to = "over" THEN slots \ {j} ELSE slots
           /\ to = "over" => UNCHANGED step
           /\ \A k \in Jobs \ {j} : step'[k] = step[k]
    BY <1>3 DEF JobFiles, Over, Inv, TypeInv, RecordType, Trees
  <2>2. pc[j] = "file" /\ UNCHANGED <<dispatched, run, runs, arg, picks, snap>>
    BY <1>3 DEF JobFiles, local
  <2> QED  BY <1>0, <2>1, <2>2, JobMovesRuns DEF Filing, JobPhases
<1>4. CASE JobSwaps(j)
  <2>1. /\ pc[j] = "filed" /\ pc' = [pc EXCEPT ![j] = "reread"]
        /\ slots' = slots \ {j} /\ picks' = [picks EXCEPT ![j] = {j}]
        /\ UNCHANGED <<record, run, runs, arg, snap>>
    BY <1>4 DEF JobSwaps
  <2>2. picks'[j] = {j} /\ \A q \in Procs \ {j} : picks'[q] = picks[q]
    BY <2>1 DEF Inv, TypeInv, PicksType
  <2> QED  BY <2>1, <2>2, JobMovesRuns DEF Filing, JobPhases, record
<1>5. CASE JobRereads(j)
  <2>1. /\ pc[j] = "reread" /\ pc' = [pc EXCEPT ![j] = "build"]
        /\ UNCHANGED <<record, run, runs, slots, arg, picks>>
    BY <1>5 DEF JobRereads, table
  <2>2. \A q \in Procs \ {j} : snap'[q] = snap[q]
    BY <1>5 DEF JobRereads, Inv, TypeInv, SnapType
  <2>3. j \in picks[j] /\ j \notin slots
    BY <2>1 DEF Inv, RunInv, JobSteps
  <2> QED  BY <2>1, <2>2, <2>3, JobMovesRuns DEF Filing, JobPhases, record
<1>6. CASE JobUnstarted(j)
  <2>1. /\ pc[j] = "unstarted" /\ pc' = [pc EXCEPT ![j] = "over"]
        /\ CloseAs(j, "blocked")
        /\ UNCHANGED <<run, runs, slots, arg, picks, snap>>
    BY <1>6 DEF JobUnstarted, Over, table, local
  <2>2. runs[j] = None /\ j \notin slots
    BY <2>1 DEF Inv, CapInv, JobPlaces, RunInv, JobSteps
  <2>3. j \notin dispatched
    BY <2>2 DEF Inv, RunInv, MarksExact
  <2>4. /\ step'[j].status # "todo" /\ \A k \in Ids \ {j} : step'[k] = step[k]
        /\ dispatched' = dispatched
    BY <2>1, <2>3, CloseEffect DEF Inv
  <2> QED  BY <2>1, <2>2, <2>4, JobMovesRuns DEF Filing, JobPhases
<1> QED  BY <1>1, <1>2, <1>3, <1>4, <1>5, <1>6 DEF JobStep

-----------------------------------------------------------------------------
(* Steps that move nobody, the crash, and the whole *)

LEMMA StillRuns ==
    ASSUME Inv,
           \/ \E i \in Ids : ReplyAsk(i)
           \/ \E o \in Stoppable : StopOwner(o)
           \/ \E g \in Runners : AskTimesOut(g)
           \/ \E i \in Editable, s \in Statuses \ {"none"} : SetStatus(i, s)
           \/ UNCHANGED vars
    PROVE  Aside /\ GatesKeep
<1> USE Apart
<1>1. UNCHANGED table /\ UNCHANGED local /\ UNCHANGED pc /\ UNCHANGED dispatched
  BY DEF ReplyAsk, StopOwner, AskTimesOut, SetStatus, vars, record
<1>2. RunsCalm
  <2>1. \A g \in Runners : run[g] \in RunRecs
    BY DEF Inv, TypeInv, RunType
  <2>2. CASE \E i \in Ids : ReplyAsk(i)
    <3>1. PICK i \in Ids : ReplyAsk(i)
      BY <2>2
    <3>2. run' = [run EXCEPT ![runs[i]].question = FALSE] /\ runs[i] \in Runners
      BY <3>1 DEF ReplyAsk, Inv, TypeInv, TableType
    <3> QED  BY <2>1, <3>2, RunParts DEF RunsCalm, Inv, TypeInv, RunType
  <2>3. CASE \E o \in Stoppable : StopOwner(o)
    BY <2>1, <2>3, RunParts DEF StopOwner, RunsCalm
  <2>4. CASE \E g \in Runners : AskTimesOut(g)
    <3>1. PICK g \in Runners : run' = [run EXCEPT ![g].timedOut = TRUE]
      BY <2>4 DEF AskTimesOut
    <3> QED  BY <2>1, <3>1, RunParts DEF RunsCalm, Inv, TypeInv, RunType
  <2>5. CASE \/ \E i \in Editable, s \in Statuses \ {"none"} : SetStatus(i, s)
             \/ UNCHANGED vars
    <3>1. UNCHANGED run
      BY <2>5 DEF SetStatus, vars
    <3> QED  BY <3>1, SameRuns
  <2> QED  BY <2>2, <2>3, <2>4, <2>5
<1>3. \A j \in Jobs : step'[j].status = step[j].status
  <2>1. CASE \E i \in Editable, s \in Statuses \ {"none"} : SetStatus(i, s)
    BY <2>1 DEF SetStatus, Editable, Inv, TypeInv, RecordType, Trees
  <2>2. CASE UNCHANGED step
    BY <2>2
  <2> QED  BY <2>1, <2>2 DEF ReplyAsk, StopOwner, AskTimesOut, vars, record
<1>4. Aside
  BY <1>1, <1>2, <1>3 DEF Aside, table, local
<1> QED  BY <1>1, <1>4 DEF GatesKeep, local

LEMMA CrashRuns ==
    ASSUME Inv, Crash PROVE RunInv'
<1> USE Apart DEF Crash
<1>1. /\ \A g \in Runners : pc'[g] = "free" /\ run'[g] = NoRun
      /\ \A i \in Ids : runs'[i] = None
      /\ \A q \in Callers : pc'[q] = "idle"
      /\ \A j \in Jobs : pc'[j] = IF pc[j] = "idle" THEN "idle" ELSE "lost"
  OBVIOUS
<1>2. TableExact'
  BY <1>1 DEF TableExact, Serving, RunnerPhases
<1>3. MarksExact'
  BY <1>1 DEF MarksExact, Marked
<1>4. JobRuns'
  BY <1>1 DEF JobRuns, NoRun
<1>5. JobSteps'
  BY <1>1 DEF JobSteps, Inv, RunInv
<1>6. ResumeSafe'
  BY <1>1 DEF ResumeSafe
<1> QED  BY <1>2, <1>3, <1>4, <1>5, <1>6 DEF RunInv

LEMMA RunInit == Init => RunInv
<1> SUFFICES ASSUME Init PROVE RunInv
  OBVIOUS
<1> USE Apart DEF Init, Begin
<1>1. /\ \A g \in Runners : pc[g] = "free"
      /\ \A j \in Jobs : pc[j] = "idle" /\ step[j].status = "none"
      /\ \A t \in Gates : pc[t] \in {"call", "idle"}
  BY DEF NoStep, Callers
<1>2. TableExact
  BY <1>1 DEF TableExact, Serving, RunnerPhases
<1>3. MarksExact
  BY <1>1 DEF MarksExact, Marked
<1>4. JobRuns
  BY DEF JobRuns, NoRun
<1>5. JobSteps
  BY <1>1 DEF JobSteps
<1>6. ResumeSafe
  BY <1>1 DEF ResumeSafe
<1> QED  BY <1>2, <1>3, <1>4, <1>5, <1>6 DEF RunInv

LEMMA RunInvStep == Inv /\ [Next]_vars => RunInv'
<1> SUFFICES ASSUME Inv, [Next]_vars PROVE RunInv'
  OBVIOUS
<1>1. ASSUME NEW p \in Procs, ScheduleStep(p) PROVE RunInv'
  BY <1>1, ReadTreeRuns, ReserveRuns, MarkRuns, GiveBackRuns, InstallRuns, Zenon DEF ScheduleStep
<1>2. ASSUME NEW s \in Schedulers, ScheduleSubAgents(s) PROVE RunInv'
  BY <1>2, FireAside, AsideKeeps, Apart
<1>3. ASSUME NEW j \in Jobs, JobStep(j) PROVE RunInv'
  BY <1>3, JobStepRuns
<1>4. ASSUME NEW g \in Runners, RunStep(g) PROVE RunInv'
  <2>1. CASE AskTimesOut(g)
    BY <2>1, StillRuns, AsideKeeps
  <2> QED
    BY <1>4, <2>1, RunMovesOn, CloseStepRuns, RemoveRunRuns, FinishRuns, Zenon DEF RunStep, RunEnds
<1>5. CASE \/ \E i \in Ids : ReplyAsk(i)
           \/ \E o \in Stoppable : StopOwner(o)
           \/ \E i \in Editable, s \in Statuses \ {"none"} : SetStatus(i, s)
           \/ UNCHANGED vars
  BY <1>5, StillRuns, AsideKeeps
<1>6. ASSUME NEW a \in Assigners, AssignStep(a) PROVE RunInv'
  BY <1>6, AssignAside, AsideKeeps
<1>7. ASSUME NEW c \in Scopers, ScopeStep(c) PROVE RunInv'
  BY <1>7, ScopeAside, AsideKeeps
<1>8. ASSUME NEW s \in Stoppers, StopStep(s) PROVE RunInv'
  BY <1>8, StopAside, AsideKeeps
<1>9. ASSUME NEW f \in Firers, FireBegins(f) \/ FireEnds(f) PROVE RunInv'
  BY <1>9, FireAside, AsideKeeps, Apart
<1>10. ASSUME NEW t \in Gates, ResumeStep(t) \/ GateStep(t) PROVE RunInv'
  <2>1. CASE \E j \in Jobs : ResumeCloses(t, j)
    BY <2>1, ResumeClosesRuns
  <2>2. CASE GateStep(t) \/ ResumeReads(t) \/ ResumeChecks(t) \/ ResumeDone(t)
    <3>1. Aside /\ ResumeSafe'
      BY <2>2, GateAside, GateResumes
    <3> QED  BY <3>1, AsideRuns DEF RunInv
  <2> QED  BY <1>10, <2>1, <2>2 DEF ResumeStep
<1>11. ASSUME NEW t \in Starters, StartClears(t) \/ StartRestores(t) PROVE RunInv'
  BY <1>11, StartAside, AsideKeeps
<1>12. CASE Crash
  BY <1>12, CrashRuns
<1> QED
  BY <1>1, <1>2, <1>3, <1>4, <1>5, <1>6, <1>7, <1>8, <1>9, <1>10, <1>11, <1>12, Zenon DEF Next

LEMMA InvHolds == Spec => []Inv
<1>1. Init => Inv
  BY TypeInit, CapInit, RunInit DEF Inv
<1>2. Inv /\ [Next]_vars => Inv'
  BY TypeStep, CapStep, RunInvStep DEF Inv
<1> QED  BY <1>1, <1>2, PTL DEF Spec

\* The record's marks follow the runs although no step changes both: a mark
\* is only on a step in the table, and stays while its sub-agent may work.
THEOREM MarksFollow == Spec => []MarksMatch
<1>1. Inv => MarksMatch
  <2> SUFFICES ASSUME Inv PROVE MarksMatch
    OBVIOUS
  <2>1. dispatched \subseteq RunningIds
    BY DEF Inv, RunInv, MarksExact, RunningIds, TypeInv, RecordType
  <2> QED  BY <2>1 DEF Inv, RunInv, MarksExact, MarksMatch, Marked, Live
<1> QED  BY <1>1, InvHolds, PTL

\* A job whose call is over and whose step is open is running: nothing else
\* would ever close that step, or give its scope back.
THEOREM NoOrphans == Spec => []NoOrphanJob
<1>1. Inv => NoOrphanJob
  BY Apart DEF Inv, RunInv, JobSteps, NoOrphanJob, RunningIds
<1> QED  BY <1>1, InvHolds, PTL

\* The resume pass never closes a job of this session, in whatever order it
\* reads the record and the table while jobs are filed and started.
THEOREM ResumeSparesLive == Spec => NoLiveJobClosed
<1>1. Inv => (\A t \in Gates, j \in Jobs :
                ResumeCloses(t, j) => j \notin RunningIds \cup pending \cup slots)
  <2> SUFFICES ASSUME Inv, NEW t \in Gates, NEW j \in Jobs, ResumeCloses(t, j)
               PROVE  j \notin RunningIds \cup pending \cup slots
    OBVIOUS
  <2>1. pc[j] \in Ended /\ runs[j] = None
    BY DEF ResumeCloses, Inv, RunInv, ResumeSafe
  <2>2. j \notin slots
    BY <2>1 DEF Inv, RunInv, JobSteps, Ended
  <2>3. j \notin pending
    <3>1. SUFFICES ASSUME NEW p \in Procs, j \in picks[p] PROVE FALSE
      BY DEF Inv, CapInv, Reservations
    <3>2. p = j
      BY <3>1, Apart DEF Inv, CapInv, Picking
    <3>3. pc[j] \in Holding
      BY <3>1, <3>2 DEF Inv, CapInv, Picking
    <3> QED  BY <2>1, <3>3 DEF Holding, Ended
  <2> QED  BY <2>1, <2>2, <2>3 DEF RunningIds
<1> QED  BY <1>1, InvHolds, PTL DEF NoLiveJobClosed

-----------------------------------------------------------------------------
(* The callers that assign, widen, stop and start sub-agents while others  *)
(* run: what each relies on between two of its steps                      *)

\* Whoever is in R neither moves nor forgets.
Still(R) == \A q \in R : pc'[q] = pc[q] /\ arg'[q] = arg[q]

\* There is at most one of them.
AtMostOne(R) == \A a, b \in R : a = b

\* The table loses runs, and gets one only for a step that nobody holds, and
\* never while the session stops.
RunsGuarded == \A i \in Ids :
    runs'[i] # None => runs'[i] = runs[i] \/ (runs[i] = None /\ i \notin hold /\ ~stopping)

LEMMA Roles ==
    /\ Assigners \cap (Schedulers \cup Scopers \cup Stoppers \cup Firers \cup Gates \cup Starters) = {}
    /\ Stoppers \cap (Schedulers \cup Assigners \cup Scopers \cup Firers \cup Gates \cup Starters) = {}
    /\ Scopers \cap (Schedulers \cup Assigners \cup Stoppers \cup Firers \cup Gates \cup Starters) = {}
    /\ Starters \cap (Schedulers \cup Assigners \cup Scopers \cup Stoppers \cup Firers \cup Gates) = {}
    /\ Gates \cap (Schedulers \cup Assigners \cup Scopers \cup Stoppers \cup Firers \cup Starters) = {}
  BY RolesAssumption

Scheduling == {"call", "decide", "build", "mark"}
LEMMA ScheduleCallers ==
    ASSUME Inv, NEW p \in Procs, ScheduleStep(p)
    PROVE  /\ Still(Callers \ {p})
           /\ pc[p] \in Scheduling
           /\ pc'[p] \in (Scheduling \ {"call"}) \cup {"closing", "idle", "restore", "over", "unstarted"}
           /\ stopping => \A g \in Runners : pc[g] = "free" => pc'[g] = "free"
           /\ \A g \in Runners : pc[g] # "free" => run'[g] = run[g] /\ pc'[g] # "free"
           /\ UNCHANGED hold /\ UNCHANGED stopping /\ UNCHANGED gate
           /\ RunsGuarded
<1> USE Apart DEF Inv, TypeInv, PcType, ArgType
<1>1. CASE ReadTree(p)
  BY <1>1 DEF ReadTree, Still, Scheduling, RunsGuarded, table
<1>2. CASE Reserve(p)
  <2>1. PICK to \in {"closing", "idle", "restore", "over", "build"} : pc' = [pc EXCEPT ![p] = to]
    BY <1>2, ReturnedType DEF Reserve, Picks
  <2>2. /\ pc[p] = "decide" /\ UNCHANGED runs /\ UNCHANGED run /\ UNCHANGED arg
        /\ UNCHANGED hold /\ UNCHANGED stopping /\ UNCHANGED gate
    BY <1>2, Zenon DEF Reserve, Picks
  <2> QED  BY <2>1, <2>2 DEF Still, Scheduling, RunsGuarded
<1>3. CASE MarkDispatched(p)
  <2> DEFINE g == arg[p].on
             to == IF picks[p] # {} THEN "build"
                   ELSE IF p \in Jobs THEN "over" ELSE Returned(p, TRUE)
  <2>1. /\ pc[p] = "mark" /\ pc' = [pc EXCEPT ![g] = "starting", ![p] = to]
        /\ UNCHANGED table /\ UNCHANGED run
        /\ UNCHANGED hold /\ UNCHANGED stopping /\ UNCHANGED gate
    BY <1>3, Zenon DEF MarkDispatched
  <2>2. PICK a : arg' = [arg EXCEPT ![p] = a]
    BY <1>3, Zenon DEF MarkDispatched
  <2>3. g \in Runners /\ pc[g] = "installed" /\ g # p
    BY <2>1 DEF Marks
  <2>4. to \in {"build", "closing", "idle", "restore", "over"}
    BY ReturnedType
  <2> HIDE DEF g, to
  <2>5. pc'[p] = to /\ pc'[g] = "starting" /\ \A q \in Procs \ {p, g} : pc'[q] = pc[q]
    BY <2>1, <2>3
  <2> QED  BY <2>1, <2>2, <2>3, <2>4, <2>5 DEF Still, Scheduling, RunsGuarded, table
<1>4. CASE \E i \in Ids : GiveBack(p, i)
  <2>1. PICK i \in Ids : GiveBack(p, i)
    BY <1>4
  <2>2. PICK to \in {"unstarted", "closing", "idle", "restore", "over", "build"} :
           pc' = [pc EXCEPT ![p] = to]
    BY <2>1, ReturnedType DEF GiveBack, Continue
  <2>3. /\ pc[p] = "build" /\ UNCHANGED runs /\ UNCHANGED run
        /\ UNCHANGED hold /\ UNCHANGED stopping /\ UNCHANGED gate
        /\ arg' = [arg EXCEPT ![p] = NoArg] \/ arg' = arg
    BY <2>1, Zenon DEF GiveBack, Building, Continue
  <2> QED  BY <2>2, <2>3 DEF Still, Scheduling, RunsGuarded
<1>5. CASE \E i \in Ids, g \in Runners : Install(p, i, g)
  <2>1. PICK i \in Ids, g \in Runners : Install(p, i, g)
    BY <1>5
  <2>2. /\ pc[p] = "build" /\ pc[g] = "free" /\ i \in picks[p]
        /\ ~stopping /\ i \notin hold
        /\ runs' = [runs EXCEPT ![i] = g]
        /\ pc' = [pc EXCEPT ![p] = "mark", ![g] = "installed"]
        /\ UNCHANGED hold /\ UNCHANGED stopping /\ UNCHANGED gate
    BY <2>1, Zenon DEF Install, Building
  <2>3. PICK r, a : run' = [run EXCEPT ![g] = r] /\ arg' = [arg EXCEPT ![p] = a]
    BY <2>1, Zenon DEF Install
  <2>4. runs[i] = None
    BY <2>2 DEF CapInv, Reservations, RunningIds
  <2>5. pc'[p] = "mark" /\ pc'[g] = "installed" /\ \A q \in Procs \ {p, g} : pc'[q] = pc[q]
    BY <2>2
  <2>6. \A h \in Runners : pc[h] # "free" => run'[h] = run[h]
    BY <2>2, <2>3 DEF RunType
  <2>7. RunsGuarded
    BY <2>2, <2>4 DEF RunsGuarded, TableType
  <2> QED  BY <2>2, <2>3, <2>5, <2>6, <2>7 DEF Still, Scheduling
<1> QED  BY <1>1, <1>2, <1>3, <1>4, <1>5 DEF ScheduleStep

LEMMA JobCallers ==
    ASSUME Inv, NEW j \in Jobs, JobStep(j)
    PROVE  /\ Still(Callers \cup Runners)
           /\ UNCHANGED hold /\ UNCHANGED stopping /\ UNCHANGED gate /\ UNCHANGED run
           /\ RunsGuarded
<1> USE Apart DEF Inv, TypeInv, PcType
<1>1. PICK to : pc' = [pc EXCEPT ![j] = to]
  BY Zenon DEF JobStep, JobReads, JobReserves, JobFiles, JobSwaps, JobRereads, JobUnstarted, Over
<1>2. /\ UNCHANGED hold /\ UNCHANGED stopping /\ UNCHANGED gate /\ UNCHANGED run
      /\ UNCHANGED runs /\ UNCHANGED arg
  BY DEF JobStep, JobReads, JobReserves, JobFiles, JobSwaps, JobRereads, JobUnstarted, table, local
<1> QED  BY <1>1, <1>2 DEF Still, RunsGuarded

\* A goroutine's own steps but the last move no caller, and leave the scope
\* it works in.
LEMMA RunCallers ==
    ASSUME Inv, NEW g \in Runners, RunStep(g), ~Finish(g)
    PROVE  /\ Still(Callers)
           /\ UNCHANGED hold /\ UNCHANGED stopping /\ UNCHANGED gate
           /\ \A h \in Runners : run'[h].scope = run[h].scope /\ (pc[h] # "free" => pc'[h] # "free")
           /\ RunsGuarded
<1> USE Apart DEF Inv, TypeInv, PcType
<1>1. PICK to \in Serving \cup {"call"} : UNCHANGED pc \/ pc' = [pc EXCEPT ![g] = to]
  BY Zenon DEF RunStep, RunEnds, Consent, AskMain, Answered, AskTimesOut, Settle, CloseStep,
     RemoveRun, Moves, Serving
<1>2. UNCHANGED hold /\ UNCHANGED stopping /\ UNCHANGED gate /\ UNCHANGED arg
  BY Zenon DEF RunStep, RunEnds, Consent, AskMain, Answered, AskTimesOut, Settle, CloseStep,
     RemoveRun, local
<1>3. RunsGuarded
  <2>1. UNCHANGED table \/ RemoveRun(g)
    BY DEF RunStep, RunEnds, Consent, AskMain, Answered, AskTimesOut, Settle, CloseStep
  <2> QED  BY <2>1 DEF RemoveRun, RunsGuarded, table, TableType
<1>4. \A h \in Runners : run'[h].scope = run[h].scope
  <2>1. PICK v :
           \/ UNCHANGED run
           \/ run' = [run EXCEPT ![g].verdict = v]
           \/ run' = [run EXCEPT ![g].question = TRUE]
           \/ run' = [run EXCEPT ![g].timedOut = TRUE]
    BY Zenon DEF RunStep, RunEnds, Consent, AskMain, Answered, AskTimesOut, Settle, CloseStep, RemoveRun
  <2>2. run[g] \in RunRecs
    BY DEF RunType
  <2>3. \A h \in Runners \ {g} : run'[h] = run[h]
    BY <2>1 DEF RunType
  <2>4. \/ run'[g] = run[g] \/ run'[g] = [run[g] EXCEPT !.verdict = v]
        \/ run'[g] = [run[g] EXCEPT !.question = TRUE]
        \/ run'[g] = [run[g] EXCEPT !.timedOut = TRUE]
    BY <2>1 DEF RunType
  <2>5. run'[g].scope = run[g].scope
    BY <2>2, <2>4 DEF RunRecs
  <2> QED  BY <2>3, <2>5
<1> QED  BY <1>1, <1>2, <1>3, <1>4 DEF Still, Serving

\* The last one wakes the assignment that waits for it.
LEMMA FinishCallers ==
    ASSUME Inv, NEW g \in Runners, Finish(g)
    PROVE  /\ \A q \in Callers :
                 \/ pc'[q] = pc[q]
                 \/ q \in Assigners /\ pc[q] = "await" /\ arg[q].on = g /\ pc'[q] = "assign"
           /\ \A q \in Assigners : pc'[q] = "await" => arg[q].on # g
           /\ \A q \in Callers :
                 IF arg[q].on = g
                 THEN /\ arg'[q].on = None /\ arg'[q].id = arg[q].id
                      /\ arg'[q].any = arg[q].any /\ arg'[q].scope = arg[q].scope
                 ELSE arg'[q] = arg[q]
           /\ pc[g] = "closing" /\ pc'[g] = "free"
           /\ \A h \in Runners \ {g} : run'[h] = run[h] /\ pc'[h] = pc[h]
           /\ UNCHANGED hold /\ UNCHANGED stopping /\ UNCHANGED gate /\ UNCHANGED runs
<1> USE Apart DEF Inv, TypeInv
<1>1. /\ pc[g] = "closing"
      /\ pc' = [p \in Procs |->
                  IF p = g THEN "free"
                  ELSE IF p \in Assigners /\ pc[p] = "await" /\ arg[p].on = g THEN "assign"
                  ELSE pc[p]]
      /\ arg' = [p \in Procs |-> IF arg[p].on = g THEN [arg[p] EXCEPT !.on = None] ELSE arg[p]]
      /\ run' = [run EXCEPT ![g] = NoRun]
      /\ UNCHANGED hold /\ UNCHANGED stopping /\ UNCHANGED gate /\ UNCHANGED runs
  BY DEF Finish, table
<1>2. \A q \in Callers : q # g
  OBVIOUS
<1> QED  BY <1>1, <1>2 DEF ArgType, ArgRecs, RunType

-----------------------------------------------------------------------------
(* What the other steps leave to a caller *)

\* Everybody in R who is in one of the phases P, or comes there, was there
\* and remembers what it did.
Keeps(R, P) == \A q \in R : \/ pc'[q] = pc[q] /\ arg'[q] = arg[q]
                            \/ pc[q] \notin P /\ pc'[q] \notin P
Assigning == {"await", "assign", "release", "giveup"}
Stopping == {"draining", "stopped"}
Rescoping == {"rescope", "apply"}

HeldFrame == UNCHANGED hold /\ RunsGuarded /\ Keeps(Assigners, Assigning)
StopFrame ==
    /\ UNCHANGED stopping
    /\ \A s \in Stoppers : pc'[s] \in Stopping => pc'[s] = pc[s] /\ arg'[s].any = arg[s].any
    /\ stopping => \A g \in Runners : pc[g] = "free" => pc'[g] = "free"
WidenFrame ==
    /\ Keeps(Scopers, Rescoping)
    /\ \A g \in Runners : pc[g] # "free" => pc'[g] # "free" /\ run'[g].scope = run[g].scope
StartFrame ==
    /\ \A t \in Starters : pc'[t] # "idle" => pc[t] # "idle"
    /\ \A t \in Gates : pc[t] = "over" => pc'[t] = "over"

LEMMA ScheduleFrames ==
    ASSUME Inv, NEW p \in Procs, ScheduleStep(p)
    PROVE  HeldFrame /\ StopFrame /\ WidenFrame /\ StartFrame /\ UNCHANGED gate
<1> USE Apart
<1>1. /\ Still(Callers \ {p}) /\ pc[p] \in Scheduling
      /\ pc'[p] \in (Scheduling \ {"call"}) \cup {"closing", "idle", "restore", "over", "unstarted"}
  BY ScheduleCallers
<1>2. \A R, P : R \subseteq Callers /\ P \cap (Scheduling \cup {"closing", "idle", "restore", "over", "unstarted"}) = {}
                  => Keeps(R, P)
  BY <1>1 DEF Still, Keeps
<1>3. Keeps(Assigners, Assigning) /\ Keeps(Stoppers, Stopping) /\ Keeps(Scopers, Rescoping)
  BY <1>2 DEF Assigning, Stopping, Rescoping, Scheduling
<1> USE DEF Keeps
<1>4. stopping => \A g \in Runners : pc[g] = "free" => pc'[g] = "free"
  BY ScheduleCallers
<1>5. StartFrame
  BY <1>1 DEF StartFrame, Still, Scheduling
<1> QED  BY <1>3, <1>4, <1>5, ScheduleCallers DEF HeldFrame, StopFrame, WidenFrame

LEMMA JobFrames ==
    ASSUME Inv, NEW j \in Jobs, JobStep(j)
    PROVE  HeldFrame /\ StopFrame /\ WidenFrame /\ StartFrame /\ UNCHANGED gate
  BY JobCallers, Apart DEF HeldFrame, StopFrame, WidenFrame, StartFrame, Still, Keeps

LEMMA RunFrames ==
    ASSUME Inv, NEW g \in Runners, RunStep(g), ~Finish(g)
    PROVE  HeldFrame /\ StopFrame /\ WidenFrame /\ StartFrame /\ UNCHANGED gate
<1>1. \A h \in Runners : pc[h] = "free" => pc'[h] = "free"
  BY Apart DEF RunStep, RunEnds, Consent, AskMain, Answered, AskTimesOut, Settle, CloseStep,
     RemoveRun, Moves, Inv, TypeInv, PcType
<1> QED  BY <1>1, RunCallers, Apart DEF HeldFrame, StopFrame, WidenFrame, StartFrame, Still, Keeps

\* A caller moves alone, and no run, nor its scope, changes with it.
LEMMA AloneFrames ==
    ASSUME Inv, NEW p \in Callers, Alone(p), UNCHANGED runs,
           \A g \in Runners : run'[g].scope = run[g].scope
    PROVE  /\ UNCHANGED hold /\ p \notin Assigners => HeldFrame
           /\ UNCHANGED stopping /\ p \notin Stoppers => StopFrame
           /\ p \notin Scopers => WidenFrame
           /\ p \notin Starters \cup Gates => StartFrame
<1> USE Apart DEF Alone
<1>1. RunsGuarded /\ \A g \in Runners : pc'[g] = pc[g]
  BY DEF RunsGuarded
<1> QED  BY <1>1 DEF HeldFrame, StopFrame, WidenFrame, StartFrame, Keeps

LEMMA OtherFrames ==
    ASSUME Inv,
           \/ \E i \in Ids : ReplyAsk(i)
           \/ \E o \in Stoppable : StopOwner(o)
           \/ \E i \in Editable, s \in Statuses \ {"none"} : SetStatus(i, s)
           \/ UNCHANGED vars
    PROVE  HeldFrame /\ StopFrame /\ WidenFrame /\ StartFrame /\ UNCHANGED gate
<1>1. /\ UNCHANGED pc /\ UNCHANGED arg /\ UNCHANGED runs
      /\ UNCHANGED hold /\ UNCHANGED stopping /\ UNCHANGED gate
  BY DEF ReplyAsk, StopOwner, SetStatus, vars, table, local, gate
<1>2. \A g \in Runners : run'[g].scope = run[g].scope
  <2>1. \A g \in Runners : run[g] \in RunRecs
    BY DEF Inv, TypeInv, RunType
  <2>2. CASE \E i \in Ids : ReplyAsk(i)
    <3>1. PICK i \in Ids : ReplyAsk(i)
      BY <2>2
    <3>2. run' = [run EXCEPT ![runs[i]].question = FALSE] /\ runs[i] \in Runners
      BY <3>1 DEF ReplyAsk, Inv, TypeInv, TableType
    <3> QED  BY <2>1, <3>2, RunParts DEF Inv, TypeInv, RunType
  <2>3. CASE \E o \in Stoppable : StopOwner(o)
    BY <2>1, <2>3, RunParts DEF StopOwner
  <2>4. CASE UNCHANGED run
    BY <2>4
  <2> QED  BY <2>2, <2>3, <2>4 DEF SetStatus, vars
<1> QED  BY <1>1, <1>2 DEF HeldFrame, StopFrame, WidenFrame, StartFrame, Keeps, RunsGuarded

LEMMA FireFrames ==
    ASSUME Inv, NEW f \in Schedulers \cup Firers, FireBegins(f) \/ FireEnds(f) \/ ScheduleSubAgents(f)
    PROVE  HeldFrame /\ StopFrame /\ WidenFrame /\ StartFrame /\ UNCHANGED gate
<1>1. f \in Callers /\ f \notin Assigners \cup Stoppers \cup Scopers \cup Starters \cup Gates
  BY Roles, Apart
<1>2. /\ UNCHANGED run /\ UNCHANGED runs /\ UNCHANGED hold
      /\ UNCHANGED stopping /\ UNCHANGED gate
  BY DEF FireBegins, FireEnds, ScheduleSubAgents, table
<1>3. Alone(f)
  BY <1>1, FireAside
<1> QED  BY <1>1, <1>2, <1>3, AloneFrames

\* A gate that has come to its question is not over, and what it does
\* before or after leaves the decline alone.
LEMMA GateFrames ==
    ASSUME Inv, NEW t \in Gates, ResumeStep(t) \/ GateStep(t)
    PROVE  /\ HeldFrame /\ StopFrame /\ WidenFrame /\ StartFrame /\ Alone(t)
           /\ pc[t] # "over"
           /\ UNCHANGED gate \/ GateAnswered(t, FALSE)
<1> USE Apart
<1>1. t \in Callers /\ t \notin Assigners \cup Stoppers \cup Scopers \cup Starters
  BY Roles
<1>2. Alone(t)
  <2>1. CASE \E j \in Jobs : ResumeCloses(t, j)
    <3>1. PICK j \in Jobs : ResumeCloses(t, j)
      BY <2>1
    <3>2. PICK r : arg' = [arg EXCEPT ![t] = r]
      BY <3>1 DEF ResumeCloses
    <3> QED  BY <3>1, <3>2 DEF ResumeCloses, Alone, Inv, TypeInv, ArgType
  <2>2. CASE GateStep(t) \/ ResumeReads(t) \/ ResumeChecks(t) \/ ResumeDone(t)
    BY <2>2, GateAside
  <2> QED  BY <2>1, <2>2 DEF ResumeStep
<1>3. UNCHANGED run /\ UNCHANGED runs /\ UNCHANGED hold /\ UNCHANGED stopping
  BY DEF ResumeStep, GateStep, ResumeReads, ResumeChecks, ResumeCloses, ResumeDone,
     GateReads, GateAsks, GateAnswered, table
<1>4. pc[t] # "over" /\ (UNCHANGED gate \/ GateAnswered(t, FALSE))
  BY DEF ResumeStep, GateStep, ResumeReads, ResumeChecks, ResumeCloses, ResumeDone,
     GateReads, GateAsks, GateAnswered, Moves, gate
<1>5. StartFrame
  BY <1>1, <1>2, <1>4 DEF StartFrame, Alone
<1> QED  BY <1>1, <1>2, <1>3, <1>4, <1>5, AloneFrames

LEMMA AssignFrames ==
    ASSUME Inv, NEW a \in Assigners, AssignStep(a)
    PROVE  /\ StopFrame /\ WidenFrame /\ StartFrame
           /\ UNCHANGED declined /\ allowed \subseteq allowed'
<1>1. a \in Callers /\ a \notin Stoppers \cup Scopers \cup Starters \cup Gates
  BY Roles, Apart
<1>2. UNCHANGED runs /\ UNCHANGED stopping /\ UNCHANGED declined /\ allowed \subseteq allowed'
  BY DEF AssignStep, AssignChecks, AssignRewrites, AssignReleases, table, gate
<1>3. \A g \in Runners : run'[g].scope = run[g].scope
  <2>1. \A g \in Runners : run[g] \in RunRecs
    BY DEF Inv, TypeInv, RunType
  <2>2. UNCHANGED run \/ \E i \in Ids : run' = [run EXCEPT ![runs[i]].interrupt = TRUE] /\ runs[i] # None
    BY Apart DEF AssignStep, AssignChecks, AssignRewrites, AssignReleases
  <2>3. CASE \E i \in Ids : run' = [run EXCEPT ![runs[i]].interrupt = TRUE] /\ runs[i] # None
    BY <2>1, <2>3, RunParts DEF Inv, TypeInv, RunType, TableType
  <2> QED  BY <2>2, <2>3
<1> QED  BY <1>1, <1>2, <1>3, AssignAside, AloneFrames

LEMMA ScopeFrames ==
    ASSUME Inv, NEW c \in Scopers, ScopeStep(c)
    PROVE  /\ HeldFrame /\ StopFrame /\ StartFrame
           /\ UNCHANGED declined /\ allowed \subseteq allowed'
<1> USE Apart
<1>1. c \in Callers /\ c \notin Stoppers \cup Assigners \cup Starters \cup Gates
  BY Roles
<1>2. /\ UNCHANGED runs /\ UNCHANGED stopping /\ UNCHANGED hold
      /\ UNCHANGED declined /\ allowed \subseteq allowed'
  BY DEF ScopeStep, ScopeChecks, ScopeRewrites, ScopeApplies, ScopeAnswers, table, gate
<1>3. Alone(c)
  BY ScopeAside
<1>4. RunsGuarded /\ \A g \in Runners : pc'[g] = pc[g]
  BY <1>1, <1>2, <1>3 DEF RunsGuarded, Alone
<1> QED  BY <1>1, <1>2, <1>3, <1>4 DEF HeldFrame, StopFrame, StartFrame, Keeps, Alone

LEMMA StopperFrames ==
    ASSUME Inv, NEW s \in Stoppers, StopStep(s)
    PROVE  /\ HeldFrame /\ WidenFrame /\ StartFrame /\ UNCHANGED gate /\ Alone(s)
           /\ UNCHANGED runs /\ \A g \in Runners : pc'[g] = pc[g]
<1> USE Apart
<1>1. s \in Callers /\ s \notin Scopers \cup Assigners \cup Starters \cup Gates
  BY Roles
<1>2. UNCHANGED runs /\ UNCHANGED hold /\ UNCHANGED gate
  BY DEF StopStep, StopAll, StopReturns, EnableSubAgents, table
<1>3. Alone(s)
  BY StopAside
<1>4. \A g \in Runners : run'[g].scope = run[g].scope
  <2>1. \A g \in Runners : run[g] \in RunRecs
    BY DEF Inv, TypeInv, RunType
  <2>2. CASE StopAll(s)
    BY <2>1, <2>2, RunParts DEF StopAll
  <2>3. CASE UNCHANGED run
    BY <2>3
  <2> QED  BY <2>2, <2>3 DEF StopStep, StopReturns, EnableSubAgents
<1>5. \A g \in Runners : pc'[g] = pc[g]
  BY <1>1, <1>3 DEF Alone
<1> QED  BY <1>1, <1>2, <1>3, <1>4, <1>5, AloneFrames

LEMMA StarterFrames ==
    ASSUME Inv, NEW t \in Starters, StartClears(t) \/ StartRestores(t)
    PROVE  HeldFrame /\ StopFrame /\ WidenFrame /\ Alone(t)
<1>1. t \in Callers /\ t \notin Scopers \cup Assigners \cup Stoppers
  BY Roles, Apart
<1>2. UNCHANGED runs /\ UNCHANGED hold /\ UNCHANGED stopping /\ UNCHANGED run
  BY DEF StartClears, StartRestores, table
<1> QED  BY <1>1, <1>2, StartAside, AloneFrames

LEMMA FinishFrames ==
    ASSUME Inv, NEW g \in Runners, Finish(g)
    PROVE  StopFrame /\ StartFrame /\ UNCHANGED gate
<1> USE Apart
<1>1. \A q \in Stoppers \cup Starters \cup Gates : pc'[q] = pc[q]
  BY FinishCallers, Roles
<1>2. \A s \in Stoppers : arg'[s].any = arg[s].any
  BY FinishCallers
<1> QED  BY <1>1, <1>2, FinishCallers DEF StopFrame, StartFrame

-----------------------------------------------------------------------------
(* The assignment that waits for a run it stopped *)

\* A hold belongs to an assignment under way; one that waits still holds its
\* step, whose run, if it has one, is the one it waits for.
HeldInv ==
    /\ \A i \in hold : \E a \in Assigners : pc[a] \in Assigning /\ arg[a].id = i
    /\ \A a \in Assigners : pc[a] = "await" =>
          arg[a].id \in hold /\ arg[a].on # None /\ runs[arg[a].id] \in {None, arg[a].on}
    /\ HeldIsFree

LEMMA HeldKept ==
    ASSUME Inv, HeldInv, HeldFrame PROVE HeldInv'
<1> USE DEF HeldFrame
<1>1. \A a \in Assigners : pc'[a] \in Assigning => pc'[a] = pc[a] /\ arg'[a] = arg[a]
  BY DEF Keeps
<1>2. \A i \in hold : runs'[i] # None => runs'[i] = runs[i]
  BY DEF RunsGuarded, Inv, TypeInv, TableType
<1>3. (\A i \in hold : \E a \in Assigners : pc[a] \in Assigning /\ arg[a].id = i)'
  BY <1>1 DEF HeldInv, Keeps
<1>4. (\A a \in Assigners : pc[a] = "await" =>
          arg[a].id \in hold /\ arg[a].on # None /\ runs[arg[a].id] \in {None, arg[a].on})'
  BY <1>1, <1>2 DEF HeldInv, Assigning
<1>5. HeldIsFree'
  BY <1>1, <1>2 DEF HeldInv, HeldIsFree, RunningIds, Assigning
<1> QED  BY <1>3, <1>4, <1>5 DEF HeldInv

LEMMA HeldAssign ==
    ASSUME Inv, HeldInv, AtMostOne(Assigners), NEW a \in Assigners, AssignStep(a)
    PROVE  HeldInv'
<1> USE Apart DEF Inv, TypeInv, PcType, ArgType
<1>1. \A b \in Assigners : b = a
  BY DEF AtMostOne
<1>2. CASE \E i \in Steps, o \in Owners \cup {None} : AssignChecks(a, i, o)
  <2>1. PICK i \in Steps, o \in Owners \cup {None} : AssignChecks(a, i, o)
    BY <1>2
  <2>2. /\ pc[a] = "idle" /\ arg'[a].id = i /\ arg'[a].on = runs[i] /\ UNCHANGED runs
        /\ IF runs[i] = None THEN pc'[a] = "assign" /\ UNCHANGED hold
           ELSE pc'[a] = "await" /\ hold' = hold \cup {i}
    BY <2>1 DEF AssignChecks, NoArg, table
  <2>3. hold = {}
    BY <1>1, <2>2 DEF HeldInv, Assigning, TableType
  <2> QED  BY <1>1, <2>2, <2>3 DEF HeldInv, HeldIsFree, Assigning
<1>3. CASE AssignRewrites(a)
  <2>1. /\ pc[a] = "assign" /\ pc'[a] \in {"giveup", "release"} /\ arg'[a].id = arg[a].id
        /\ UNCHANGED runs /\ UNCHANGED hold
    BY <1>3 DEF AssignRewrites, table, ArgRecs
  <2> QED  BY <1>1, <2>1 DEF HeldInv, HeldIsFree, Assigning, RunningIds
<1>4. CASE AssignReleases(a)
  <2>1. pc'[a] \in {"call", "idle"} /\ hold' = hold \ {arg[a].id}
    BY <1>4 DEF AssignReleases
  <2>2. hold' = {}
    BY <1>1, <2>1 DEF HeldInv
  <2> QED  BY <1>1, <2>1, <2>2 DEF HeldInv, HeldIsFree
<1> QED  BY <1>2, <1>3, <1>4 DEF AssignStep

LEMMA HeldFinish ==
    ASSUME Inv, HeldInv, NEW g \in Runners, Finish(g)
    PROVE  HeldInv'
<1> USE Apart
<1>1. UNCHANGED hold /\ UNCHANGED runs
  BY FinishCallers
<1>2. \A a \in Assigners : arg'[a].id = arg[a].id /\ (arg[a].on # g => arg'[a] = arg[a])
  BY FinishCallers
<1>3. \A a \in Assigners : \/ pc'[a] = pc[a]
                           \/ pc[a] = "await" /\ arg[a].on = g /\ pc'[a] = "assign"
  BY FinishCallers
<1>4. \A a \in Assigners : pc'[a] = "await" => arg[a].on # g
  BY FinishCallers
<1>5. \A i \in Ids : runs[i] # g
  BY FinishCallers DEF Inv, RunInv, TableExact, Serving, TypeInv, TableType
<1>6. (\A i \in hold : \E a \in Assigners : pc[a] \in Assigning /\ arg[a].id = i)'
  BY <1>1, <1>2, <1>3 DEF HeldInv, Assigning
<1>7. (\A a \in Assigners : pc[a] = "await" =>
          arg[a].id \in hold /\ arg[a].on # None /\ runs[arg[a].id] \in {None, arg[a].on})'
  BY <1>1, <1>2, <1>3, <1>4 DEF HeldInv
<1>8. HeldIsFree'
  BY <1>1, <1>2, <1>3, <1>5 DEF HeldInv, HeldIsFree, RunningIds
<1> QED  BY <1>6, <1>7, <1>8 DEF HeldInv

\* A step that moves no run beyond its place and no caller in the middle of
\* something: every step but those of the roles below.
LEMMA QuietFrames ==
    ASSUME Inv, [Next]_vars,
           \A a \in Assigners : ~AssignStep(a),
           \A c \in Scopers : ~ScopeStep(c),
           \A s \in Stoppers : ~StopStep(s),
           \A t \in Gates : ~GateStep(t) /\ ~ResumeStep(t),
           \A t \in Starters : ~(StartClears(t) \/ StartRestores(t)),
           \A g \in Runners : ~Finish(g),
           ~Crash
    PROVE  HeldFrame /\ StopFrame /\ WidenFrame /\ StartFrame /\ UNCHANGED gate
<1>1. CASE \E p \in Procs : ScheduleStep(p)
  BY <1>1, ScheduleFrames
<1>2. CASE \E j \in Jobs : JobStep(j)
  BY <1>2, JobFrames
<1>3. CASE \E g \in Runners : RunStep(g)
  BY <1>3, RunFrames
<1>4. CASE \/ \E s \in Schedulers : ScheduleSubAgents(s)
           \/ \E f \in Firers : FireBegins(f) \/ FireEnds(f)
  BY <1>4, FireFrames
<1> QED  BY <1>1, <1>2, <1>3, <1>4, OtherFrames, Zenon DEF Next

LEMMA HeldStep ==
    ASSUME Inv, HeldInv, AtMostOne(Assigners), [Next]_vars PROVE HeldInv'
<1>1. CASE \E a \in Assigners : AssignStep(a)
  BY <1>1, HeldAssign
<1>2. CASE \E g \in Runners : Finish(g)
  BY <1>2, HeldFinish
<1>3. CASE Crash
  BY <1>3, Apart DEF Crash, HeldInv, HeldIsFree
<1>4. CASE HeldFrame
  BY <1>4, HeldKept
<1> QED
  BY <1>1, <1>2, <1>3, <1>4, QuietFrames, ScopeFrames, StopperFrames, GateFrames, StarterFrames

\* While an assignment that stopped a run rewrites the owner, nobody starts
\* that step.  It needs assignments to come one at a time: a second one for
\* the same step gives up the hold of the first, since the hold is one entry
\* for the step.
THEOREM HeldStepsWait ==
    ASSUME AtMostOne(Assigners) PROVE Spec => []HeldIsFree
<1>1. Init => HeldInv
  BY Apart DEF Init, Begin, HeldInv, HeldIsFree, Assigning
<1>2. Inv /\ HeldInv /\ [Next]_vars => HeldInv'
  BY HeldStep
<1>3. HeldInv => HeldIsFree
  BY DEF HeldInv
<1> QED  BY <1>1, <1>2, <1>3, InvHolds, PTL DEF Spec

-----------------------------------------------------------------------------
(* The stop that waits for every run *)

\* Nothing is enabled behind the back of a stop; once its wait is over,
\* every goroutine has ended.
StopInv == \A s \in Stoppers :
    /\ pc[s] \in Stopping => stopping
    /\ pc[s] = "stopped" /\ arg[s].any => \A g \in Runners : pc[g] = "free"

LEMMA StopKept ==
    ASSUME StopInv, StopFrame PROVE StopInv'
<1> SUFFICES ASSUME NEW s \in Stoppers, pc'[s] \in Stopping
             PROVE  /\ stopping'
                    /\ pc'[s] = "stopped" /\ arg'[s].any => \A g \in Runners : pc'[g] = "free"
  BY DEF StopInv, Stopping
<1>1. pc'[s] = pc[s] /\ arg'[s].any = arg[s].any
  BY DEF StopFrame
<1> QED  BY <1>1 DEF StopInv, StopFrame

LEMMA StopStops ==
    ASSUME Inv, StopInv, AtMostOne(Stoppers), NEW s \in Stoppers, StopStep(s)
    PROVE  StopInv'
<1> USE Apart DEF Inv, TypeInv, PcType, ArgType
<1>1. \A z \in Stoppers : z = s
  BY DEF AtMostOne
<1>2. \A g \in Runners : pc'[g] = pc[g]
  BY StopperFrames
<1>3. CASE StopAll(s)
  BY <1>1, <1>3 DEF StopAll, Moves, StopInv
<1>4. CASE \E drained \in BOOLEAN : StopReturns(s, drained)
  <2>1. PICK drained \in BOOLEAN : StopReturns(s, drained)
    BY <1>4
  <2>2. /\ pc[s] = "draining" /\ UNCHANGED stopping /\ arg'[s].any = drained
        /\ drained => \A g \in Runners : pc[g] = "free"
    BY <2>1 DEF StopReturns, Moves, ArgRecs
  <2> QED  BY <1>1, <1>2, <2>2 DEF StopInv, Stopping
<1>5. CASE EnableSubAgents(s)
  BY <1>1, <1>5 DEF EnableSubAgents, Moves, StopInv, Stopping
<1> QED  BY <1>3, <1>4, <1>5 DEF StopStep

LEMMA StopInvStep ==
    ASSUME Inv, StopInv, AtMostOne(Stoppers), [Next]_vars PROVE StopInv'
<1>1. CASE \E s \in Stoppers : StopStep(s)
  BY <1>1, StopStops
<1>2. CASE Crash
  BY <1>2, Apart DEF Crash, StopInv, Stopping
<1>3. CASE StopFrame
  BY <1>3, StopKept
<1> QED
  BY <1>1, <1>2, <1>3, QuietFrames, AssignFrames, ScopeFrames, GateFrames, StarterFrames, FinishFrames

\* Once StopAllSubAgents has returned, its wait not cut short, no run is in
\* the table until the runner is enabled again, whatever was being built when
\* it began.  It needs one such caller (the session's end): a second one that
\* enables the runner ends the quiet of the first.
THEOREM StopsAreQuiet ==
    ASSUME AtMostOne(Stoppers) PROVE Spec => []StoppedIsQuiet
<1>1. Init => StopInv
  BY Apart DEF Init, Begin, StopInv, Stopping
<1>2. Inv /\ StopInv /\ [Next]_vars => StopInv'
  BY StopInvStep
<1>3. Inv /\ StopInv => StoppedIsQuiet
  BY DEF Inv, RunInv, TableExact, Serving, StopInv, StoppedIsQuiet, RunningIds, TypeInv, TableType
<1> QED  BY <1>1, <1>2, <1>3, InvHolds, PTL DEF Spec

-----------------------------------------------------------------------------
(* The start that clears a decline *)

\* While an /agents start is under way no decline is in force, and no gate
\* is left to bring one.
DeclineInv == \A t \in Starters : pc[t] # "idle" =>
    ~declined /\ \A g \in Gates : pc[g] = "over"

LEMMA DeclineKept ==
    ASSUME DeclineInv, StartFrame, UNCHANGED declined PROVE DeclineInv'
  BY DEF DeclineInv, StartFrame

LEMMA DeclineStarts ==
    ASSUME Inv, DeclineInv, AtMostOne(Starters), "hasty" \notin May,
           NEW t \in Starters, StartClears(t) \/ StartRestores(t)
    PROVE  DeclineInv'
<1> USE Apart
<1>1. \A u \in Starters : u = t
  BY DEF AtMostOne
<1>2. \A g \in Gates : pc'[g] = pc[g]
  BY StarterFrames, Roles DEF Alone
<1>3. CASE StartClears(t)
  BY <1>1, <1>2, <1>3 DEF StartClears, DeclineInv
<1>4. CASE StartRestores(t)
  BY <1>1, <1>4 DEF StartRestores, Moves, DeclineInv, Inv, TypeInv, PcType
<1> QED  BY <1>3, <1>4

LEMMA DeclineStep ==
    ASSUME Inv, DeclineInv, AtMostOne(Starters), "hasty" \notin May, [Next]_vars
    PROVE  DeclineInv'
<1>1. CASE \E t \in Starters : StartClears(t) \/ StartRestores(t)
  BY <1>1, DeclineStarts
<1>2. CASE Crash
  BY <1>2, Apart DEF Crash, DeclineInv
<1>3. CASE \E t \in Gates : ResumeStep(t) \/ GateStep(t)
  <2>1. PICK t \in Gates : ResumeStep(t) \/ GateStep(t)
    BY <1>3
  <2>2. StartFrame /\ pc[t] # "over" /\ (UNCHANGED gate \/ GateAnswered(t, FALSE))
    BY <2>1, GateFrames
  <2>3. CASE UNCHANGED gate
    BY <2>2, <2>3, DeclineKept DEF gate
  <2>4. CASE GateAnswered(t, FALSE)
    BY <2>2 DEF StartFrame, DeclineInv
  <2> QED  BY <2>2, <2>3, <2>4
<1>4. CASE StartFrame /\ UNCHANGED declined
  BY <1>4, DeclineKept
<1> QED
  BY <1>1, <1>2, <1>3, <1>4, QuietFrames, AssignFrames, ScopeFrames, StopperFrames, FinishFrames
     DEF gate

\* A decline at startup, and what was allowed since, stands until somebody
\* starts sub-agents anew: the start that found nothing puts back exactly
\* what it cleared and what was allowed meanwhile.  It needs starts to come
\* one at a time and after the startup question, whose late answer would be
\* undone.
THEOREM DeclinesStand ==
    ASSUME AtMostOne(Starters), "hasty" \notin May PROVE Spec => DeclineStands
<1>1. Init => DeclineInv
  BY Apart, Roles DEF Init, Begin, DeclineInv
<1>2. Inv /\ DeclineInv /\ [Next]_vars => DeclineInv'
  BY DeclineStep
<1> DEFINE Anew == \/ Crash \/ \E u \in Starters : StartClears(u)
                   \/ \E t \in Gates : GateAnswered(t, FALSE)
<1>3. Inv /\ DeclineInv /\ [Next]_vars /\ ~Anew => (declined => declined') /\ allowed \subseteq allowed'
  <2> SUFFICES ASSUME Inv, DeclineInv, [Next]_vars, ~Anew
               PROVE  (declined => declined') /\ allowed \subseteq allowed'
    OBVIOUS
  <2>1. CASE \E t \in Starters : StartRestores(t)
    BY <2>1 DEF StartRestores, Moves, DeclineInv
  <2>2. CASE \E t \in Gates : ResumeStep(t) \/ GateStep(t)
    BY <2>2, GateFrames DEF gate
  <2>3. CASE UNCHANGED declined /\ allowed \subseteq allowed'
    BY <2>3
  <2> QED
    BY <2>1, <2>2, <2>3, QuietFrames, AssignFrames, ScopeFrames, StopperFrames, FinishFrames DEF gate
<1> QED  BY <1>1, <1>2, <1>3, InvHolds, PTL DEF Spec, DeclineStands

-----------------------------------------------------------------------------
(* The scope that is widened under a run *)

\* A run that a SetScope has checked has kept, until it is given the new
\* scope, a scope that the new one covers.
WidenInv == \A c \in Scopers : pc[c] \in Rescoping /\ arg[c].on # None =>
    pc[arg[c].on] # "free" /\ run[arg[c].on].scope \subseteq arg[c].scope

LEMMA WidenKept ==
    ASSUME Inv, WidenInv, WidenFrame PROVE WidenInv'
<1> SUFFICES ASSUME NEW c \in Scopers, pc'[c] \in Rescoping, arg'[c].on # None
             PROVE  pc'[arg'[c].on] # "free" /\ run'[arg'[c].on].scope \subseteq arg'[c].scope
  BY DEF WidenInv
<1>1. pc'[c] = pc[c] /\ arg'[c] = arg[c]
  BY DEF WidenFrame, Keeps
<1>2. arg[c].on \in Runners
  BY <1>1, Apart DEF Inv, TypeInv, ArgType, ArgRecs
<1> QED  BY <1>1, <1>2 DEF WidenInv, WidenFrame

LEMMA WidenFinish ==
    ASSUME Inv, WidenInv, NEW g \in Runners, Finish(g) PROVE WidenInv'
<1> USE Apart
<1> SUFFICES ASSUME NEW c \in Scopers, pc'[c] \in Rescoping, arg'[c].on # None
             PROVE  pc'[arg'[c].on] # "free" /\ run'[arg'[c].on].scope \subseteq arg'[c].scope
  BY DEF WidenInv
<1>1. arg[c].on # g /\ arg'[c] = arg[c]
  BY FinishCallers
<1>2. pc'[c] = pc[c]
  BY FinishCallers, Roles
<1>3. arg[c].on \in Runners \ {g}
  BY <1>1 DEF Inv, TypeInv, ArgType, ArgRecs
<1> QED  BY <1>1, <1>2, <1>3, FinishCallers DEF WidenInv

LEMMA WidenScope ==
    ASSUME Inv, WidenInv, AtMostOne(Scopers), NEW c \in Scopers, ScopeStep(c)
    PROVE  /\ WidenInv'
           /\ \A g \in Runners : /\ pc'[g] = pc[g]
                                 /\ pc[g] # "free" => run[g].scope \subseteq run'[g].scope
<1> USE Apart DEF Inv, TypeInv, PcType, ArgType
<1>1. \A d \in Scopers : d = c
  BY DEF AtMostOne
<1>2. \A g \in Runners : pc'[g] = pc[g] /\ run[g] \in RunRecs
  BY ScopeAside DEF Alone, RunType
<1>3. CASE \E i \in Steps, new \in SUBSET Paths \ {{}} : ScopeChecks(c, i, new)
  <2>1. PICK i \in Steps, new \in SUBSET Paths \ {{}} : ScopeChecks(c, i, new)
    BY <1>3
  <2>2. /\ arg'[c].on = runs[i] /\ arg'[c].scope = new /\ UNCHANGED run
        /\ runs[i] # None => run[runs[i]].scope \subseteq new
    BY <2>1 DEF ScopeChecks, NoArg
  <2>3. runs[i] # None => runs[i] \in Runners /\ pc[runs[i]] # "free"
    BY DEF RunInv, TableExact, Serving, TableType
  <2> QED  BY <1>1, <1>2, <2>2, <2>3 DEF WidenInv
<1>4. CASE ScopeRewrites(c)
  <2>1. /\ UNCHANGED run /\ pc[c] = "rescope"
        /\ arg'[c].on = None \/ (arg'[c].on = arg[c].on /\ arg'[c].scope = arg[c].scope)
    BY <1>4 DEF ScopeRewrites, ArgRecs, NoArg
  <2>2. arg[c].on # None => arg[c].on \in Runners
    BY DEF ArgRecs
  <2> QED  BY <1>1, <1>2, <2>1, <2>2 DEF WidenInv, Rescoping
<1>5. CASE ScopeApplies(c)
  <2>1. pc'[c] \in {"answer", "call"} /\ pc[c] = "apply"
    BY <1>5 DEF ScopeApplies
  <2>2. WidenInv'
    BY <1>1, <2>1 DEF WidenInv, Rescoping
  <2>3. CASE arg[c].on = None
    BY <1>2, <1>5, <2>2, <2>3 DEF ScopeApplies
  <2>4. CASE arg[c].on # None
    <3>1. PICK g \in Runners : g = arg[c].on
      BY <2>4 DEF ArgRecs
    <3>2. run' = [run EXCEPT ![g].scope = arg[c].scope]
      BY <1>5, <2>4, <3>1 DEF ScopeApplies
    <3>3. run[g].scope \subseteq arg[c].scope
      BY <2>1, <2>4, <3>1 DEF WidenInv, Rescoping
    <3>4. run'[g].scope = arg[c].scope /\ \A h \in Runners \ {g} : run'[h] = run[h]
      BY <1>2, <3>2, RunParts DEF RunType
    <3> QED  BY <1>2, <2>2, <3>3, <3>4
  <2> QED  BY <2>3, <2>4
<1>6. CASE ScopeAnswers(c)
  <2>1. pc'[c] = "call" /\ pc[c] = "answer"
    BY <1>6 DEF ScopeAnswers, Moves
  <2>2. WidenInv'
    BY <1>1, <2>1 DEF WidenInv, Rescoping
  <2>3. CASE runs[arg[c].id] = None
    <3>1. run' = run
      BY <1>6, <2>3 DEF ScopeAnswers
    <3> QED  BY <1>2, <2>2, <3>1
  <2>4. CASE runs[arg[c].id] # None
    <3>1. PICK g \in Runners : g = runs[arg[c].id]
      BY <2>1, <2>4 DEF Targets, Changing, TableType
    <3>2. run' = [run EXCEPT ![g].question = FALSE]
      BY <1>6, <2>4, <3>1 DEF ScopeAnswers
    <3> QED  BY <1>2, <2>2, <3>2, RunParts DEF RunType
  <2> QED  BY <2>3, <2>4
<1> QED  BY <1>3, <1>4, <1>5, <1>6 DEF ScopeStep

LEMMA WidenStep ==
    ASSUME Inv, WidenInv, AtMostOne(Scopers), [Next]_vars
    PROVE  WidenInv' /\ \A g \in Runners :
              pc[g] # "free" /\ pc'[g] # "free" => run[g].scope \subseteq run'[g].scope
<1>1. CASE \E c \in Scopers : ScopeStep(c)
  BY <1>1, WidenScope
<1>2. CASE \E g \in Runners : Finish(g)
  <2>1. PICK g \in Runners : Finish(g)
    BY <1>2
  <2>2. WidenInv'
    BY <2>1, WidenFinish
  <2> QED  BY <2>1, <2>2, FinishCallers
<1>3. CASE Crash
  BY <1>3, Apart DEF Crash, WidenInv, Rescoping
<1>4. CASE WidenFrame
  BY <1>4, WidenKept DEF WidenFrame
<1> QED
  BY <1>1, <1>2, <1>3, <1>4, QuietFrames, AssignFrames, StopperFrames, GateFrames, StarterFrames

\* A scope is only ever widened under a sub-agent that works on it, although
\* SetScope lets the run go between its check and its writing.  It needs
\* scope changes to come one at a time: of two that were both checked, the
\* narrower may be written last.
THEOREM ScopesWiden ==
    ASSUME AtMostOne(Scopers) PROVE Spec => WidensOnly
<1>1. Init => WidenInv
  BY Apart DEF Init, Begin, WidenInv, Rescoping
<1>2. Inv /\ WidenInv /\ [Next]_vars => WidenInv'
  BY WidenStep
<1>3. Inv /\ WidenInv /\ [Next]_vars =>
        \A g \in Runners : pc[g] # "free" /\ pc'[g] # "free" => run[g].scope \subseteq run'[g].scope
                                            \/ run[g].node = None
  BY WidenStep
<1> QED  BY <1>1, <1>2, <1>3, InvHolds, PTL DEF Spec, WidensOnly

-----------------------------------------------------------------------------
(* Scopes of what runs at once *)

\* No job shares a path with a standing step; and what is kept apart: two
\* steps, two jobs, and then a step and a job too.
JobsApart == \A i \in Steps, j \in Jobs : ~Overlap(Scope0[i], Scope0[j])
Far(i, k) == i # k /\ (JobsApart \/ (i \in Jobs <=> k \in Jobs))

\* Nobody rewrites a scope: the record, the trees that are acted on and the
\* runs have the first one.
ScopesStand ==
    /\ \A i \in Steps : step[i].scope = Scope0[i]
    /\ \A j \in Jobs : pc[j] \in {"filed", "reread"} => step[j].scope = Scope0[j]
TreesStand ==
    /\ \A p \in Procs \ Jobs, i \in Steps :
          pc[p] \in {"decide", "build", "mark"} => snap[p][i].scope = Scope0[i]
    /\ \A j \in Jobs : pc[j] = "build" => snap[j][j].scope = Scope0[j]
RunsStand == \A i \in Ids : runs[i] # None => run[runs[i]].scope = Scope0[i]

\* A job under way has spoken for its scope, and of what runs, is reserved or
\* is spoken for, no two share a path.
JobsSpeak == \A j \in Jobs : pc[j] \in {"file", "filed"} \/ j \in pending => j \in jobScopes
Taken == RunningIds \cup pending \cup jobScopes
Spread == \A i, k \in Taken : Far(i, k) => ~Overlap(Scope0[i], Scope0[k])
SpreadInv == ScopesStand /\ TreesStand /\ RunsStand /\ JobsSpeak /\ Spread

\* A step that starts, reserves, files and reads nothing.
ScopeFrame ==
    /\ UNCHANGED pending /\ UNCHANGED jobScopes
    /\ \A i \in Ids : /\ step'[i].scope = step[i].scope
                      /\ runs'[i] # None =>
                            runs'[i] = runs[i] /\ run'[runs[i]].scope = run[runs[i]].scope
    /\ \A p \in Procs : pc'[p] \in {"decide", "build", "mark"} => pc'[p] = pc[p] /\ snap'[p] = snap[p]
    /\ \A j \in Jobs : pc'[j] \in {"file", "filed", "reread"} => pc'[j] = pc[j]

LEMMA SpreadKept ==
    ASSUME SpreadInv, ScopeFrame PROVE SpreadInv'
<1> USE Apart DEF SpreadInv, ScopeFrame
<1>1. ScopesStand'
  BY DEF ScopesStand
<1>2. TreesStand'
  BY DEF TreesStand
<1>3. RunsStand'
  BY DEF RunsStand
<1>4. JobsSpeak'
  BY DEF JobsSpeak
<1>5. Taken' \subseteq Taken
  BY DEF Taken, RunningIds
<1>6. Spread'
  BY <1>5 DEF Spread
<1> QED  BY <1>1, <1>2, <1>3, <1>4, <1>6

\* Reading the tree.
LEMMA SpreadReads ==
    ASSUME Inv, SpreadInv, NEW p \in Procs, ReadTree(p) PROVE SpreadInv'
<1> USE Apart DEF SpreadInv
<1>1. /\ pc[p] = "call" /\ pc' = [pc EXCEPT ![p] = "decide"] /\ snap' = [snap EXCEPT ![p] = step]
      /\ UNCHANGED step /\ UNCHANGED runs /\ UNCHANGED run /\ UNCHANGED pending /\ UNCHANGED jobScopes
  BY DEF ReadTree, table, record
<1>2. /\ pc'[p] = "decide" /\ snap'[p] = step /\ p \notin Jobs
      /\ \A q \in Procs \ {p} : pc'[q] = pc[q] /\ snap'[q] = snap[q]
  BY <1>1 DEF Inv, TypeInv, PcType, SnapType, CapInv, JobPlaces, JobPhases
<1>3. \A j \in Jobs : pc'[j] = pc[j] /\ snap'[j] = snap[j]
  BY <1>2
<1>4. ScopesStand' /\ RunsStand' /\ JobsSpeak' /\ Spread'
  BY <1>1, <1>3 DEF ScopesStand, RunsStand, JobsSpeak, Spread, Taken, RunningIds
<1>5. TreesStand'
  BY <1>2, <1>3 DEF TreesStand, ScopesStand
<1> QED  BY <1>4, <1>5

\* The ready rule compares each pick with all that runs, with all that is
\* reserved and with the picks before it.
LEMMA PicksSpread ==
    ASSUME Inv, SpreadInv, NEW p \in Procs, pc[p] = "decide",
           NEW R \in SUBSET Steps, IsReady(R, snap[p], RunningIds \cup pending),
           NEW i \in R, NEW k \in Taken \cup R, Far(i, k)
    PROVE  ~Overlap(Scope0[i], Scope0[k])
<1> USE Apart DEF SpreadInv
<1>1. p \notin Jobs
  BY DEF Inv, CapInv, JobPlaces, JobPhases
<1>2. \A n \in Steps : snap[p][n].scope = Scope0[n]
  BY <1>1 DEF TreesStand
<1>3. k \in Ids
  BY DEF Taken, RunningIds, Inv, TypeInv, TableType
<1>4. CASE k \in Jobs
  BY <1>4 DEF JobsApart, Overlap, Far
<1>5. CASE k \in (RunningIds \cup pending) \cap Steps
  BY <1>2, <1>5 DEF IsReady
<1>6. CASE k \in R
  <2>1. i \in Nat /\ k \in Nat
    BY <1>6, SubAgentsAssumption
  <2>0. \A m, n \in R : n < m => ~Overlap(Scope0[m], Scope0[n])
    <3>1. \A m \in R : \A n \in {j \in R : j < m} : ~Overlap(snap[p][m].scope, snap[p][n].scope)
      BY DEF IsReady
    <3> QED  BY <3>1, <1>2
  <2>2. CASE k < i
    BY <1>6, <2>0, <2>2
  <2>3. CASE i < k
    <3>1. ~Overlap(Scope0[k], Scope0[i])
      BY <1>6, <2>0, <2>3
    <3> QED  BY <3>1 DEF Overlap
  <2> QED  BY <2>1, <2>2, <2>3 DEF Far
<1>7. k \in jobScopes => k \in Jobs
  BY DEF Inv, TypeInv, TableType
<1> QED  BY <1>3, <1>4, <1>5, <1>6, <1>7 DEF Taken, Ids

LEMMA SpreadReserves ==
    ASSUME Inv, SpreadInv, NEW p \in Procs, Reserve(p) PROVE SpreadInv'
<1> USE Apart DEF SpreadInv
<1>1. PICK R \in SUBSET Steps : /\ IsReady(R, snap[p], RunningIds \cup pending)
                                /\ \E S \in SUBSET R : Picks(p, R, S)
  BY DEF Reserve
<1>2. PICK S \in SUBSET R : Picks(p, R, S)
  BY <1>1
<1>3. PICK to \in {"closing", "idle", "restore", "over", "build"} :
         /\ pc' = [pc EXCEPT ![p] = to]
         /\ IF to = "build" THEN UNCHANGED snap ELSE snap' = [snap EXCEPT ![p] = Blank]
  BY <1>2, ReturnedType DEF Picks
<1>4. /\ pc[p] = "decide" /\ pending' = pending \cup S
      /\ UNCHANGED step /\ UNCHANGED runs /\ UNCHANGED run /\ UNCHANGED jobScopes
  BY <1>2, Zenon DEF Reserve, Picks, record
<1>5. p \notin Jobs /\ pc'[p] = to /\ \A q \in Procs \ {p} : pc'[q] = pc[q] /\ snap'[q] = snap[q]
  BY <1>3, <1>4 DEF Inv, TypeInv, PcType, SnapType, CapInv, JobPlaces, JobPhases
<1>6. \A j \in Jobs : pc'[j] = pc[j] /\ snap'[j] = snap[j] /\ j \notin S
  BY <1>5
<1>7. ScopesStand' /\ RunsStand' /\ JobsSpeak'
  BY <1>4, <1>6 DEF ScopesStand, RunsStand, JobsSpeak
<1>8. TreesStand'
  BY <1>3, <1>4, <1>5, <1>6 DEF TreesStand
<1>9. Taken' = Taken \cup S
  BY <1>4 DEF Taken, RunningIds
<1>10. Spread'
  <2>1. \A i \in S, k \in Taken \cup S : Far(i, k) => ~Overlap(Scope0[i], Scope0[k])
    BY <1>1, <1>4, PicksSpread
  <2> QED  BY <1>9, <2>1 DEF Spread, Overlap, Far
<1> QED  BY <1>7, <1>8, <1>10

LEMMA SpreadGivesBack ==
    ASSUME Inv, SpreadInv, NEW p \in Procs, NEW i \in Ids, GiveBack(p, i) PROVE SpreadInv'
<1> USE Apart DEF SpreadInv
<1>1. /\ pc[p] = "build" /\ i \in picks[p]
      /\ pending' = pending \ {i} /\ jobScopes' = jobScopes \ {i}
      /\ UNCHANGED step /\ UNCHANGED runs /\ UNCHANGED run
      /\ snap' = [snap EXCEPT ![p] = Blank] \/ snap' = snap
  BY Zenon DEF GiveBack, Building, Unreserve, Continue, record
<1>2. PICK to \in {"unstarted", "closing", "idle", "restore", "over", "build"} :
         /\ pc' = [pc EXCEPT ![p] = to]
         /\ to = "build" => p \notin Jobs /\ snap' = snap
  <2>1. Returned(p, arg[p].any) \in {"closing", "idle", "restore", "over"}
    BY ReturnedType
  <2> QED  BY <2>1 DEF GiveBack, Continue
<1>3. pc'[p] = to /\ \A q \in Procs \ {p} : pc'[q] = pc[q] /\ snap'[q] = snap[q]
  BY <1>1, <1>2 DEF Inv, TypeInv, PcType, SnapType
<1>4. \A j \in Jobs : j = i => p = j
  BY <1>1 DEF Inv, CapInv, Picking
<1>5. ScopesStand' /\ RunsStand'
  BY <1>1, <1>2, <1>3 DEF ScopesStand, RunsStand
<1>6. TreesStand'
  BY <1>1, <1>2, <1>3 DEF TreesStand
<1>7. JobsSpeak'
  BY <1>1, <1>2, <1>3, <1>4 DEF JobsSpeak
<1>8. Taken' \subseteq Taken
  BY <1>1 DEF Taken, RunningIds
<1> QED  BY <1>5, <1>6, <1>7, <1>8 DEF Spread

LEMMA SpreadInstalls ==
    ASSUME Inv, SpreadInv, NEW p \in Procs, NEW i \in Ids, NEW g \in Runners, Install(p, i, g)
    PROVE  SpreadInv'
<1> USE Apart DEF SpreadInv
<1>1. /\ pc[p] = "build" /\ pc[g] = "free" /\ i \in picks[p]
      /\ runs' = [runs EXCEPT ![i] = g]
      /\ run' = [run EXCEPT ![g] = [NoRun EXCEPT !.node = i,
                    !.owner = snap[p][i].owner, !.scope = snap[p][i].scope]]
      /\ pending' = pending \ {i} /\ jobScopes' = jobScopes \ {i}
      /\ pc' = [pc EXCEPT ![p] = "mark", ![g] = "installed"]
      /\ UNCHANGED step /\ UNCHANGED snap
  BY Zenon DEF Install, Building, Unreserve, record
<1>2. pc'[p] = "mark" /\ pc'[g] = "installed" /\ p # g
      /\ \A q \in Procs \ {p, g} : pc'[q] = pc[q]
  BY <1>1 DEF Inv, TypeInv, PcType
<1>3. i \in pending /\ runs'[i] = g /\ \A k \in Ids \ {i} : runs'[k] = runs[k]
  BY <1>1 DEF Inv, CapInv, Reservations, TypeInv, TableType
<1>4. run'[g].scope = snap[p][i].scope /\ \A h \in Runners \ {g} : run'[h] = run[h]
  BY <1>1 DEF Inv, TypeInv, RunType, NoRun
<1>5. IF p \in Jobs THEN i = p ELSE i \in Steps
  BY <1>1 DEF Inv, CapInv, Picking
<1>6. ScopesStand'
  BY <1>1, <1>2 DEF ScopesStand
<1>7. TreesStand'
  BY <1>1, <1>2 DEF TreesStand
<1>8. RunsStand'
  <2>1. snap[p][i].scope = Scope0[i]
    BY <1>1, <1>5 DEF TreesStand
  <2>2. \A k \in Ids \ {i} : runs[k] # None => runs[k] \in Runners \ {g}
    BY <1>1 DEF Inv, RunInv, TableExact, Serving, TypeInv, TableType
  <2> QED  BY <1>3, <1>4, <2>1, <2>2 DEF RunsStand
<1>9. JobsSpeak'
  <2>1. \A j \in Jobs : j # p => pc'[j] = pc[j] /\ j # i
    BY <1>2, <1>5
  <2> QED  BY <1>1, <1>2, <1>3, <1>5, <2>1 DEF JobsSpeak
<1>10. Taken' \subseteq Taken
  BY <1>1, <1>3 DEF Taken, RunningIds
<1> QED  BY <1>6, <1>7, <1>8, <1>9, <1>10 DEF Spread

LEMMA SpreadMarks ==
    ASSUME Inv, SpreadInv, NEW p \in Procs, MarkDispatched(p) PROVE SpreadInv'
<1> USE Apart DEF SpreadInv
<1> DEFINE g == arg[p].on
<1>1. /\ pc[p] = "mark" /\ UNCHANGED step /\ UNCHANGED table /\ UNCHANGED run
      /\ snap' = [snap EXCEPT ![p] = Blank] \/ snap' = snap
  BY Zenon DEF MarkDispatched
<1>2. g \in Runners /\ pc[g] = "installed" /\ g # p
  BY <1>1 DEF Inv, TypeInv, Marks
<1>3. p \in Jobs => picks[p] = {}
  <2>1. p \in Jobs => runs[p] # None
    BY <1>1, <1>2 DEF Inv, RunInv, JobSteps
  <2> QED  BY <2>1 DEF Inv, CapInv, Reservations, Picking, RunningIds
<1>4. PICK to \in {"build", "closing", "idle", "restore", "over"} :
         /\ pc' = [pc EXCEPT ![g] = "starting", ![p] = to]
         /\ to = "build" => p \notin Jobs /\ snap' = snap
  <2>1. Returned(p, TRUE) \in {"closing", "idle", "restore", "over"}
    BY ReturnedType
  <2> QED  BY <1>3, <2>1 DEF MarkDispatched
<1> HIDE DEF g
<1>5. pc'[p] = to /\ pc'[g] = "starting" /\ \A q \in Procs \ {p, g} : pc'[q] = pc[q] /\ snap'[q] = snap[q]
  BY <1>1, <1>2, <1>4 DEF Inv, TypeInv, PcType, SnapType
<1>6. \A j \in Jobs \ {p} : pc'[j] = pc[j] /\ snap'[j] = snap[j]
  BY <1>2, <1>5
<1>7. ScopesStand' /\ RunsStand' /\ JobsSpeak' /\ Spread'
  BY <1>1, <1>4, <1>5, <1>6
     DEF ScopesStand, RunsStand, JobsSpeak, Spread, Taken, RunningIds, table
<1>8. TreesStand'
  <2>1. ASSUME NEW q \in Procs \ Jobs, NEW i \in Steps, pc'[q] \in {"decide", "build", "mark"}
        PROVE  snap'[q][i].scope = Scope0[i]
    <3>1. pc[q] \in {"decide", "build", "mark"} /\ snap'[q] = snap[q]
      BY <1>1, <1>4, <1>5, <2>1
    <3> QED  BY <3>1 DEF TreesStand
  <2>2. ASSUME NEW j \in Jobs, pc'[j] = "build" PROVE snap'[j][j].scope = Scope0[j]
    <3>1. j # p
      BY <1>4, <1>5, <2>2
    <3> QED  BY <1>6, <2>2, <3>1 DEF TreesStand
  <2> QED  BY <2>1, <2>2 DEF TreesStand
<1> QED  BY <1>7, <1>8

\* A job's own steps, up to its build.
LEMMA SpreadJobs ==
    ASSUME Inv, SpreadInv, NEW j \in Jobs, JobStep(j) PROVE SpreadInv'
<1> USE Apart DEF SpreadInv, Inv, TypeInv
<1>0. /\ UNCHANGED runs /\ UNCHANGED run
      /\ \A q \in Procs \ {j} : pc'[q] = pc[q] /\ snap'[q] = snap[q]
  BY DEF JobStep, JobReads, JobReserves, JobFiles, JobSwaps, JobRereads, JobUnstarted, Over,
         table, local, PcType, SnapType
<1>1. RunsStand' /\ \A i \in Steps : step'[i].scope = step[i].scope
  <2>1. \A i \in Steps : step'[i].scope = step[i].scope
    BY DEF JobStep, JobReads, JobReserves, JobFiles, JobSwaps, JobRereads, JobUnstarted, CloseAs,
           record, RecordType, Trees, StepRecs
  <2> QED  BY <1>0, <2>1 DEF RunsStand
<1>2. \A k \in Jobs \ {j} : step'[k].scope = step[k].scope
  BY DEF JobStep, JobReads, JobReserves, JobFiles, JobSwaps, JobRereads, JobUnstarted, CloseAs,
         record, RecordType, Trees, StepRecs
<1>3. CASE JobReads(j) \/ JobUnstarted(j)
  <2>1. UNCHANGED pending /\ UNCHANGED jobScopes /\ pc'[j] \in {"check", "over"}
    BY <1>3 DEF JobReads, JobUnstarted, Over, table, PcType
  <2> QED
    BY <1>0, <1>1, <1>2, <2>1
       DEF ScopesStand, TreesStand, JobsSpeak, Spread, Taken, RunningIds
<1>4. CASE JobReserves(j)
  <2>1. UNCHANGED pending /\ UNCHANGED step /\ pc[j] = "check"
        /\ \/ UNCHANGED jobScopes /\ pc'[j] = "over"
           \/ ~JobConflict(j) /\ jobScopes' = jobScopes \cup {j} /\ pc'[j] = "file"
    BY <1>4 DEF JobReserves, Over, record, PcType
  <2>2. ScopesStand' /\ TreesStand' /\ JobsSpeak'
    BY <1>0, <1>1, <1>2, <2>1 DEF ScopesStand, TreesStand, JobsSpeak
  <2>3. ASSUME ~JobConflict(j), NEW k \in Taken, Far(j, k) PROVE ~Overlap(Scope0[j], Scope0[k])
    <3>1. k \in Ids
      BY DEF Taken, RunningIds, TableType
    <3>2. CASE k \in Steps
      BY <2>3, <3>2 DEF JobsApart, Overlap, Far
    <3>3. CASE k \in jobScopes
      BY <2>3, <3>3 DEF JobConflict, JobScopeTaken
    <3>4. CASE k \in RunningIds
      BY <2>3, <3>4 DEF JobConflict, RunsStand, RunningIds
    <3>5. CASE k \in pending \cap Jobs
      BY <2>3, <3>5 DEF JobsSpeak, JobConflict, JobScopeTaken
    <3> QED  BY <3>1, <3>2, <3>3, <3>4, <3>5 DEF Taken, Ids
  <2>4. Spread'
    BY <1>0, <2>1, <2>3 DEF Spread, Taken, RunningIds, Overlap, Far
  <2> QED  BY <1>1, <2>2, <2>4
<1>5. CASE JobFiles(j)
  <2>1. pc[j] = "file" /\ UNCHANGED pending /\ UNCHANGED snap
        /\ \/ jobScopes' = jobScopes \ {j} /\ pc'[j] = "over"
           \/ UNCHANGED jobScopes /\ pc'[j] = "filed" /\ step'[j].scope = Scope0[j]
    BY <1>5 DEF JobFiles, Over, PcType, RecordType, Trees, local
  <2>2. j \notin pending
    BY <2>1 DEF CapInv, Reservations, Picking, Holding
  <2>3. ScopesStand' /\ TreesStand' /\ JobsSpeak'
    BY <1>0, <1>1, <1>2, <2>1, <2>2 DEF ScopesStand, TreesStand, JobsSpeak
  <2>4. Taken' \subseteq Taken
    BY <1>0, <2>1 DEF Taken, RunningIds
  <2> QED  BY <1>1, <2>3, <2>4 DEF Spread
<1>6. CASE JobSwaps(j)
  <2>1. pc[j] = "filed" /\ pending' = pending \cup {j} /\ UNCHANGED jobScopes /\ UNCHANGED snap
        /\ UNCHANGED step /\ pc'[j] = "reread" /\ j \in jobScopes
    BY <1>6 DEF JobSwaps, PcType, record, JobsSpeak
  <2>2. ScopesStand' /\ TreesStand' /\ JobsSpeak'
    BY <1>0, <1>1, <1>2, <2>1 DEF ScopesStand, TreesStand, JobsSpeak
  <2>3. Taken' \subseteq Taken
    BY <1>0, <2>1 DEF Taken, RunningIds
  <2> QED  BY <1>1, <2>2, <2>3 DEF Spread
<1>7. CASE JobRereads(j)
  <2>1. pc[j] = "reread" /\ UNCHANGED pending /\ UNCHANGED jobScopes /\ snap'[j] = step
        /\ UNCHANGED step /\ pc'[j] = "build"
    BY <1>7 DEF JobRereads, PcType, record, table, SnapType
  <2> QED
    BY <1>0, <1>1, <1>2, <2>1
       DEF ScopesStand, TreesStand, JobsSpeak, Spread, Taken, RunningIds
<1> QED  BY <1>3, <1>4, <1>5, <1>6, <1>7 DEF JobStep

LEMMA StepScopes ==
    ASSUME TypeInv,
           \/ UNCHANGED step
           \/ \E i \in Ids, v \in Owners \cup {None} : step' = [step EXCEPT ![i].owner = v]
           \/ \E i \in Ids, v \in Statuses : step' = [step EXCEPT ![i].status = v]
    PROVE  \A i \in Ids : step'[i].scope = step[i].scope
  BY DEF TypeInv, RecordType, Trees, StepRecs

\* A goroutine's own steps.
LEMMA RunSpread ==
    ASSUME Inv, NEW g \in Runners, RunStep(g) PROVE ScopeFrame
<1> USE Apart DEF Inv, TypeInv
<1>1. UNCHANGED pending /\ UNCHANGED jobScopes /\ UNCHANGED snap
  BY DEF RunStep, RunEnds, Consent, AskMain, Answered, AskTimesOut, Settle, CloseStep,
         RemoveRun, Finish, table, local
<1>2. \A i \in Ids : step'[i].scope = step[i].scope
  <2>1. UNCHANGED step \/ CloseStep(g)
    BY DEF RunStep, RunEnds, Consent, AskMain, Answered, AskTimesOut, Settle, RemoveRun, Finish, record
  <2> QED  BY <2>1 DEF CloseStep, CloseAs, RecordType, Trees, StepRecs
<1>3. \A p \in Procs : pc'[p] \in {"decide", "build", "mark", "file", "filed", "reread"} => pc'[p] = pc[p]
  BY DEF RunStep, RunEnds, Consent, AskMain, Answered, AskTimesOut, Settle, CloseStep,
         RemoveRun, Finish, Moves, PcType
<1>4. \A i \in Ids : runs'[i] # None =>
         runs'[i] = runs[i] /\ run'[runs[i]].scope = run[runs[i]].scope
  <2>1. CASE Finish(g)
    <3>1. \A i \in Ids : runs[i] # g
      BY <2>1 DEF Finish, RunInv, TableExact, Serving
    <3> QED  BY <2>1, <3>1 DEF Finish, table, RunType, TableType
  <2>2. CASE ~Finish(g)
    <3>1. \A h \in Runners : run'[h].scope = run[h].scope
      BY <2>2, RunCallers
    <3>2. \A i \in Ids : runs'[i] # None => runs'[i] = runs[i]
      BY <2>2 DEF RunStep, RunEnds, Consent, AskMain, Answered, AskTimesOut, Settle, CloseStep,
         RemoveRun, table, TableType
    <3> QED  BY <3>1, <3>2 DEF TableType
  <2> QED  BY <2>1, <2>2
<1> QED  BY <1>1, <1>2, <1>3, <1>4 DEF ScopeFrame

\* A caller's step, a lone one: only what it has read may change, when it
\* reads nothing to schedule by.
LEMMA AloneSpread ==
    ASSUME Inv, NEW p \in Callers, Alone(p), pc'[p] \notin {"decide", "build", "mark"},
           UNCHANGED table, WidenFrame, \A i \in Ids : step'[i].scope = step[i].scope
    PROVE  ScopeFrame
<1> USE Apart DEF Alone
<1>1. \A i \in Ids : runs[i] # None => runs[i] \in Runners /\ pc[runs[i]] # "free"
  BY DEF Inv, RunInv, TableExact, Serving, TypeInv, TableType
<1>2. \A j \in Jobs : pc'[j] = pc[j]
  OBVIOUS
<1> QED  BY <1>1, <1>2 DEF ScopeFrame, WidenFrame, table

LEMMA OtherSpread ==
    ASSUME Inv,
           \/ \E i \in Ids : ReplyAsk(i)
           \/ \E o \in Stoppable : StopOwner(o)
           \/ \E i \in Editable, s \in Statuses \ {"none"} : SetStatus(i, s)
           \/ UNCHANGED vars
    PROVE  ScopeFrame
<1> USE Apart
<1>1. UNCHANGED pc /\ UNCHANGED snap /\ UNCHANGED table
  BY DEF ReplyAsk, StopOwner, SetStatus, vars, local
<1>2. \A i \in Ids : step'[i].scope = step[i].scope
  <2>1. \/ UNCHANGED step
        \/ \E i \in Ids, v \in Statuses : step' = [step EXCEPT ![i].status = v]
    BY DEF ReplyAsk, StopOwner, SetStatus, Editable, vars, record
  <2> QED  BY <2>1, StepScopes DEF Inv
<1>3. \A g \in Runners : pc[g] # "free" => run'[g].scope = run[g].scope
  BY OtherFrames DEF WidenFrame
<1>4. \A i \in Ids : runs[i] # None => runs[i] \in Runners /\ pc[runs[i]] # "free"
  BY DEF Inv, RunInv, TableExact, Serving, TypeInv, TableType
<1> QED  BY <1>1, <1>2, <1>3, <1>4 DEF ScopeFrame, table

LEMMA CallerSpread ==
    ASSUME Inv,
           \/ \E s \in Schedulers : ScheduleSubAgents(s)
           \/ \E f \in Firers : FireBegins(f) \/ FireEnds(f)
           \/ \E a \in Assigners : AssignStep(a)
           \/ \E s \in Stoppers : StopStep(s)
           \/ \E t \in Gates : ResumeStep(t) \/ GateStep(t)
           \/ \E t \in Starters : StartClears(t) \/ StartRestores(t)
    PROVE  ScopeFrame
<1> USE Apart DEF Inv, TypeInv
<1>1. ASSUME NEW f \in Schedulers \cup Firers, FireBegins(f) \/ FireEnds(f) \/ ScheduleSubAgents(f)
      PROVE  ScopeFrame
  <2>1. f \in Callers
    OBVIOUS
  <2>2. /\ Alone(f) /\ WidenFrame
    BY <1>1, <2>1, FireAside, FireFrames
  <2>3. UNCHANGED step /\ UNCHANGED table /\ pc'[f] \in {"call", "firing"}
    BY <1>1, <2>1 DEF FireBegins, FireEnds, ScheduleSubAgents, Moves, record, PcType
  <2> QED  BY <2>1, <2>2, <2>3, AloneSpread
<1>2. ASSUME NEW a \in Assigners, AssignStep(a) PROVE ScopeFrame
  <2>1. Alone(a) /\ WidenFrame
    BY <1>2, AssignAside, AssignFrames
  <2>2. UNCHANGED table /\ pc'[a] \notin {"decide", "build", "mark"}
    BY <1>2 DEF AssignStep, AssignChecks, AssignRewrites, AssignReleases, PcType
  <2>3. \/ UNCHANGED step
        \/ \E i \in Ids, v \in Owners \cup {None} : step' = [step EXCEPT ![i].owner = v]
    <3>1. CASE AssignRewrites(a)
      <4>1. arg[a].id \in Ids /\ arg[a].owner \in Owners \cup {None}
        BY <3>1 DEF AssignRewrites, Targets, Changing, ArgType, ArgRecs
      <4> QED  BY <3>1, <4>1 DEF AssignRewrites
    <3> QED  BY <1>2, <3>1 DEF AssignStep, AssignChecks, AssignReleases, record
  <2> QED  BY <2>1, <2>2, <2>3, AloneSpread, StepScopes
<1>3. ASSUME NEW s \in Stoppers, StopStep(s) PROVE ScopeFrame
  <2>1. Alone(s) /\ WidenFrame
    BY <1>3, StopperFrames
  <2>2. UNCHANGED step /\ UNCHANGED table /\ pc'[s] \in {"draining", "stopped", "idle"}
    BY <1>3 DEF StopStep, StopAll, StopReturns, EnableSubAgents, Moves, PcType, record
  <2> QED  BY <2>1, <2>2, AloneSpread
<1>4. ASSUME NEW t \in Gates, ResumeStep(t) \/ GateStep(t) PROVE ScopeFrame
  <2>1. Alone(t) /\ WidenFrame
    BY <1>4, GateFrames
  <2>2. UNCHANGED table /\ pc'[t] \notin {"decide", "build", "mark"}
    BY <1>4 DEF ResumeStep, GateStep, ResumeReads, ResumeChecks, ResumeCloses, ResumeDone,
       GateReads, GateAsks, GateAnswered, Moves, PcType
  <2>3. \A i \in Ids : step'[i].scope = step[i].scope
    <3>1. CASE \E j \in Jobs : ResumeCloses(t, j)
      BY <3>1 DEF ResumeCloses, CloseAs, RecordType, Trees, StepRecs
    <3>2. CASE UNCHANGED step
      BY <3>2
    <3> QED  BY <1>4, <3>1, <3>2 DEF ResumeStep, GateStep, ResumeReads, ResumeChecks, ResumeDone,
       GateReads, GateAsks, GateAnswered, record
  <2> QED  BY <2>1, <2>2, <2>3, AloneSpread
<1>5. ASSUME NEW t \in Starters, StartClears(t) \/ StartRestores(t) PROVE ScopeFrame
  <2>1. Alone(t) /\ WidenFrame
    BY <1>5, StarterFrames
  <2>2. UNCHANGED step /\ UNCHANGED table /\ pc'[t] \in {"call", "idle"}
    BY <1>5 DEF StartClears, StartRestores, Moves, PcType, record
  <2> QED  BY <2>1, <2>2, AloneSpread
<1> QED  BY <1>1, <1>2, <1>3, <1>4, <1>5

LEMMA SpreadCrash ==
    ASSUME SpreadInv, Crash PROVE SpreadInv'
<1> USE Apart DEF SpreadInv, Crash
<1>1. \A p \in Procs : pc'[p] \in {"free", "lost", "idle"}
  OBVIOUS
<1>2. ScopesStand' /\ TreesStand'
  BY <1>1 DEF ScopesStand, TreesStand
<1>3. RunsStand' /\ JobsSpeak' /\ Spread'
  BY <1>1 DEF RunsStand, JobsSpeak, Spread, Taken, RunningIds
<1> QED  BY <1>2, <1>3

LEMMA SpreadStep ==
    ASSUME Inv, SpreadInv, Scopers = {}, [Next]_vars PROVE SpreadInv'
<1>1. CASE \E p \in Procs : ScheduleStep(p)
  BY <1>1, SpreadReads, SpreadReserves, SpreadGivesBack, SpreadInstalls, SpreadMarks
     DEF ScheduleStep
<1>2. CASE \E j \in Jobs : JobStep(j)
  BY <1>2, SpreadJobs
<1>3. CASE \E g \in Runners : RunStep(g)
  BY <1>3, RunSpread, SpreadKept
<1>4. CASE Crash
  BY <1>4, SpreadCrash
<1> QED
  BY <1>1, <1>2, <1>3, <1>4, OtherSpread, CallerSpread, SpreadKept, Zenon DEF Next

LEMMA SpreadFirst == Init => SpreadInv
<1> SUFFICES ASSUME Init PROVE SpreadInv
  OBVIOUS
<1> USE Apart DEF Init, Begin
<1>1. \A p \in Procs : pc[p] \in {"call", "free", "over", "idle"}
  OBVIOUS
<1>2. ScopesStand /\ TreesStand
  BY <1>1 DEF ScopesStand, TreesStand
<1>3. RunsStand /\ JobsSpeak /\ Spread
  BY <1>1 DEF RunsStand, JobsSpeak, Spread, Taken, RunningIds
<1> QED  BY <1>2, <1>3 DEF SpreadInv

\* Two standing steps that run never share a path, nor do two jobs (schedules
\* compare with what runs and what is reserved, jobs with each other), where
\* no scope is changed: SetScope looks at steps that are marked, not at those
\* reserved.
THEOREM LikeRunsApart ==
    ASSUME Scopers = {} PROVE Spec => []NoOverlapOfSteps
<1>1. Inv /\ SpreadInv /\ [Next]_vars => SpreadInv'
  BY SpreadStep
<1>2. SpreadInv => NoOverlapOfSteps
  BY DEF SpreadInv, Spread, Taken, RunsStand, RunningIds, NoOverlapOfSteps, Far
<1> QED  BY <1>1, <1>2, SpreadFirst, InvHolds, PTL DEF Spec

\* Two runs of any kind never share a path, where besides no job shares one
\* with a standing step: a job passes its check while a schedule that read
\* the tree earlier starts a step beside it.
THEOREM RunsApart ==
    ASSUME JobsApart, Scopers = {} PROVE Spec => []NoOverlap
<1>1. Inv /\ SpreadInv /\ [Next]_vars => SpreadInv'
  BY SpreadStep
<1>2. SpreadInv => NoOverlap
  BY DEF SpreadInv, Spread, Taken, RunsStand, RunningIds, NoOverlap, Far
<1> QED  BY <1>1, <1>2, SpreadFirst, InvHolds, PTL DEF Spec

-----------------------------------------------------------------------------
(* The ready step that somebody still looks at *)

\* A set of numbers that is not empty has a least one.
Smaller == {ss \in Nat \X Nat : ss[1] < ss[2]}
LEMMA Smallest ==
    ASSUME NEW S \in SUBSET Nat, S # {} PROVE \E x \in S : \A y \in S : x <= y
<1>1. IsWellFoundedOn(Smaller, Nat)
  BY NatLessThanWellFounded DEF OpToRel, Smaller
<1>2. PICK x \in S : \A y \in S : ~(<<y, x>> \in Smaller)
  BY <1>1, WFMin
<1>3. ASSUME NEW y \in S PROVE x <= y
  <2>1. <<y, x>> \in Nat \X Nat /\ ~(<<y, x>> \in Smaller)
    BY <1>2
  <2>2. ~(y < x)
    BY <2>1 DEF Smaller
  <2> QED  BY <2>1, <2>2
<1> QED  BY <1>3

\* The ready rule has one answer: two would differ first at some step, and
\* before it they are the same.
LEMMA ReadyOnce ==
    ASSUME NEW tree, NEW running, NEW R \in SUBSET Steps, NEW Q \in SUBSET Steps,
           IsReady(R, tree, running), IsReady(Q, tree, running)
    PROVE  R = Q
<1> DEFINE D == (R \ Q) \cup (Q \ R)
<1> SUFFICES ASSUME D # {} PROVE FALSE
  OBVIOUS
<1>1. D \in SUBSET Nat
  BY SubAgentsAssumption DEF Ids
<1>2. PICK m \in D : \A y \in D : m <= y
  BY <1>1, Smallest
<1>3. \A j \in R \cup Q : j < m => j \notin D
  <2> SUFFICES ASSUME NEW j \in R \cup Q, j < m, j \in D PROVE FALSE
    OBVIOUS
  <2>1. m \in Nat /\ j \in Nat /\ m <= j
    BY <1>1, <1>2
  <2> QED  BY <2>1
<1>4. {j \in R : j < m} = {j \in Q : j < m}
  BY <1>3
<1>5. m \in R <=> m \in Q
  BY <1>4 DEF IsReady
<1> QED  BY <1>2, <1>5

\* It looks at nothing but the steps.
SameSteps(a, b) == \A i \in Steps : a[i] = b[i]
LEMMA ReadySame ==
    ASSUME NEW a, NEW b, SameSteps(a, b), NEW R \in SUBSET Steps, IsReady(R, a, {})
    PROVE  IsReady(R, b, {})
<1>1. Eligible(a, {}) = Eligible(b, {})
  <2>1. \A i \in Steps : After[i] \subseteq Steps
    BY SubAgentsAssumption
  <2> QED  BY <2>1 DEF Eligible, SameSteps
<1>2. \A i \in Eligible(a, {}) : \A k \in {j \in R : j < i} :
         a[i].scope = b[i].scope /\ a[k].scope = b[k].scope
  BY DEF Eligible, SameSteps
<1> QED  BY <1>1, <1>2 DEF IsReady

\* Where a caller is when it will still read the tree, or bring about a
\* schedule by somebody else.
DuePhases == Serving \cup {"call", "build", "mark", "file", "filed", "reread", "firing",
    "await", "assign", "release", "apply", "answer",
    "resume", "orphans", "startup", "gate", "question"}
Due(p) ==
    \/ pc[p] \in DuePhases
    \/ p \in Gates /\ pc[p] = "idle"
    \/ pc[p] = "decide" /\ SameSteps(snap[p], step)
SomebodyDue == \E p \in Procs : Due(p)
\* What is ready is what was declined.
OnlyDeclined == \A R \in SUBSET Steps :
    IsReady(R, step, {}) => \A i \in R : declined /\ i \notin allowed

\* Whatever keeps a schedule from starting a step has somebody behind it who
\* is due: the turn of an event, a dispatch in the making, a hold.
FiredHeard == fired => \E f \in Firers : pc[f] = "firing"
ScopesHeard == \A j \in jobScopes : pc[j] \in {"file", "filed"} \/ j \in pending
HoldsHeard == \A i \in hold :
    /\ \E a \in Assigners : arg[a].id = i /\ pc[a] \in {"await", "assign", "release"}
    /\ runs[i] # None => \E a \in Assigners : arg[a].id = i /\ pc[a] = "await" /\ arg[a].on = runs[i]
AllowsLate == \A a \in Assigners : pc[a] \in {"await", "assign", "giveup"} => ~arg[a].any
Unstopped == ~stopping
LookInv ==
    /\ Unstopped /\ FiredHeard /\ ScopesHeard /\ HoldsHeard /\ AllowsLate
    /\ SomebodyDue \/ OnlyDeclined

\* The session and the program this is shown of.
Undisturbed ==
    /\ {"panic", "edit", "hasty"} \cap May = {}
    /\ Stoppers = {} /\ Outsiders = {} /\ AtMostOne(Starters)
    /\ MaxConcurrent # 0 /\ Gates # {}

\* Where nobody is due but one who decides, nothing keeps it from starting
\* a step.
LEMMA NobodyElseDue ==
    ASSUME Inv, LookInv, NEW p, pc[p] = "decide", \A q \in Procs \ {p} : ~Due(q)
    PROVE  /\ RunningIds = {} /\ pending = {} /\ slots = {} /\ jobScopes = {}
           /\ hold = {} /\ ~fired
<1> USE Apart DEF Inv, TypeInv, TableType
<1>1. \A q \in Procs : pc[q] \notin DuePhases
  BY DEF Due, DuePhases, Serving
<1> USE <1>1 DEF DuePhases
<1>2. RunningIds = {}
  BY DEF RunInv, TableExact, RunningIds
<1>3. pending = {}
  BY DEF CapInv, Reservations, Picking, Holding
<1>4. slots = {}
  BY DEF RunInv, JobSteps
<1>5. jobScopes = {}
  BY <1>3 DEF LookInv, ScopesHeard
<1>6. hold = {}
  BY DEF LookInv, HoldsHeard
<1>7. ~fired
  BY DEF LookInv, FiredHeard
<1> QED  BY <1>2, <1>3, <1>4, <1>5, <1>6, <1>7

-----------------------------------------------------------------------------
(* What the steps leave of it *)

LEMMA StillDue ==
    ASSUME NEW q \in Procs, Due(q), pc'[q] = pc[q], snap'[q] = snap[q], SameSteps(step, step')
    PROVE  Due(q)'
  BY DEF Due, SameSteps

LEMMA DeclinedKept ==
    ASSUME OnlyDeclined, SameSteps(step, step'), UNCHANGED gate PROVE OnlyDeclined'
<1> SUFFICES ASSUME NEW R \in SUBSET Steps, IsReady(R, step', {}), NEW i \in R
             PROVE  declined' /\ i \notin allowed'
  BY DEF OnlyDeclined
<1>1. IsReady(R, step, {})
  <2>1. SameSteps(step', step)
    BY DEF SameSteps
  <2> QED  BY <2>1, ReadySame
<1> QED  BY <1>1 DEF OnlyDeclined, gate

\* Only p moves, and the steps stay as they are.
LEMMA AloneLook ==
    ASSUME SomebodyDue \/ OnlyDeclined, NEW p \in Procs,
           \A q \in Procs \ {p} : pc'[q] = pc[q] /\ snap'[q] = snap[q],
           SameSteps(step, step'), UNCHANGED gate, ~Due(p)
    PROVE  (SomebodyDue \/ OnlyDeclined)'
<1>1. CASE SomebodyDue
  <2>1. PICK q \in Procs : Due(q)
    BY <1>1 DEF SomebodyDue
  <2>2. Due(q)'
    BY <2>1, StillDue
  <2> QED  BY <2>2 DEF SomebodyDue
<1>2. CASE OnlyDeclined
  BY <1>2, DeclinedKept
<1> QED  BY <1>1, <1>2

LEMMA ComesDue ==
    ASSUME NEW p \in Procs, pc'[p] \in DuePhases PROVE SomebodyDue'
  BY DEF SomebodyDue, Due

LEMMA HoldsKept ==
    ASSUME Inv, HoldsHeard, AllowsLate, HeldFrame PROVE HoldsHeard' /\ AllowsLate'
<1> USE DEF HeldFrame
<1>1. \A a \in Assigners : pc[a] \in Assigning \/ pc'[a] \in Assigning => pc'[a] = pc[a] /\ arg'[a] = arg[a]
  BY DEF Keeps
<1>2. \A i \in hold : i \in Ids /\ (runs'[i] # None => runs'[i] = runs[i])
  BY DEF RunsGuarded, Inv, TypeInv, TableType
<1>3. HoldsHeard'
  <2> SUFFICES ASSUME NEW i \in hold
               PROVE  /\ \E a \in Assigners : arg'[a].id = i /\ pc'[a] \in {"await", "assign", "release"}
                      /\ runs'[i] # None => \E a \in Assigners :
                            arg'[a].id = i /\ pc'[a] = "await" /\ arg'[a].on = runs'[i]
    BY DEF HoldsHeard
  <2>1. PICK a \in Assigners : arg[a].id = i /\ pc[a] \in {"await", "assign", "release"}
    BY DEF HoldsHeard
  <2>2. arg'[a].id = i /\ pc'[a] \in {"await", "assign", "release"}
    BY <1>1, <2>1 DEF Assigning
  <2>3. ASSUME runs'[i] # None
        PROVE  \E b \in Assigners : arg'[b].id = i /\ pc'[b] = "await" /\ arg'[b].on = runs'[i]
    <3>1. runs[i] # None /\ runs'[i] = runs[i]
      BY <1>2, <2>3
    <3>2. PICK b \in Assigners : arg[b].id = i /\ pc[b] = "await" /\ arg[b].on = runs[i]
      BY <3>1 DEF HoldsHeard
    <3> QED  BY <1>1, <3>1, <3>2 DEF Assigning
  <2> QED  BY <2>2, <2>3
<1>4. AllowsLate'
  BY <1>1 DEF AllowsLate, Assigning
<1> QED  BY <1>3, <1>4

\* What steps that are no schedule's and no job's leave alone.
LookFrame ==
    /\ UNCHANGED fired /\ \A f \in Firers : pc[f] = "firing" => pc'[f] = "firing"
    /\ UNCHANGED pending /\ UNCHANGED jobScopes /\ \A j \in Jobs : pc'[j] = pc[j]
LEMMA LookKept ==
    ASSUME Inv, LookInv, LookFrame, StopFrame, HeldFrame, (SomebodyDue \/ OnlyDeclined)'
    PROVE  LookInv'
<1>1. Unstopped' /\ FiredHeard' /\ ScopesHeard'
  BY DEF LookInv, LookFrame, StopFrame, Unstopped, FiredHeard, ScopesHeard, Inv, TypeInv, TableType
<1> QED  BY <1>1, HoldsKept DEF LookInv

LEMMA AloneFrame ==
    ASSUME NEW p \in Callers, Alone(p), pc[p] # "firing", UNCHANGED fired, UNCHANGED table
    PROVE  LookFrame
<1> USE Apart
<1>1. \A q \in Procs \ {p} : pc'[q] = pc[q]
  BY DEF Alone
<1>2. \A j \in Jobs : j \in Procs \ {p}
  OBVIOUS
<1>3. \A f \in Firers : f \in Procs
  OBVIOUS
<1> QED  BY <1>1, <1>2, <1>3 DEF LookFrame, table

-----------------------------------------------------------------------------
(* Step by step *)

LEMMA LookReads ==
    ASSUME Inv, LookInv, NEW p \in Procs, ReadTree(p) PROVE LookInv'
<1> USE DEF Inv, TypeInv, PcType, SnapType
<1>1. /\ pc[p] = "call" /\ pc' = [pc EXCEPT ![p] = "decide"] /\ snap' = [snap EXCEPT ![p] = step]
      /\ UNCHANGED fired /\ UNCHANGED step /\ UNCHANGED table
  BY DEF ReadTree, record
<1>2. p \notin Jobs
  BY <1>1 DEF CapInv, JobPlaces, JobPhases
<1>3. LookFrame
  BY <1>1, <1>2, Apart DEF LookFrame, table
<1>4. SomebodyDue'
  <2>1. pc'[p] = "decide" /\ SameSteps(snap'[p], step')
    BY <1>1 DEF SameSteps
  <2> QED  BY <2>1 DEF SomebodyDue, Due
<1>5. HeldFrame /\ StopFrame
  BY ScheduleFrames DEF ScheduleStep
<1> QED  BY <1>3, <1>4, <1>5, LookKept

\* Nobody else is due, and the tree it read is the one that stands: then what
\* it takes nothing of is what was declined.
LEMMA DecidesAll ==
    ASSUME Inv, LookInv, MaxConcurrent # 0, NEW p \in Procs,
           NEW R \in SUBSET Steps, IsReady(R, snap[p], RunningIds \cup pending),
           Picks(p, R, {}), SameSteps(snap[p], step),
           RunningIds = {}, pending = {}, slots = {}, jobScopes = {}, hold = {}, ~fired
    PROVE  OnlyDeclined
<1>1. IsReady(R, step, {})
  <2>1. IsReady(R, snap[p], {})
    BY DEF RunningIds
  <2> QED  BY <2>1, ReadySame
<1> DEFINE startable == {i \in R : /\ i \notin hold
                                   /\ ~JobScopeTaken(snap[p][i].scope)
                                   /\ declined => i \in allowed}
<1>2. {} # startable => Cardinality({}) + Load = MaxConcurrent
  BY DEF Picks, LookInv, Unstopped
<1>3. Cardinality({}) + Load = 0
  BY FS_EmptySet DEF Load
<1>4. startable = {}
  BY <1>2, <1>3
<1>5. \A i \in R : declined /\ i \notin allowed
  BY <1>4 DEF JobScopeTaken
<1> QED  BY <1>1, <1>5, ReadyOnce DEF OnlyDeclined

LEMMA LookReserves ==
    ASSUME Inv, LookInv, MaxConcurrent # 0, NEW p \in Procs, Reserve(p) PROVE LookInv'
<1> USE DEF Inv, TypeInv, PcType, SnapType
<1>1. PICK R \in SUBSET Steps : /\ IsReady(R, snap[p], RunningIds \cup pending)
                                /\ \E S \in SUBSET R : Picks(p, R, S)
  BY DEF Reserve
<1>2. PICK S \in SUBSET R : Picks(p, R, S)
  BY <1>1
<1>3. PICK to \in {"closing", "idle", "restore", "over", "build"} :
         /\ pc' = [pc EXCEPT ![p] = to]
         /\ IF to = "build" THEN UNCHANGED snap ELSE snap' = [snap EXCEPT ![p] = Blank]
         /\ S # {} => to = "build"
  BY <1>2, ReturnedType DEF Picks
<1>4. /\ pc[p] = "decide" /\ pending' = pending \cup S
      /\ UNCHANGED step /\ UNCHANGED jobScopes /\ UNCHANGED fired /\ UNCHANGED gate
  BY <1>2, Zenon DEF Reserve, Picks, record
<1>5. p \notin Jobs
  BY <1>4 DEF CapInv, JobPlaces, JobPhases
<1>6. \A q \in Procs \ {p} : pc'[q] = pc[q] /\ snap'[q] = snap[q]
  BY <1>3
<1>7. FiredHeard' /\ ScopesHeard'
  <2>1. \A j \in Jobs : pc'[j] = pc[j]
    BY <1>5, <1>6, Apart
  <2>2. \A f \in Firers : pc[f] = "firing" => pc'[f] = "firing"
    BY <1>4, <1>6, Apart
  <2> QED  BY <1>4, <2>1, <2>2 DEF LookInv, FiredHeard, ScopesHeard, TableType
<1>8. HeldFrame /\ StopFrame
  BY ScheduleFrames DEF ScheduleStep
<1>9. Unstopped' /\ HoldsHeard' /\ AllowsLate'
  BY <1>8, HoldsKept DEF LookInv, StopFrame, Unstopped
<1>10. (SomebodyDue \/ OnlyDeclined)'
  <2>0. SameSteps(step, step')
    BY <1>4 DEF SameSteps
  <2>1. CASE to = "build"
    BY <1>3, <2>1, ComesDue DEF DuePhases
  <2>2. CASE ~Due(p)
    BY <1>4, <1>6, <2>0, <2>2, AloneLook DEF LookInv
  <2>3. CASE OnlyDeclined
    BY <1>4, <2>0, <2>3, DeclinedKept
  <2>4. CASE \E q \in Procs \ {p} : Due(q)
    BY <1>6, <2>0, <2>4, StillDue DEF SomebodyDue
  <2>5. CASE to # "build" /\ Due(p) /\ ~OnlyDeclined /\ \A q \in Procs \ {p} : ~Due(q)
    <3>1. S = {} /\ SameSteps(snap[p], step)
      BY <1>3, <1>4, <2>5 DEF Due, DuePhases, Serving
    <3>2. /\ RunningIds = {} /\ pending = {} /\ slots = {} /\ jobScopes = {}
          /\ hold = {} /\ ~fired
      BY <1>4, <2>5, NobodyElseDue
    <3> QED  BY <1>1, <1>2, <2>5, <3>1, <3>2, DecidesAll
  <2> QED  BY <2>1, <2>2, <2>3, <2>4, <2>5
<1> QED  BY <1>7, <1>9, <1>10 DEF LookInv

LEMMA LookGivesBack ==
    ASSUME Inv, LookInv, "panic" \notin May, NEW p \in Procs, NEW i \in Ids, GiveBack(p, i)
    PROVE  LookInv'
<1> USE DEF Inv, TypeInv, PcType, TableType
<1>1. /\ pc[p] = "build" /\ i \in picks[p] /\ (i \in hold \/ fired)
      /\ pending' = pending \ {i} /\ jobScopes' = jobScopes \ {i} /\ UNCHANGED fired
      /\ UNCHANGED hold
  BY Zenon DEF GiveBack, Building, Unreserve, Continue, LookInv, Unstopped
<1>2. PICK to \in {"unstarted", "closing", "idle", "restore", "over", "build"} :
         pc' = [pc EXCEPT ![p] = to]
  <2>1. Returned(p, arg[p].any) \in {"closing", "idle", "restore", "over"}
    BY ReturnedType
  <2> QED  BY <2>1 DEF GiveBack, Continue
<1>3. \A q \in Procs \ {p} : pc'[q] = pc[q]
  BY <1>2
<1>4. FiredHeard'
  BY <1>1, <1>3, Apart DEF LookInv, FiredHeard
<1>5. ScopesHeard'
  <2>1. \A j \in Jobs : j = i => p = j
    BY <1>1, Apart DEF CapInv, Picking
  <2> QED  BY <1>1, <1>3, <2>1, Apart DEF LookInv, ScopesHeard
<1>6. HeldFrame /\ StopFrame
  BY ScheduleFrames DEF ScheduleStep
<1>7. Unstopped' /\ HoldsHeard' /\ AllowsLate'
  BY <1>6, HoldsKept DEF LookInv, StopFrame, Unstopped
<1>8. SomebodyDue'
  <2>1. CASE fired
    <3>1. PICK f \in Firers : pc'[f] = "firing"
      BY <1>1, <1>4, <2>1 DEF FiredHeard
    <3> QED  BY <3>1, ComesDue, Apart DEF DuePhases
  <2>2. CASE i \in hold
    <3>1. PICK a \in Assigners : pc'[a] \in {"await", "assign", "release"}
      BY <1>1, <1>7, <2>2 DEF HoldsHeard
    <3> QED  BY <3>1, ComesDue, Apart DEF DuePhases
  <2> QED  BY <1>1, <2>1, <2>2
<1> QED  BY <1>4, <1>5, <1>7, <1>8 DEF LookInv

LEMMA LookInstalls ==
    ASSUME Inv, LookInv, NEW p \in Procs, NEW i \in Ids, NEW g \in Runners, Install(p, i, g)
    PROVE  LookInv'
<1> USE DEF Inv, TypeInv, PcType, TableType
<1>1. /\ pc[p] = "build" /\ pc[g] = "free" /\ i \in picks[p]
      /\ pending' = pending \ {i} /\ jobScopes' = jobScopes \ {i} /\ UNCHANGED fired
      /\ pc' = [pc EXCEPT ![p] = "mark", ![g] = "installed"]
  BY Zenon DEF Install, Building, Unreserve
<1>2. /\ pc'[p] = "mark" /\ \A q \in Procs \ {p, g} : pc'[q] = pc[q]
  BY <1>1
<1>3. FiredHeard'
  BY <1>1, <1>2, Apart DEF LookInv, FiredHeard
<1>4. ScopesHeard'
  <2>1. \A j \in Jobs : j = i => p = j
    BY <1>1, Apart DEF CapInv, Picking
  <2> QED  BY <1>1, <1>2, <2>1, Apart DEF LookInv, ScopesHeard
<1>5. HeldFrame /\ StopFrame
  BY ScheduleFrames DEF ScheduleStep
<1>6. Unstopped' /\ HoldsHeard' /\ AllowsLate'
  BY <1>5, HoldsKept DEF LookInv, StopFrame, Unstopped
<1>7. SomebodyDue'
  BY <1>2, ComesDue DEF DuePhases
<1> QED  BY <1>3, <1>4, <1>6, <1>7 DEF LookInv

LEMMA LookMarks ==
    ASSUME Inv, LookInv, NEW p \in Procs, MarkDispatched(p) PROVE LookInv'
<1> USE DEF Inv, TypeInv, PcType, TableType
<1> DEFINE g == arg[p].on
           to == IF picks[p] # {} THEN "build"
                 ELSE IF p \in Jobs THEN "over" ELSE Returned(p, TRUE)
<1>1. /\ pc[p] = "mark" /\ pc' = [pc EXCEPT ![g] = "starting", ![p] = to]
      /\ UNCHANGED table /\ UNCHANGED fired
  BY Zenon DEF MarkDispatched
<1>2. g \in Runners /\ pc[g] = "installed" /\ g # p
  BY <1>1 DEF Marks
<1> HIDE DEF g, to
<1>3. pc'[g] = "starting" /\ \A q \in Procs \ {p, g} : pc'[q] = pc[q]
  BY <1>1, <1>2, Apart
<1>4. FiredHeard'
  BY <1>1, <1>2, <1>3, Apart DEF LookInv, FiredHeard
<1>5. ScopesHeard'
  BY <1>1, <1>2, <1>3, Apart DEF LookInv, ScopesHeard, table
<1>6. HeldFrame /\ StopFrame
  BY ScheduleFrames DEF ScheduleStep
<1>7. Unstopped' /\ HoldsHeard' /\ AllowsLate'
  BY <1>6, HoldsKept DEF LookInv, StopFrame, Unstopped
<1>8. SomebodyDue'
  BY <1>2, <1>3, ComesDue, Apart DEF DuePhases, Serving
<1> QED  BY <1>4, <1>5, <1>7, <1>8 DEF LookInv

\* A job holds its place in the table until it is refused beside a run that
\* is marked, whose end is still to come, or is built.
LEMMA LookJobs ==
    ASSUME Inv, LookInv, NEW j \in Jobs, JobStep(j) PROVE LookInv'
<1> USE DEF Inv, TypeInv, PcType, SnapType, TableType
<1>1. /\ UNCHANGED fired /\ UNCHANGED gate /\ UNCHANGED runs
      /\ \A q \in Procs \ {j} : pc'[q] = pc[q] /\ snap'[q] = snap[q]
  BY DEF JobStep, JobReads, JobReserves, JobFiles, JobSwaps, JobRereads, JobUnstarted, Over,
         table, local
<1>2. HeldFrame /\ StopFrame
  BY JobFrames
<1>3. Unstopped' /\ HoldsHeard' /\ AllowsLate'
  BY <1>2, HoldsKept DEF LookInv, StopFrame, Unstopped
<1>4. FiredHeard'
  BY <1>1, Apart DEF LookInv, FiredHeard
<1>5. SameSteps(step, step')
  <2>1. \A i \in Steps : step'[i] = step[i]
    BY Apart DEF JobStep, JobReads, JobReserves, JobFiles, JobSwaps, JobRereads, JobUnstarted, CloseAs,
           record, RecordType, Trees
  <2> QED  BY <2>1 DEF SameSteps
<1>6. CASE pc[j] \in {"idle", "check", "unstarted"}
  <2>1. ScopesHeard'
    <3>1. \/ UNCHANGED jobScopes
          \/ jobScopes' = jobScopes \cup {j} /\ pc'[j] = "file"
      BY <1>6, Apart DEF JobStep, JobReads, JobReserves, JobFiles, JobSwaps, JobRereads, JobUnstarted, table
    <3>2. UNCHANGED pending
      BY <1>6 DEF JobStep, JobReads, JobReserves, JobFiles, JobSwaps, JobRereads, JobUnstarted, table
    <3> QED  BY <1>1, <1>6, <3>1, <3>2, Apart DEF LookInv, ScopesHeard
  <2>2. ~Due(j)
    BY <1>6, Apart DEF Due, DuePhases, Serving
  <2>3. (SomebodyDue \/ OnlyDeclined)'
    BY <1>1, <1>5, <2>2, AloneLook, Apart DEF LookInv
  <2> QED  BY <1>3, <1>4, <2>1, <2>3 DEF LookInv
<1>7. CASE JobFiles(j)
  <2>1. /\ pc[j] = "file" /\ UNCHANGED pending
        /\ \/ jobScopes' = jobScopes \ {j} /\ dispatched # {}
           \/ UNCHANGED jobScopes /\ pc'[j] = "filed"
    BY <1>7, Apart DEF JobFiles, Over
  <2>2. ScopesHeard'
    BY <1>1, <2>1, Apart DEF LookInv, ScopesHeard
  <2>3. CASE dispatched # {}
    <3>1. PICK i \in dispatched : runs[i] \in Runners /\ pc[runs[i]] \in Serving
      BY <2>3 DEF RunInv, MarksExact, Marked, Serving, RecordType
    <3>2. pc'[runs[i]] \in Serving
      BY <1>1, <3>1, Apart
    <3>3. SomebodyDue'
      BY <3>1, <3>2, ComesDue, Apart DEF DuePhases
    <3> QED  BY <1>3, <1>4, <2>2, <3>3 DEF LookInv
  <2>4. CASE pc'[j] = "filed"
    BY <1>3, <1>4, <2>2, <2>4, ComesDue, Apart DEF DuePhases, LookInv
  <2> QED  BY <2>1, <2>3, <2>4
<1>8. CASE JobSwaps(j) \/ JobRereads(j)
  <2>1. /\ UNCHANGED jobScopes
        /\ \/ pending' = pending \cup {j} /\ pc'[j] = "reread"
           \/ pc[j] = "reread" /\ UNCHANGED pending /\ pc'[j] = "build"
    BY <1>8, Apart DEF JobSwaps, JobRereads, table
  <2>2. ScopesHeard'
    BY <1>1, <2>1, Apart DEF LookInv, ScopesHeard
  <2> QED  BY <1>3, <1>4, <2>1, <2>2, ComesDue, Apart DEF DuePhases, LookInv
<1> QED  BY <1>6, <1>7, <1>8 DEF JobStep, JobReads, JobReserves, JobUnstarted

\* A goroutine's own steps leave it due, until its parting schedule.
LEMMA LookRuns ==
    ASSUME Inv, LookInv, NEW g \in Runners, RunStep(g), ~Finish(g) PROVE LookInv'
<1> USE Apart DEF Inv, TypeInv, PcType
<1>1. /\ pc'[g] \in Serving \cup {"call"}
      /\ \A q \in Procs \ {g} : pc'[q] = pc[q]
  BY DEF RunStep, RunEnds, Consent, AskMain, Answered, AskTimesOut, Settle, CloseStep, RemoveRun,
         Moves, Serving
<1>2. UNCHANGED fired /\ UNCHANGED pending /\ UNCHANGED jobScopes
  BY DEF RunStep, RunEnds, Consent, AskMain, Answered, AskTimesOut, Settle, CloseStep, RemoveRun, table
<1>3. LookFrame
  BY <1>1, <1>2 DEF LookFrame
<1>4. SomebodyDue'
  BY <1>1, ComesDue DEF DuePhases
<1> QED  BY <1>3, <1>4, RunFrames, LookKept

\* Its end moves on the assignments that wait for it, which stay due.
LEMMA LookFinishes ==
    ASSUME Inv, LookInv, NEW g \in Runners, Finish(g) PROVE LookInv'
<1> USE Apart DEF Inv, TypeInv, PcType
<1>1. /\ UNCHANGED table /\ UNCHANGED fired /\ UNCHANGED step /\ UNCHANGED snap
      /\ UNCHANGED hold /\ UNCHANGED gate
  BY DEF Finish, record
<1>2. \A q \in Procs \ {g} :
         \/ pc'[q] = pc[q]
         \/ q \in Assigners /\ pc[q] = "await" /\ arg[q].on = g /\ pc'[q] = "assign"
  BY DEF Finish
<1>3. \A a \in Assigners : arg'[a].id = arg[a].id /\ arg'[a].any = arg[a].any
                           /\ (arg[a].on # g => arg'[a].on = arg[a].on)
  BY FinishCallers
<1>4. \A i \in Ids : runs[i] # g
  BY FinishCallers DEF RunInv, TableExact, Serving, TableType
<1>5. LookFrame
  BY <1>1, <1>2, Roles DEF LookFrame, table
<1>6. Unstopped' /\ FiredHeard' /\ ScopesHeard'
  BY <1>5, FinishFrames DEF LookInv, LookFrame, StopFrame, Unstopped, FiredHeard, ScopesHeard, TableType
<1>7. AllowsLate'
  BY <1>2, <1>3 DEF LookInv, AllowsLate
<1>8. HoldsHeard'
  <2> SUFFICES ASSUME NEW i \in hold
               PROVE  /\ \E a \in Assigners : arg'[a].id = i /\ pc'[a] \in {"await", "assign", "release"}
                      /\ runs'[i] # None => \E a \in Assigners :
                            arg'[a].id = i /\ pc'[a] = "await" /\ arg'[a].on = runs'[i]
    BY <1>1 DEF HoldsHeard
  <2>1. PICK a \in Assigners : arg[a].id = i /\ pc[a] \in {"await", "assign", "release"}
    BY DEF LookInv, HoldsHeard
  <2>2. arg'[a].id = i /\ pc'[a] \in {"await", "assign", "release"}
    BY <1>2, <1>3, <2>1
  <2>3. ASSUME runs'[i] # None
        PROVE  \E b \in Assigners : arg'[b].id = i /\ pc'[b] = "await" /\ arg'[b].on = runs'[i]
    <3>1. runs[i] # None /\ runs'[i] = runs[i] /\ runs[i] # g
      BY <1>1, <1>4, <2>3 DEF table, TableType
    <3>2. PICK b \in Assigners : arg[b].id = i /\ pc[b] = "await" /\ arg[b].on = runs[i]
      BY <3>1 DEF LookInv, HoldsHeard
    <3> QED  BY <1>2, <1>3, <3>1, <3>2
  <2> QED  BY <2>2, <2>3
<1>9. (SomebodyDue \/ OnlyDeclined)'
  <2>1. SameSteps(step, step')
    BY <1>1 DEF SameSteps
  <2>2. ASSUME NEW q \in Procs, Due(q) PROVE SomebodyDue'
    <3>1. q # g
      BY <2>2 DEF Due, DuePhases, Serving, Finish
    <3>2. CASE pc'[q] = pc[q]
      BY <1>1, <2>1, <2>2, <3>2, StillDue DEF SomebodyDue
    <3>3. CASE pc'[q] = "assign"
      BY <3>3, ComesDue DEF DuePhases
    <3> QED  BY <1>2, <3>1, <3>2, <3>3
  <2>3. CASE OnlyDeclined
    BY <1>1, <2>1, <2>3, DeclinedKept
  <2> QED  BY <2>2, <2>3 DEF LookInv, SomebodyDue
<1> QED  BY <1>6, <1>7, <1>8, <1>9 DEF LookInv

LEMMA LookFires ==
    ASSUME Inv, LookInv, NEW f \in Schedulers \cup Firers,
           (f \in Firers /\ FireBegins(f)) \/ FireEnds(f) \/ ScheduleSubAgents(f)
    PROVE  LookInv'
<1> USE Apart DEF Inv, TypeInv, PcType
<1>1. HeldFrame /\ StopFrame /\ Alone(f)
  BY FireFrames, FireAside
<1>2. UNCHANGED pending /\ UNCHANGED jobScopes /\ pc'[f] \in {"firing", "call"}
  BY DEF FireBegins, FireEnds, ScheduleSubAgents, Moves, table
<1>3. ScopesHeard' /\ Unstopped' /\ HoldsHeard' /\ AllowsLate'
  <2>1. \A j \in Jobs : pc'[j] = pc[j]
    BY <1>1 DEF Alone
  <2> QED  BY <1>1, <1>2, <2>1, HoldsKept DEF LookInv, ScopesHeard, StopFrame, Unstopped, TableType
<1>4. FiredHeard'
  <2>1. CASE f \in Firers /\ FireBegins(f)
    BY <2>1 DEF FireBegins, Moves, FiredHeard
  <2>2. CASE FireEnds(f)
    BY <2>2 DEF FireEnds, FiredHeard
  <2>3. CASE ScheduleSubAgents(f)
    <3>1. pc[f] = "idle" /\ UNCHANGED fired
      BY <2>3 DEF ScheduleSubAgents
    <3> QED  BY <1>1, <3>1 DEF LookInv, FiredHeard, Alone
  <2> QED  BY <2>1, <2>2, <2>3
<1>5. SomebodyDue'
  BY <1>2, ComesDue DEF DuePhases
<1> QED  BY <1>3, <1>4, <1>5 DEF LookInv

LEMMA LookGates ==
    ASSUME Inv, LookInv, NEW t \in Gates, ResumeStep(t) \/ GateStep(t) PROVE LookInv'
<1> USE Apart DEF Inv, TypeInv, PcType
<1>1. HeldFrame /\ StopFrame /\ Alone(t)
  BY GateFrames
<1>2. UNCHANGED fired /\ UNCHANGED table /\ pc[t] # "firing"
      /\ pc'[t] \in {"resume", "orphans", "startup", "gate", "call", "question"}
  BY DEF ResumeStep, GateStep, ResumeReads, ResumeChecks, ResumeCloses, ResumeDone,
     GateReads, GateAsks, GateAnswered, Moves
<1>3. LookFrame
  BY <1>1, <1>2, AloneFrame
<1>4. SomebodyDue'
  BY <1>2, ComesDue DEF DuePhases
<1> QED  BY <1>1, <1>3, <1>4, LookKept

\* A start that found nothing puts back a decline that was not in force
\* meanwhile: nothing was ready that it would have kept from starting.
LEMMA LookStarts ==
    ASSUME Inv, LookInv, DeclineInv, NEW t \in Starters, StartClears(t) \/ StartRestores(t)
    PROVE  LookInv'
<1> USE Apart DEF Inv, TypeInv, PcType
<1>1. HeldFrame /\ StopFrame /\ Alone(t)
  BY StarterFrames
<1>2. /\ UNCHANGED fired /\ UNCHANGED table /\ UNCHANGED step /\ UNCHANGED snap
      /\ pc[t] \in {"idle", "restore"}
  BY DEF StartClears, StartRestores, Moves, record
<1>3. LookFrame
  BY <1>1, <1>2, AloneFrame
<1>4. SameSteps(step, step') /\ ~Due(t)
  BY <1>2, Roles DEF SameSteps, Due, DuePhases, Serving
<1>5. \A q \in Procs \ {t} : pc'[q] = pc[q] /\ snap'[q] = snap[q]
  BY <1>1 DEF Alone
<1>6. (SomebodyDue \/ OnlyDeclined)'
  <2>1. CASE StartClears(t) /\ fired
    <3>1. PICK f \in Firers : pc'[f] = "firing"
      BY <1>3, <2>1 DEF LookInv, FiredHeard, LookFrame
    <3> QED  BY <3>1, ComesDue DEF DuePhases
  <2>2. CASE StartClears(t) /\ ~fired
    BY <2>2, ComesDue DEF StartClears, Moves, DuePhases
  <2>3. CASE StartRestores(t) /\ SomebodyDue
    <3>1. PICK q \in Procs : Due(q)
      BY <2>3 DEF SomebodyDue
    <3> QED  BY <1>4, <1>5, <3>1, StillDue DEF SomebodyDue
  <2>4. CASE StartRestores(t) /\ OnlyDeclined
    <3>1. ~declined
      BY <2>4 DEF StartRestores, Moves, DeclineInv
    <3>2. \A R \in SUBSET Steps : IsReady(R, step', {}) => R = {}
      <4> SUFFICES ASSUME NEW R \in SUBSET Steps, IsReady(R, step', {}) PROVE R = {}
        OBVIOUS
      <4>1. IsReady(R, step, {})
        BY <1>2
      <4> QED  BY <2>4, <3>1, <4>1 DEF OnlyDeclined
    <3> QED  BY <3>2 DEF OnlyDeclined
  <2> QED  BY <2>1, <2>2, <2>3, <2>4 DEF LookInv
<1> QED  BY <1>1, <1>3, <1>6, LookKept

LEMMA LookScopes ==
    ASSUME Inv, LookInv, NEW c \in Scopers, ScopeStep(c) PROVE LookInv'
<1> USE Apart DEF Inv, TypeInv, PcType
<1>1. HeldFrame /\ StopFrame /\ Alone(c)
  BY ScopeFrames, ScopeAside
<1>2. UNCHANGED fired /\ UNCHANGED table /\ pc[c] # "firing"
  BY DEF ScopeStep, ScopeChecks, ScopeRewrites, ScopeApplies, ScopeAnswers, Moves
<1>3. LookFrame
  BY <1>1, <1>2, AloneFrame
<1>4. \/ pc'[c] \in {"apply", "answer", "call"}
      \/ pc[c] \in {"idle", "rescope"} /\ UNCHANGED step /\ UNCHANGED gate
  BY DEF ScopeStep, ScopeChecks, ScopeRewrites, ScopeApplies, ScopeAnswers, Moves, record
<1>5. (SomebodyDue \/ OnlyDeclined)'
  <2>1. CASE pc'[c] \in {"apply", "answer", "call"}
    BY <2>1, ComesDue DEF DuePhases
  <2>2. CASE pc[c] \in {"idle", "rescope"} /\ UNCHANGED step /\ UNCHANGED gate
    <3>1. ~Due(c) /\ SameSteps(step, step')
      BY <2>2, Roles DEF Due, DuePhases, Serving, SameSteps
    <3> QED  BY <1>1, <2>2, <3>1, AloneLook DEF LookInv, Alone
  <2> QED  BY <1>4, <2>1, <2>2
<1> QED  BY <1>1, <1>3, <1>5, LookKept

\* An assignment that gives up does so beside a run that is marked: its own
\* hold is gone by then, and if another's stands, that one is still waiting.
LEMMA LookAssigns ==
    ASSUME Inv, LookInv, Outsiders = {}, NEW a \in Assigners, AssignStep(a) PROVE LookInv'
<1> USE Apart DEF Inv, TypeInv, PcType, ArgType
<1>1. Alone(a) /\ StopFrame
  BY AssignAside, AssignFrames
<1>2. UNCHANGED fired /\ UNCHANGED table /\ pc[a] # "firing"
  BY DEF AssignStep, AssignChecks, AssignRewrites, AssignReleases
<1>3. LookFrame
  BY <1>1, <1>2, AloneFrame
<1>4. Unstopped' /\ FiredHeard' /\ ScopesHeard'
  BY <1>1, <1>3 DEF LookInv, LookFrame, StopFrame, Unstopped, FiredHeard, ScopesHeard, TableType
<1>5. \A b \in Assigners \ {a} : pc'[b] = pc[b] /\ arg'[b] = arg[b]
  BY <1>1 DEF Alone
<1>6. UNCHANGED runs
  BY <1>2 DEF table
<1>7. CASE \E i \in Steps, o \in Owners \cup {None} : AssignChecks(a, i, o)
  <2>1. PICK i \in Steps, o \in Owners \cup {None} : AssignChecks(a, i, o)
    BY <1>7
  <2>2. /\ pc[a] = "idle" /\ arg'[a].id = i /\ arg'[a].on = runs[i] /\ ~arg'[a].any
        /\ \/ pc'[a] = "assign" /\ UNCHANGED hold
           \/ pc'[a] = "await" /\ hold' = hold \cup {i}
    BY <2>1 DEF AssignChecks, NoArg
  <2>3. HoldsHeard'
    BY <1>5, <1>6, <2>2 DEF LookInv, HoldsHeard
  <2>4. AllowsLate'
    BY <1>5, <2>2 DEF LookInv, AllowsLate
  <2> QED  BY <1>4, <2>2, <2>3, <2>4, ComesDue DEF LookInv, DuePhases
<1>8. CASE AssignRewrites(a)
  <2>1. /\ pc[a] = "assign" /\ UNCHANGED hold
        /\ arg'[a].id = arg[a].id /\ arg'[a].on = arg[a].on
        /\ \/ pc'[a] = "release"
           \/ pc'[a] = "giveup" /\ UNCHANGED arg /\ arg[a].id \in dispatched
    BY <1>8 DEF AssignRewrites, ArgRecs
  <2>2. AllowsLate'
    BY <1>5, <2>1 DEF LookInv, AllowsLate
  <2>3. CASE pc'[a] = "release"
    <3>1. HoldsHeard'
      BY <1>5, <1>6, <2>1, <2>3 DEF LookInv, HoldsHeard
    <3> QED  BY <1>4, <2>2, <2>3, <3>1, ComesDue DEF LookInv, DuePhases
  <2>4. CASE pc'[a] = "giveup" /\ arg[a].id \in dispatched
    <3>1. runs[arg[a].id] \in Runners /\ pc[runs[arg[a].id]] \in Serving
      BY <2>4 DEF RunInv, MarksExact, Marked, Serving, RecordType, TableType
    <3>2. HoldsHeard'
      <4> SUFFICES ASSUME NEW i \in hold
                   PROVE  /\ \E b \in Assigners : arg'[b].id = i /\ pc'[b] \in {"await", "assign", "release"}
                          /\ runs[i] # None => \E b \in Assigners :
                                arg'[b].id = i /\ pc'[b] = "await" /\ arg'[b].on = runs[i]
        BY <1>6, <2>1 DEF HoldsHeard
      <4>1. runs[i] # None => \E b \in Assigners \ {a} :
               arg'[b].id = i /\ pc'[b] = "await" /\ arg'[b].on = runs[i]
        BY <1>5, <2>1 DEF LookInv, HoldsHeard
      <4>2. CASE i = arg[a].id
        BY <3>1, <4>1, <4>2
      <4>3. CASE i # arg[a].id
        BY <1>5, <4>1, <4>3 DEF LookInv, HoldsHeard
      <4> QED  BY <4>2, <4>3
    <3>3. SomebodyDue'
      <4>1. pc'[runs[arg[a].id]] \in Serving
        BY <1>1, <3>1 DEF Alone
      <4> QED  BY <3>1, <4>1, ComesDue DEF DuePhases
    <3> QED  BY <1>4, <2>2, <3>2, <3>3 DEF LookInv
  <2> QED  BY <2>1, <2>3, <2>4
<1>9. CASE AssignReleases(a)
  <2>1. /\ pc[a] \in {"release", "giveup"} /\ hold' = hold \ {arg[a].id}
        /\ pc'[a] = IF pc[a] = "release" THEN "call" ELSE "idle"
        /\ (arg[a].any \/ UNCHANGED gate)
        /\ UNCHANGED step
    BY <1>9 DEF AssignReleases, gate, record
  <2>2. HoldsHeard'
    BY <1>5, <1>6, <2>1 DEF LookInv, HoldsHeard
  <2>3. AllowsLate'
    BY <1>5, <2>1 DEF LookInv, AllowsLate
  <2>4. (SomebodyDue \/ OnlyDeclined)'
    <3>1. CASE pc[a] = "release"
      BY <2>1, <3>1, ComesDue DEF DuePhases
    <3>2. CASE pc[a] = "giveup"
      <4>1. UNCHANGED gate
        BY <2>1, <3>2 DEF LookInv, AllowsLate
      <4>2. ~Due(a) /\ SameSteps(step, step')
        BY <2>1, <3>2, Roles DEF Due, DuePhases, Serving, SameSteps
      <4> QED  BY <1>1, <4>1, <4>2, AloneLook DEF LookInv, Alone
    <3> QED  BY <2>1, <3>1, <3>2
  <2> QED  BY <1>4, <2>2, <2>3, <2>4 DEF LookInv
<1> QED  BY <1>7, <1>8, <1>9 DEF AssignStep

LEMMA LookOthers ==
    ASSUME Inv, LookInv,
           \/ \E i \in Ids : ReplyAsk(i)
           \/ \E o \in Stoppable : StopOwner(o)
           \/ UNCHANGED vars
    PROVE  LookInv'
<1>1. /\ UNCHANGED fired /\ UNCHANGED table /\ UNCHANGED pc /\ UNCHANGED snap
      /\ UNCHANGED step /\ UNCHANGED gate
  BY DEF ReplyAsk, StopOwner, vars, table, local, record, gate
<1>2. LookFrame
  BY <1>1 DEF LookFrame, table
<1>3. (SomebodyDue \/ OnlyDeclined)'
  <2>1. SameSteps(step, step')
    BY <1>1 DEF SameSteps
  <2> QED  BY <1>1, <2>1, StillDue, DeclinedKept DEF LookInv, SomebodyDue
<1> QED  BY <1>2, <1>3, OtherFrames, LookKept

LEMMA LookCrash ==
    ASSUME Gates # {}, Crash PROVE LookInv'
<1> USE Apart
<1>1. PICK t \in Gates : pc'[t] = "idle"
  BY DEF Crash
<1>2. SomebodyDue'
  BY <1>1 DEF SomebodyDue, Due
<1>3. \A a \in Assigners : pc'[a] = "idle"
  BY DEF Crash
<1> QED
  BY <1>2, <1>3 DEF Crash, LookInv, Unstopped, FiredHeard, ScopesHeard, HoldsHeard, AllowsLate

LEMMA LookInit == Init /\ Gates # {} => LookInv
<1> SUFFICES ASSUME Init, Gates # {} PROVE LookInv
  OBVIOUS
<1> USE Apart
<1>1. PICK t \in Gates : pc[t] \in {"call", "idle"}
  BY DEF Init, Begin
<1>2. SomebodyDue
  BY <1>1 DEF SomebodyDue, Due, DuePhases
<1>3. \A a \in Assigners : pc[a] \in {"call", "idle"}
  BY DEF Init, Begin
<1> QED
  BY <1>2, <1>3 DEF Init, Begin, LookInv, Unstopped, FiredHeard, ScopesHeard, HoldsHeard, AllowsLate

LEMMA LookStep ==
    ASSUME Undisturbed, Inv, DeclineInv, LookInv, [Next]_vars PROVE LookInv'
<1> USE DEF Undisturbed
<1>1. CASE \E p \in Procs : ScheduleStep(p)
  BY <1>1, LookReads, LookReserves, LookGivesBack, LookInstalls, LookMarks DEF ScheduleStep
<1>2. CASE \E j \in Jobs : JobStep(j)
  BY <1>2, LookJobs
<1>3. CASE \E g \in Runners : RunStep(g)
  BY <1>3, LookRuns, LookFinishes
<1>4. CASE \/ \E s \in Schedulers : ScheduleSubAgents(s)
           \/ \E f \in Firers : FireBegins(f) \/ FireEnds(f)
  BY <1>4, LookFires
<1>5. CASE \E a \in Assigners : AssignStep(a)
  BY <1>5, LookAssigns
<1>6. CASE \E c \in Scopers : ScopeStep(c)
  BY <1>6, LookScopes
<1>7. CASE \E t \in Gates : ResumeStep(t) \/ GateStep(t)
  BY <1>7, LookGates
<1>8. CASE \E t \in Starters : StartClears(t) \/ StartRestores(t)
  BY <1>8, LookStarts
<1>9. CASE Crash
  BY <1>9, LookCrash
<1>10. CASE \/ \E i \in Ids : ReplyAsk(i)
            \/ \E o \in Stoppable : StopOwner(o)
            \/ UNCHANGED vars
  BY <1>10, LookOthers
<1>11. ~(\E i \in Editable, s \in Statuses \ {"none"} : SetStatus(i, s)) /\ ~(\E s \in Stoppers : StopStep(s))
  BY DEF Editable
<1> QED
  BY <1>1, <1>2, <1>3, <1>4, <1>5, <1>6, <1>7, <1>8, <1>9, <1>10, <1>11, Zenon DEF Next

LEMMA LookEnds == Inv /\ LookInv => NoneForgotten
<1> SUFFICES ASSUME Inv, LookInv, Quiet PROVE OnlyDeclined
  BY DEF NoneForgotten, OnlyDeclined
<1>1. \A p \in Procs : pc[p] \in {"idle", "over", "stopped", "lost", "free"} /\ (p \in Gates => pc[p] = "over")
  BY Apart DEF Quiet, Procs
<1>2. ~SomebodyDue
  BY <1>1 DEF SomebodyDue, Due, DuePhases, Serving
<1> QED  BY <1>2 DEF LookInv

\* When nothing is in flight, every ready step is one that was declined and
\* not allowed since: every schedule that found the table full, a step
\* reserved, held or in a job's way, or a turn fired, is followed by one that
\* looks again, for any number of steps, jobs, goroutines, schedules,
\* assignments, scope changes, events and crashes.  A build that panics, a
\* refused assignment, a step moved by hand and EnableSubAgents leave the
\* next schedule to their caller; a start needs to come after the startup
\* question and after the one before.
THEOREM NothingForgotten ==
    ASSUME Undisturbed PROVE Spec => []NoneForgotten
<1>1. Init => DeclineInv /\ LookInv
  <2>1. Init => DeclineInv
    BY Apart, Roles DEF Init, Begin, DeclineInv
  <2> QED  BY <2>1, LookInit DEF Undisturbed
<1>2. Inv /\ DeclineInv /\ LookInv /\ [Next]_vars => DeclineInv' /\ LookInv'
  BY DeclineStep, LookStep DEF Undisturbed
<1>3. Inv /\ LookInv => NoneForgotten
  BY LookEnds
<1> QED  BY <1>1, <1>2, <1>3, InvHolds, PTL DEF Spec
=============================================================================
