-------------------------- MODULE SubAgentsProofs --------------------------
(* Proofs about SubAgents, for any steps, jobs, callers and goroutines.    *)
EXTENDS SubAgents, FiniteSetTheorems, TLAPS

ArgRecs == [id : Ids \cup {None}, owner : Owners \cup {None}, scope : SUBSET Paths,
            on : Runners \cup {None}, declined : BOOLEAN, ids : SUBSET Ids, any : BOOLEAN]
RunRecs == [node : Ids \cup {None}, owner : Owners \cup {None}, scope : SUBSET Paths,
            question : BOOLEAN, interrupt : BOOLEAN, sessionEnd : BOOLEAN,
            stopped : BOOLEAN, timedOut : BOOLEAN,
            verdict : {"none", "done", "blocked", "interrupted", "held"}]
Trees == [Ids -> StepRecs]

\* The types, by group of variables.
RecordType == step \in Trees /\ dispatched \subseteq Ids
TableType ==
    /\ runs \in [Ids -> Runners \cup {None}]
    /\ pending \subseteq Ids /\ slots \subseteq Jobs /\ jobScopes \subseteq Jobs
    /\ hold \subseteq Ids
GateType ==
    /\ allowed \subseteq Ids /\ stopping \in BOOLEAN
    /\ declined \in BOOLEAN /\ fired \in BOOLEAN
RunType == run \in [Runners -> RunRecs]
PcType == pc \in [Procs -> Phases]
SnapType == snap \in [Procs -> Trees]
PicksType == picks \in [Procs -> SUBSET Ids]
ArgType == arg \in [Procs -> ArgRecs]

\* What a caller remembers points where it should: a caller about to mark a
\* step dispatched has installed a run for it on a goroutine nobody else
\* has, and a caller changing a step knows which.  The types alone are not
\* inductive: the mark goes to whatever step that goroutine's run names.
Marks ==
    /\ \A p \in Procs : pc[p] = "mark" =>
          arg[p].on \in Runners /\ pc[arg[p].on] = "installed"
    /\ \A p, q \in Procs : pc[p] = "mark" /\ pc[q] = "mark" /\ p # q =>
          arg[p].on # arg[q].on
    /\ \A g \in Runners : pc[g] = "installed" => run[g].node \in Ids
Changing == {"assign", "await", "release", "giveup", "rescope", "apply", "answer"}
Targets == \A p \in Procs : pc[p] \in Changing => arg[p].id \in Ids

TypeInv ==
    /\ RecordType /\ TableType /\ GateType /\ RunType /\ PcType
    /\ SnapType /\ PicksType /\ ArgType /\ Marks /\ Targets

LEMMA TypeInvImplies == TypeInv => TypeOK
  BY DEF TypeInv, TypeOK, RecordType, TableType, GateType, RunType, PcType,
         SnapType, PicksType, ArgType, Trees, RunRecs, ArgRecs

LEMMA Blanks ==
    /\ Blank \in Trees
    /\ NoRun \in RunRecs
    /\ NoArg \in ArgRecs
    /\ Runners \subseteq Procs /\ Jobs \subseteq Procs /\ Callers \subseteq Procs
  BY DEF Blank, NoStep, StepRecs, Statuses, NoRun, RunRecs, NoArg, ArgRecs, Procs, Trees

LEMMA TypeInit == Init => TypeInv
<1> SUFFICES ASSUME Init PROVE TypeInv
  OBVIOUS
<1> USE SubAgentsAssumption, Blanks DEF Init, Begin
<1>1. RecordType
  BY DEF RecordType, Trees, StepRecs, Statuses, NoStep, Ids
<1>2. TableType /\ GateType
  BY DEF TableType, GateType
<1>3. RunType /\ ArgType /\ SnapType /\ PicksType
  BY DEF RunType, ArgType, SnapType, PicksType
<1>4. PcType /\ \A p \in Procs : pc[p] \notin {"mark", "installed"} \cup Changing
  BY DEF PcType, Phases, Changing
<1>5. Marks /\ Targets
  BY <1>4 DEF Marks, Targets
<1> QED  BY <1>1, <1>2, <1>3, <1>4, <1>5 DEF TypeInv

\* A schedule call ends in one of a few phases.
LEMMA ReturnedType ==
    ASSUME NEW p, NEW any
    PROVE  Returned(p, any) \in {"closing", "idle", "restore", "over"}
<1>1. CASE p \in Runners
  BY <1>1, Zenon DEF Returned
<1>2. CASE p \notin Runners /\ p \in Starters
  BY <1>2, Zenon DEF Returned
<1>3. CASE p \notin Runners /\ p \notin Starters /\ p \in Gates
  BY <1>3, Zenon DEF Returned
<1>4. CASE p \notin Runners /\ p \notin Starters /\ p \notin Gates
  BY <1>4, Zenon DEF Returned
<1> QED  BY <1>1, <1>2, <1>3, <1>4

-----------------------------------------------------------------------------
\* A step in which nobody begins or ends to mark keeps what the marks need.
Calm ==
    /\ \A q \in Procs : pc'[q] # pc[q] =>
          pc[q] \notin {"mark", "installed"} /\ pc'[q] \notin {"mark", "installed"}
    /\ \A q \in Procs : pc[q] = "mark" => arg'[q].on = arg[q].on
    /\ \A g \in Runners : pc[g] = "installed" => run'[g].node = run[g].node

LEMMA CalmKeeps == Marks /\ Calm => Marks'
<1> SUFFICES ASSUME Marks, Calm PROVE Marks'
  OBVIOUS
<1> USE Blanks DEF Calm, Marks
<1>1. ASSUME NEW p \in Procs, pc'[p] = "mark"
      PROVE  arg'[p].on \in Runners /\ pc'[arg'[p].on] = "installed"
  <2>1. pc[p] = "mark" /\ arg'[p].on = arg[p].on
    BY <1>1
  <2>2. arg[p].on \in Runners /\ pc[arg[p].on] = "installed"
    BY <2>1
  <2> QED  BY <2>1, <2>2
<1>2. ASSUME NEW p \in Procs, NEW q \in Procs, pc'[p] = "mark", pc'[q] = "mark", p # q
      PROVE  arg'[p].on # arg'[q].on
  <2>1. /\ pc[p] = "mark" /\ arg'[p].on = arg[p].on
        /\ pc[q] = "mark" /\ arg'[q].on = arg[q].on
    BY <1>2
  <2> QED  BY <2>1, <1>2
<1>3. ASSUME NEW g \in Runners, pc'[g] = "installed" PROVE run'[g].node \in Ids
  BY <1>3
<1> QED  BY <1>1, <1>2, <1>3

\* One caller moves on, and that is all that happens to pc.
LEMMA MoveKeeps ==
    ASSUME PcType, NEW p \in Procs, NEW to \in Phases \ {"mark", "installed"},
           pc[p] \notin {"mark", "installed"}, pc' = [pc EXCEPT ![p] = to]
    PROVE  /\ PcType'
           /\ pc'[p] = to /\ \A q \in Procs \ {p} : pc'[q] = pc[q]
           /\ \A q \in Procs : pc'[q] # pc[q] =>
                 pc[q] \notin {"mark", "installed"} /\ pc'[q] \notin {"mark", "installed"}
  BY DEF PcType

\* One caller remembers something else.
LEMMA ArgKeeps ==
    ASSUME ArgType, NEW p \in Procs, NEW r \in ArgRecs, arg' = [arg EXCEPT ![p] = r]
    PROVE  ArgType' /\ arg'[p] = r /\ \A q \in Procs \ {p} : arg'[q] = arg[q]
  BY DEF ArgType

\* One tree is read, or forgotten.
LEMMA SnapKeeps ==
    ASSUME SnapType, NEW p \in Procs, NEW t \in Trees, snap' = [snap EXCEPT ![p] = t]
    PROVE  SnapType'
  BY DEF SnapType
\* What a step does not touch keeps its type.
LEMMA Frames ==
    /\ RecordType /\ UNCHANGED record => RecordType'
    /\ TableType /\ UNCHANGED table /\ UNCHANGED hold => TableType'
    /\ GateType /\ UNCHANGED gate /\ UNCHANGED stopping /\ UNCHANGED fired => GateType'
    /\ RunType /\ UNCHANGED run => RunType'
    /\ SnapType /\ UNCHANGED snap => SnapType'
    /\ PicksType /\ UNCHANGED picks => PicksType'
    /\ ArgType /\ UNCHANGED arg => ArgType'
  BY DEF RecordType, TableType, GateType, RunType, SnapType, PicksType, ArgType,
         record, table, gate

-----------------------------------------------------------------------------
(* ScheduleSubAgents *)

LEMMA ReadTreeTypes ==
    ASSUME TypeInv, NEW p \in Procs, ReadTree(p)
    PROVE  TypeInv'
<1>1. /\ pc[p] = "call" /\ pc' = [pc EXCEPT ![p] = "decide"]
      /\ snap' = [snap EXCEPT ![p] = step]
      /\ UNCHANGED record /\ UNCHANGED table /\ UNCHANGED hold /\ UNCHANGED stopping
      /\ UNCHANGED gate /\ UNCHANGED fired /\ UNCHANGED run
      /\ UNCHANGED picks /\ UNCHANGED arg
  BY DEF ReadTree
<1>2. SnapType'
  BY <1>1, SnapKeeps DEF TypeInv, RecordType
<1>3. /\ PcType' /\ pc'[p] = "decide" /\ \A q \in Procs \ {p} : pc'[q] = pc[q]
      /\ Calm
  BY <1>1, MoveKeeps DEF TypeInv, Phases, Calm
<1>4. Targets'
  BY <1>1, <1>3 DEF TypeInv, Targets, Changing
<1> QED  BY <1>1, <1>2, <1>3, <1>4, Frames, CalmKeeps DEF TypeInv

LEMMA ReserveTypes ==
    ASSUME TypeInv, NEW p \in Procs, Reserve(p)
    PROVE  TypeInv'
<1> DEFINE r == Returned(p, FALSE)
<1>1. r \in {"closing", "idle", "restore", "over"}
  BY ReturnedType
<1>2. PICK S \in SUBSET Steps :
         /\ pending' = pending \cup S
         /\ picks' = [picks EXCEPT ![p] = S]
         /\ IF S = {}
            THEN /\ pc' = [pc EXCEPT ![p] = r]
                 /\ snap' = [snap EXCEPT ![p] = Blank]
            ELSE pc' = [pc EXCEPT ![p] = "build"] /\ UNCHANGED snap
  BY Zenon DEF Reserve, Picks
<1>3. /\ pc[p] = "decide"
      /\ UNCHANGED record /\ UNCHANGED runs /\ UNCHANGED slots /\ UNCHANGED jobScopes
      /\ UNCHANGED hold /\ UNCHANGED stopping /\ UNCHANGED gate /\ UNCHANGED fired
      /\ UNCHANGED run /\ UNCHANGED arg
  BY Zenon DEF Reserve, Picks
<1> HIDE DEF r
<1>4. PICK to \in Phases \ ({"mark", "installed"} \cup Changing) : pc' = [pc EXCEPT ![p] = to]
  BY <1>1, <1>2 DEF Phases, Changing
<1>5. PcType' /\ pc'[p] = to /\ (\A q \in Procs \ {p} : pc'[q] = pc[q]) /\ Calm
  BY <1>3, <1>4, MoveKeeps DEF TypeInv, Calm
<1>6. Targets'
  BY <1>3, <1>5 DEF TypeInv, Targets
<1>7. SnapType'
  BY <1>2, Blanks, SnapKeeps, Frames DEF TypeInv
<1>8. PicksType'
  BY <1>2 DEF TypeInv, PicksType, Ids
<1>9. TableType'
  BY <1>2, <1>3 DEF TypeInv, TableType, Ids
<1> QED  BY <1>3, <1>5, <1>6, <1>7, <1>8, <1>9, Frames, CalmKeeps DEF TypeInv

LEMMA ContinueTypes ==
    ASSUME TypeInv, NEW p \in Procs, NEW i, pc[p] = "build", Continue(p, i), UNCHANGED run
    PROVE  /\ PcType' /\ SnapType' /\ PicksType' /\ ArgType'
           /\ Marks' /\ Targets'
<1> DEFINE r == Returned(p, arg[p].any)
           rest == picks[p] \ {i}
           next == IF rest = {} THEN r ELSE "build"
           to == IF p \in Jobs THEN "unstarted" ELSE next
<1>1. r \in {"closing", "idle", "restore", "over"}
  BY ReturnedType
<1>2. /\ picks' = [picks EXCEPT ![p] = rest]
      /\ snap' = IF rest = {} THEN [snap EXCEPT ![p] = Blank] ELSE snap
      /\ arg' = IF next = "idle" THEN [arg EXCEPT ![p] = NoArg] ELSE arg
      /\ pc' = [pc EXCEPT ![p] = to]
  BY Zenon DEF Continue
<1> HIDE DEF r
<1>3. to \in Phases \ ({"mark", "installed"} \cup Changing)
  BY <1>1 DEF Phases, Changing
<1> HIDE DEF next, to
<1>4. /\ PcType' /\ pc'[p] = to /\ \A q \in Procs \ {p} : pc'[q] = pc[q]
      /\ \A q \in Procs : pc'[q] # pc[q] =>
            pc[q] \notin {"mark", "installed"} /\ pc'[q] \notin {"mark", "installed"}
  BY <1>2, <1>3, MoveKeeps DEF TypeInv
<1>5. ArgType' /\ \A q \in Procs \ {p} : arg'[q] = arg[q]
  BY <1>2, Blanks, ArgKeeps, Frames DEF TypeInv
<1>6. Calm
  BY <1>4, <1>5 DEF Calm
<1>7. SnapType'
  BY <1>2, Blanks, SnapKeeps, Frames DEF TypeInv
<1>8. PicksType'
  BY <1>2 DEF TypeInv, PicksType
<1>9. Targets'
  BY <1>3, <1>4, <1>5 DEF TypeInv, Targets
<1> QED  BY <1>4, <1>5, <1>6, <1>7, <1>8, <1>9, CalmKeeps DEF TypeInv

\* A pick that is given back, after a panic or a refusal.
LEMMA GiveBackTypes ==
    ASSUME TypeInv, NEW p \in Procs, NEW i \in Ids, GiveBack(p, i)
    PROVE  TypeInv'
<1>1. /\ pc[p] = "build" /\ Continue(p, i)
      /\ pending' = pending \ {i} /\ jobScopes' = jobScopes \ {i}
      /\ UNCHANGED record /\ UNCHANGED runs /\ UNCHANGED slots /\ UNCHANGED hold
      /\ UNCHANGED stopping /\ UNCHANGED gate /\ UNCHANGED fired /\ UNCHANGED run
  BY Zenon DEF GiveBack, Building, Unreserve
<1>2. TableType'
  BY <1>1 DEF TypeInv, TableType
<1> QED  BY <1>1, <1>2, ContinueTypes, Frames DEF TypeInv

LEMMA InstallTypes ==
    ASSUME TypeInv, NEW p \in Procs, NEW i \in Ids, NEW g \in Runners, Install(p, i, g)
    PROVE  TypeInv'
<1> DEFINE new == [NoRun EXCEPT !.node = i, !.owner = snap[p][i].owner, !.scope = snap[p][i].scope]
           a == [arg[p] EXCEPT !.on = g]
<1>1. /\ pc[p] = "build" /\ pc[g] = "free"
      /\ pending' = pending \ {i} /\ jobScopes' = jobScopes \ {i}
      /\ runs' = [runs EXCEPT ![i] = g]
      /\ run' = [run EXCEPT ![g] = new]
      /\ picks' = [picks EXCEPT ![p] = @ \ {i}]
      /\ pc' = [pc EXCEPT ![p] = "mark", ![g] = "installed"]
      /\ arg' = [arg EXCEPT ![p] = a]
      /\ UNCHANGED record /\ UNCHANGED slots /\ UNCHANGED hold /\ UNCHANGED stopping
      /\ UNCHANGED gate /\ UNCHANGED fired /\ UNCHANGED snap
  BY Zenon DEF Install, Building, Unreserve
<1>2. new \in RunRecs /\ new.node = i
  <2>1. snap[p][i] \in StepRecs
    BY DEF TypeInv, SnapType, Trees
  <2> QED  BY <2>1 DEF RunRecs, StepRecs, NoRun
<1>3. arg[p] \in ArgRecs
  BY DEF TypeInv, ArgType
<1>4. a \in ArgRecs /\ a.on = g /\ a.id = arg[p].id
  BY <1>3 DEF ArgRecs
<1> HIDE DEF new, a
<1>5. RunType' /\ run'[g] = new /\ \A h \in Runners \ {g} : run'[h] = run[h]
  BY <1>1, <1>2 DEF TypeInv, RunType
<1>6. ArgType' /\ arg'[p] = a /\ \A q \in Procs \ {p} : arg'[q] = arg[q]
  BY <1>1, <1>4, ArgKeeps DEF TypeInv
<1>7. PcType' /\ pc'[p] = "mark" /\ pc'[g] = "installed" /\ \A q \in Procs \ {p, g} : pc'[q] = pc[q]
  BY <1>1, Blanks DEF TypeInv, PcType, Phases
<1>8. TableType'
  BY <1>1 DEF TypeInv, TableType
<1>9. PicksType'
  BY <1>1 DEF TypeInv, PicksType
<1>10. Marks'
  <2> USE Blanks
  <2>1. ASSUME NEW q \in Procs \ {p}, pc'[q] = "mark"
        PROVE  /\ pc[q] = "mark" /\ arg'[q].on = arg[q].on
               /\ arg[q].on \in Runners \ {g} /\ pc[arg[q].on] = "installed"
    BY <1>1, <1>6, <1>7, <2>1 DEF TypeInv, Marks
  <2>2. ASSUME NEW q \in Procs, pc'[q] = "mark"
        PROVE  arg'[q].on \in Runners /\ pc'[arg'[q].on] = "installed"
    <3>1. CASE q = p
      BY <3>1, <1>4, <1>6, <1>7
    <3>2. CASE q # p
      <4>1. /\ arg'[q].on = arg[q].on /\ arg[q].on \in Runners \ {g}
            /\ pc[arg[q].on] = "installed"
        BY <2>1, <2>2, <3>2
      <4>2. arg[q].on # p
        BY <1>1, <4>1
      <4> QED  BY <4>1, <4>2, <1>7
    <3> QED  BY <3>1, <3>2
  <2>3. ASSUME NEW q \in Procs, NEW t \in Procs, pc'[q] = "mark", pc'[t] = "mark", q # t
        PROVE  arg'[q].on # arg'[t].on
    <3>1. CASE q = p
      BY <3>1, <2>1, <2>3, <1>4, <1>6
    <3>2. CASE t = p
      BY <3>2, <2>1, <2>3, <1>4, <1>6
    <3>3. CASE q # p /\ t # p
      BY <3>3, <2>1, <2>3 DEF TypeInv, Marks
    <3> QED  BY <3>1, <3>2, <3>3
  <2>4. ASSUME NEW h \in Runners, pc'[h] = "installed" PROVE run'[h].node \in Ids
    BY <1>2, <1>5, <1>7, <2>4 DEF TypeInv, Marks
  <2> QED  BY <2>2, <2>3, <2>4 DEF Marks
<1>11. Targets'
  BY <1>1, <1>6, <1>7 DEF TypeInv, Targets, Changing
<1> QED  BY <1>1, <1>5, <1>6, <1>7, <1>8, <1>9, <1>10, <1>11, Frames DEF TypeInv

LEMMA MarkTypes ==
    ASSUME TypeInv, NEW p \in Procs, MarkDispatched(p)
    PROVE  TypeInv'
<1> DEFINE g == arg[p].on
           r == Returned(p, TRUE)
           over == picks[p] = {}
           a == IF over THEN NoArg ELSE [arg[p] EXCEPT !.on = None, !.any = p \in Starters]
           to == IF ~over THEN "build" ELSE IF p \in Jobs THEN "over" ELSE r
<1>1. /\ pc[p] = "mark"
      /\ dispatched' = dispatched \cup {run[g].node}
      /\ arg' = [arg EXCEPT ![p] = a]
      /\ snap' = IF over THEN [snap EXCEPT ![p] = Blank] ELSE snap
      /\ pc' = [pc EXCEPT ![g] = "starting", ![p] = to]
      /\ UNCHANGED step /\ UNCHANGED table /\ UNCHANGED hold /\ UNCHANGED stopping
      /\ UNCHANGED gate /\ UNCHANGED fired /\ UNCHANGED run /\ UNCHANGED picks
  BY Zenon DEF MarkDispatched
<1>2. g \in Runners /\ pc[g] = "installed" /\ run[g].node \in Ids
  BY <1>1 DEF TypeInv, Marks
<1>3. a \in ArgRecs
  <2>1. arg[p] \in ArgRecs
    BY DEF TypeInv, ArgType
  <2>2. [arg[p] EXCEPT !.on = None, !.any = p \in Starters] \in ArgRecs
    <3>1. (p \in Starters) \in BOOLEAN
      OBVIOUS
    <3>2. \A b \in BOOLEAN : [arg[p] EXCEPT !.on = None, !.any = b] \in ArgRecs
      BY <2>1 DEF ArgRecs
    <3> QED  BY <3>1, <3>2, Zenon
  <2> QED  BY <2>2, Blanks
<1>4. to \in Phases \ ({"mark", "installed"} \cup Changing)
  BY ReturnedType DEF Phases, Changing
<1> HIDE DEF r, a, to, over
<1>5. ArgType' /\ \A q \in Procs \ {p} : arg'[q] = arg[q]
  BY <1>1, <1>3, ArgKeeps DEF TypeInv
<1>6. PcType' /\ pc'[p] = to /\ pc'[g] = "starting" /\ \A q \in Procs \ {p, g} : pc'[q] = pc[q]
  BY <1>1, <1>2, <1>4, Blanks DEF TypeInv, PcType, Phases
<1>7. Marks'
  <2> HIDE DEF g
  <2>1. ASSUME NEW q \in Procs, pc'[q] = "mark"
        PROVE  /\ q # p /\ pc[q] = "mark" /\ arg'[q] = arg[q]
               /\ arg'[q].on \in Runners /\ pc'[arg'[q].on] = "installed"
    <3>1. q # p /\ q # g
      BY <1>4, <1>6, <2>1
    <3>2. pc[q] = "mark" /\ arg'[q] = arg[q]
      BY <1>5, <1>6, <2>1, <3>1
    <3>3. arg[q].on # g /\ arg[q].on \in Runners /\ pc[arg[q].on] = "installed"
      BY <1>1, <3>1, <3>2 DEF TypeInv, Marks, g
    <3>4. arg[q].on # p
      BY <1>1, <3>3
    <3> QED  BY <3>1, <3>2, <3>3, <3>4, <1>6, Blanks
  <2>2. ASSUME NEW q \in Procs, NEW t \in Procs, pc'[q] = "mark", pc'[t] = "mark", q # t
        PROVE  arg'[q].on # arg'[t].on
    BY <2>1, <2>2 DEF TypeInv, Marks
  <2>3. ASSUME NEW h \in Runners, pc'[h] = "installed" PROVE run'[h].node \in Ids
    BY <1>1, <1>4, <1>6, <2>3, Blanks DEF TypeInv, Marks
  <2> QED  BY <2>1, <2>2, <2>3 DEF Marks
<1>8. Targets'
  BY <1>4, <1>5, <1>6 DEF TypeInv, Targets, Changing
<1>9. SnapType'
  BY <1>1, Blanks, SnapKeeps, Frames DEF TypeInv
<1>10. RecordType'
  BY <1>1, <1>2 DEF TypeInv, RecordType
<1> QED  BY <1>1, <1>5, <1>6, <1>7, <1>8, <1>9, <1>10, Frames DEF TypeInv
-----------------------------------------------------------------------------
(* One caller, one step *)

NodesKept == \A g \in Runners : run'[g].node = run[g].node

\* A caller moves on with what it remembers unchanged.
LEMMA MoveOnly ==
    ASSUME TypeInv, NEW p \in Procs, NEW to \in Phases \ {"mark", "installed"},
           pc[p] \notin {"mark", "installed"}, pc' = [pc EXCEPT ![p] = to],
           UNCHANGED arg, NodesKept, to \in Changing => arg[p].id \in Ids
    PROVE  PcType' /\ ArgType' /\ Marks' /\ Targets'
<1>1. /\ PcType' /\ pc'[p] = to /\ \A q \in Procs \ {p} : pc'[q] = pc[q]
      /\ \A q \in Procs : pc'[q] # pc[q] =>
            pc[q] \notin {"mark", "installed"} /\ pc'[q] \notin {"mark", "installed"}
  BY MoveKeeps DEF TypeInv
<1>2. Calm
  BY <1>1 DEF Calm, NodesKept
<1>3. Targets'
  BY <1>1 DEF TypeInv, Targets
<1> QED  BY <1>1, <1>2, <1>3, CalmKeeps, Frames DEF TypeInv

\* A caller moves on and remembers something else.
LEMMA MoveArg ==
    ASSUME TypeInv, NEW p \in Procs, NEW to \in Phases \ {"mark", "installed"},
           pc[p] \notin {"mark", "installed"}, pc' = [pc EXCEPT ![p] = to],
           NEW r \in ArgRecs, arg' = [arg EXCEPT ![p] = r], NodesKept,
           to \in Changing => r.id \in Ids
    PROVE  PcType' /\ ArgType' /\ Marks' /\ Targets'
<1>1. /\ PcType' /\ pc'[p] = to /\ \A q \in Procs \ {p} : pc'[q] = pc[q]
      /\ \A q \in Procs : pc'[q] # pc[q] =>
            pc[q] \notin {"mark", "installed"} /\ pc'[q] \notin {"mark", "installed"}
  BY MoveKeeps DEF TypeInv
<1>2. ArgType' /\ arg'[p] = r /\ \A q \in Procs \ {p} : arg'[q] = arg[q]
  BY ArgKeeps DEF TypeInv
<1>3. Calm
  BY <1>1, <1>2 DEF Calm, NodesKept
<1>4. Targets'
  BY <1>1, <1>2 DEF TypeInv, Targets
<1> QED  BY <1>1, <1>2, <1>3, <1>4, CalmKeeps DEF TypeInv

\* The same, when it is not changing a step.
LEMMA MoveNote ==
    ASSUME TypeInv, NEW p \in Procs,
           NEW to \in Phases \ ({"mark", "installed"} \cup Changing),
           pc[p] \notin {"mark", "installed"}, pc' = [pc EXCEPT ![p] = to],
           NEW r \in ArgRecs, arg' = [arg EXCEPT ![p] = r], NodesKept
    PROVE  PcType' /\ ArgType' /\ Marks' /\ Targets'
<1>1. to \in Phases \ {"mark", "installed"} /\ to \notin Changing
  OBVIOUS
<1> QED  BY <1>1, MoveArg

\* A caller moves on and forgets.
LEMMA MoveForget ==
    ASSUME TypeInv, NEW p \in Procs,
           NEW to \in Phases \ ({"mark", "installed"} \cup Changing),
           pc[p] \notin {"mark", "installed"}, pc' = [pc EXCEPT ![p] = to],
           arg' = [arg EXCEPT ![p] = NoArg], NodesKept
    PROVE  PcType' /\ ArgType' /\ Marks' /\ Targets'
<1>1. NoArg \in ArgRecs
  BY Blanks
<1> QED  BY <1>1, MoveNote

\* Nobody moves.
LEMMA StandStill ==
    ASSUME TypeInv, UNCHANGED pc, UNCHANGED arg, NodesKept
    PROVE  PcType' /\ ArgType' /\ Marks' /\ Targets'
<1>1. Calm
  BY DEF Calm, NodesKept
<1>2. PcType' /\ Targets'
  BY DEF TypeInv, PcType, Targets
<1> QED  BY <1>1, <1>2, CalmKeeps, Frames DEF TypeInv

LEMMA SameNodes == UNCHANGED run => NodesKept
  BY DEF NodesKept

\* One run's record changes.
LEMMA RunKeeps ==
    ASSUME RunType, NEW g \in Runners, NEW r \in RunRecs, run' = [run EXCEPT ![g] = r],
           r.node = run[g].node
    PROVE  RunType' /\ NodesKept
  BY DEF RunType, NodesKept

\* Every field of a record holds what its type says, and may be changed to
\* anything its type allows.
LEMMA RunFields ==
    ASSUME NEW r \in RunRecs
    PROVE  /\ \A b \in BOOLEAN : LET n == [r EXCEPT !.question = b]
                                 IN  n \in RunRecs /\ n.node = r.node
           /\ LET n == [r EXCEPT !.interrupt = TRUE] IN n \in RunRecs /\ n.node = r.node
           /\ LET n == [r EXCEPT !.interrupt = TRUE, !.sessionEnd = TRUE]
              IN  n \in RunRecs /\ n.node = r.node
           /\ LET n == [r EXCEPT !.stopped = TRUE] IN n \in RunRecs /\ n.node = r.node
           /\ LET n == [r EXCEPT !.timedOut = TRUE] IN n \in RunRecs /\ n.node = r.node
           /\ \A s \in SUBSET Paths : LET n == [r EXCEPT !.scope = s]
                                      IN  n \in RunRecs /\ n.node = r.node
           /\ \A v \in {"none", "done", "blocked", "interrupted", "held"} :
                 LET n == [r EXCEPT !.verdict = v] IN n \in RunRecs /\ n.node = r.node
  BY DEF RunRecs

LEMMA ArgFields ==
    ASSUME NEW r \in ArgRecs
    PROVE  /\ r.id \in Ids \cup {None} /\ r.owner \in Owners \cup {None}
           /\ r.scope \in SUBSET Paths /\ r.on \in Runners \cup {None}
           /\ r.declined \in BOOLEAN /\ r.ids \in SUBSET Ids /\ r.any \in BOOLEAN
           /\ \A b \in BOOLEAN : LET n == [r EXCEPT !.any = b]
                                 IN  n \in ArgRecs /\ n.id = r.id
           /\ LET n == [r EXCEPT !.on = None] IN n \in ArgRecs /\ n.id = r.id
           /\ \A s \in SUBSET Ids : [r EXCEPT !.ids = s] \in ArgRecs
  BY DEF ArgRecs

LEMMA StepFields ==
    ASSUME RecordType, NEW i
    PROVE  /\ \A s \in Statuses : [step EXCEPT ![i].status = s] \in Trees
           /\ \A s \in Statuses : [step EXCEPT ![i].status = IF @ = "todo" THEN s ELSE @] \in Trees
           /\ \A o \in Owners \cup {None} : [step EXCEPT ![i].owner = o] \in Trees
           /\ \A s \in SUBSET Paths : [step EXCEPT ![i].scope = s] \in Trees
  BY DEF RecordType, Trees, StepRecs

LEMMA CloseTypes ==
    ASSUME RecordType, NEW i, NEW status \in Statuses, CloseAs(i, status)
    PROVE  RecordType'
<1>1. step' = [step EXCEPT ![i].status = IF @ = "todo" THEN status ELSE @]
  BY DEF CloseAs
<1>2. dispatched' \subseteq Ids
  BY DEF CloseAs, RecordType
<1> QED  BY <1>1, <1>2, StepFields DEF RecordType
-----------------------------------------------------------------------------
(* DispatchJob *)

LEMMA JobReadsTypes ==
    ASSUME TypeInv, NEW j \in Jobs, JobReads(j)
    PROVE  TypeInv'
<1>1. PICK to \in Phases \ ({"mark", "installed"} \cup Changing) :
         pc' = [pc EXCEPT ![j] = to]
  BY DEF JobReads, Over, Phases, Changing
<1>2. /\ pc[j] = "idle"
      /\ (UNCHANGED snap) \/ snap' = [snap EXCEPT ![j] = step]
      /\ UNCHANGED record /\ UNCHANGED table /\ UNCHANGED hold /\ UNCHANGED stopping
      /\ UNCHANGED gate /\ UNCHANGED fired /\ UNCHANGED run
      /\ UNCHANGED picks /\ UNCHANGED arg
  BY Zenon DEF JobReads
<1>3. PcType' /\ Marks' /\ Targets' /\ ArgType'
  BY <1>1, <1>2, MoveOnly, SameNodes, Blanks
<1>4. SnapType'
  BY <1>2, Blanks, SnapKeeps, Frames DEF TypeInv, RecordType
<1> QED  BY <1>2, <1>3, <1>4, Frames DEF TypeInv

LEMMA JobReservesTypes ==
    ASSUME TypeInv, NEW j \in Jobs, JobReserves(j)
    PROVE  TypeInv'
<1>1. PICK to \in Phases \ ({"mark", "installed"} \cup Changing) :
         pc' = [pc EXCEPT ![j] = to]
  BY DEF JobReserves, Over, Phases, Changing
<1>2. /\ pc[j] = "check"
      /\ snap' = [snap EXCEPT ![j] = Blank]
      /\ slots' \subseteq slots \cup {j} /\ jobScopes' \subseteq jobScopes \cup {j}
      /\ UNCHANGED record /\ UNCHANGED runs /\ UNCHANGED pending
      /\ UNCHANGED hold /\ UNCHANGED stopping /\ UNCHANGED gate /\ UNCHANGED fired
      /\ UNCHANGED run /\ UNCHANGED picks /\ UNCHANGED arg
  BY DEF JobReserves
<1>3. PcType' /\ Marks' /\ Targets' /\ ArgType'
  BY <1>1, <1>2, MoveOnly, SameNodes, Blanks
<1>4. SnapType' /\ TableType'
  BY <1>2, Blanks, SnapKeeps DEF TypeInv, TableType
<1> QED  BY <1>2, <1>3, <1>4, Frames DEF TypeInv

LEMMA JobFilesTypes ==
    ASSUME TypeInv, NEW j \in Jobs, JobFiles(j)
    PROVE  TypeInv'
<1> DEFINE filed == [status |-> "todo", owner |-> Owner0[j], scope |-> Scope0[j]]
<1>1. PICK to \in Phases \ ({"mark", "installed"} \cup Changing) :
         pc' = [pc EXCEPT ![j] = to]
  BY DEF JobFiles, Over, Phases, Changing
<1>2. /\ pc[j] = "file"
      /\ (UNCHANGED step) \/ step' = [step EXCEPT ![j] = filed]
      /\ slots' \subseteq slots /\ jobScopes' \subseteq jobScopes
      /\ UNCHANGED dispatched /\ UNCHANGED runs /\ UNCHANGED pending
      /\ UNCHANGED hold /\ UNCHANGED stopping /\ UNCHANGED gate /\ UNCHANGED fired
      /\ UNCHANGED run /\ UNCHANGED snap /\ UNCHANGED picks /\ UNCHANGED arg
  BY DEF JobFiles, local
<1>3. PcType' /\ Marks' /\ Targets' /\ ArgType'
  BY <1>1, <1>2, MoveOnly, SameNodes, Blanks
<1>4. filed \in StepRecs
  BY SubAgentsAssumption DEF StepRecs, Statuses, Ids
<1> HIDE DEF filed
<1>5. RecordType'
  BY <1>2, <1>4 DEF TypeInv, RecordType, Trees
<1>6. TableType'
  BY <1>2 DEF TypeInv, TableType
<1> QED  BY <1>2, <1>3, <1>5, <1>6, Frames DEF TypeInv

LEMMA JobSwapsTypes ==
    ASSUME TypeInv, NEW j \in Jobs, JobSwaps(j)
    PROVE  TypeInv'
<1>1. /\ pc[j] = "filed" /\ pc' = [pc EXCEPT ![j] = "reread"]
      /\ slots' = slots \ {j} /\ pending' = pending \cup {j}
      /\ picks' = [picks EXCEPT ![j] = {j}]
      /\ UNCHANGED record /\ UNCHANGED runs /\ UNCHANGED jobScopes
      /\ UNCHANGED hold /\ UNCHANGED stopping /\ UNCHANGED gate /\ UNCHANGED fired
      /\ UNCHANGED run /\ UNCHANGED snap /\ UNCHANGED arg
  BY DEF JobSwaps
<1>2. PcType' /\ Marks' /\ Targets' /\ ArgType'
  BY <1>1, MoveOnly, SameNodes, Blanks DEF Phases, Changing
<1>3. PicksType'
  BY <1>1, Blanks DEF TypeInv, PicksType, Ids
<1>4. TableType'
  BY <1>1 DEF TypeInv, TableType, Ids
<1> QED  BY <1>1, <1>2, <1>3, <1>4, Frames DEF TypeInv

LEMMA JobRereadsTypes ==
    ASSUME TypeInv, NEW j \in Jobs, JobRereads(j)
    PROVE  TypeInv'
<1>1. /\ pc[j] = "reread" /\ pc' = [pc EXCEPT ![j] = "build"]
      /\ snap' = [snap EXCEPT ![j] = step]
      /\ UNCHANGED record /\ UNCHANGED table /\ UNCHANGED hold /\ UNCHANGED stopping
      /\ UNCHANGED gate /\ UNCHANGED fired /\ UNCHANGED run
      /\ UNCHANGED picks /\ UNCHANGED arg
  BY DEF JobRereads
<1>2. PcType' /\ Marks' /\ Targets' /\ ArgType'
  BY <1>1, MoveOnly, SameNodes, Blanks DEF Phases, Changing
<1>3. SnapType'
  BY <1>1, Blanks, SnapKeeps DEF TypeInv, RecordType
<1> QED  BY <1>1, <1>2, <1>3, Frames DEF TypeInv

LEMMA JobUnstartedTypes ==
    ASSUME TypeInv, NEW j \in Jobs, JobUnstarted(j)
    PROVE  TypeInv'
<1>1. /\ pc[j] = "unstarted" /\ pc' = [pc EXCEPT ![j] = "over"]
      /\ CloseAs(j, "blocked")
      /\ UNCHANGED table /\ UNCHANGED hold /\ UNCHANGED stopping
      /\ UNCHANGED gate /\ UNCHANGED fired /\ UNCHANGED run
      /\ UNCHANGED snap /\ UNCHANGED picks /\ UNCHANGED arg
  BY DEF JobUnstarted, Over, local
<1>2. PcType' /\ Marks' /\ Targets' /\ ArgType'
  BY <1>1, MoveOnly, SameNodes, Blanks DEF Phases, Changing
<1>3. RecordType'
  BY <1>1, CloseTypes DEF TypeInv, Statuses
<1> QED  BY <1>1, <1>2, <1>3, Frames DEF TypeInv
-----------------------------------------------------------------------------
(* runSub *)

LEMMA ConsentTypes ==
    ASSUME TypeInv, NEW g \in Runners, Consent(g)
    PROVE  TypeInv'
<1> DEFINE held == [run[g] EXCEPT !.verdict = IF IsJob(run[g].node) THEN "blocked" ELSE "held"]
<1>1. PICK to \in Phases \ ({"mark", "installed"} \cup Changing) :
         pc' = [pc EXCEPT ![g] = to]
  BY DEF Consent, Phases, Changing
<1>2. /\ pc[g] = "starting"
      /\ (UNCHANGED run) \/ run' = [run EXCEPT ![g] = held]
      /\ UNCHANGED record /\ UNCHANGED table /\ UNCHANGED hold /\ UNCHANGED stopping
      /\ UNCHANGED gate /\ UNCHANGED fired
      /\ UNCHANGED snap /\ UNCHANGED picks /\ UNCHANGED arg
  BY Zenon DEF Consent, local
<1>3. held \in RunRecs /\ held.node = run[g].node
  <2>1. run[g] \in RunRecs
    BY DEF TypeInv, RunType
  <2> QED  BY <2>1, RunFields
<1> HIDE DEF held
<1>4. RunType' /\ NodesKept
  BY <1>2, <1>3, RunKeeps, SameNodes, Frames DEF TypeInv
<1>5. PcType' /\ Marks' /\ Targets' /\ ArgType'
  BY <1>1, <1>2, <1>4, MoveOnly, Blanks
<1> QED  BY <1>2, <1>4, <1>5, Frames DEF TypeInv

LEMMA AskTypes ==
    ASSUME TypeInv, NEW g \in Runners, AskMain(g)
    PROVE  TypeInv'
<1> DEFINE asked == [run[g] EXCEPT !.question = TRUE]
<1>1. /\ pc[g] = "working" /\ pc' = [pc EXCEPT ![g] = "asking"]
      /\ run' = [run EXCEPT ![g] = asked]
      /\ UNCHANGED record /\ UNCHANGED table /\ UNCHANGED hold /\ UNCHANGED stopping
      /\ UNCHANGED gate /\ UNCHANGED fired
      /\ UNCHANGED snap /\ UNCHANGED picks /\ UNCHANGED arg
  BY Zenon DEF AskMain, Moves, local
<1>2. asked \in RunRecs /\ asked.node = run[g].node
  <2>1. run[g] \in RunRecs
    BY DEF TypeInv, RunType
  <2> QED  BY <2>1, RunFields
<1> HIDE DEF asked
<1>3. RunType' /\ NodesKept
  BY <1>1, <1>2, RunKeeps DEF TypeInv
<1>4. PcType' /\ Marks' /\ Targets' /\ ArgType'
  BY <1>1, <1>3, MoveOnly, Blanks DEF Phases, Changing
<1> QED  BY <1>1, <1>3, <1>4, Frames DEF TypeInv

LEMMA ReplyTypes ==
    ASSUME TypeInv, NEW i \in Ids, ReplyAsk(i)
    PROVE  TypeInv'
<1> DEFINE g == runs[i]
           told == [run[g] EXCEPT !.question = FALSE]
<1>1. /\ g # None
      /\ run' = [run EXCEPT ![g] = told]
      /\ UNCHANGED record /\ UNCHANGED table /\ UNCHANGED hold /\ UNCHANGED stopping
      /\ UNCHANGED gate /\ UNCHANGED fired /\ UNCHANGED pc
      /\ UNCHANGED snap /\ UNCHANGED picks /\ UNCHANGED arg
  BY Zenon DEF ReplyAsk, local
<1>2. g \in Runners
  BY <1>1 DEF TypeInv, TableType
<1>3. told \in RunRecs /\ told.node = run[g].node
  <2>1. run[g] \in RunRecs
    BY <1>2 DEF TypeInv, RunType
  <2> QED  BY <2>1, RunFields
<1> HIDE DEF told, g
<1>4. RunType' /\ NodesKept
  BY <1>1, <1>2, <1>3, RunKeeps DEF TypeInv
<1>5. PcType' /\ Marks' /\ Targets' /\ ArgType'
  BY <1>1, <1>4, StandStill
<1> QED  BY <1>1, <1>4, <1>5, Frames DEF TypeInv

LEMMA AnsweredTypes ==
    ASSUME TypeInv, NEW g \in Runners, Answered(g)
    PROVE  TypeInv'
<1>1. /\ pc[g] = "asking" /\ pc' = [pc EXCEPT ![g] = "working"]
      /\ UNCHANGED record /\ UNCHANGED table /\ UNCHANGED hold /\ UNCHANGED stopping
      /\ UNCHANGED gate /\ UNCHANGED fired /\ UNCHANGED run
      /\ UNCHANGED snap /\ UNCHANGED picks /\ UNCHANGED arg
  BY Zenon DEF Answered, Moves, local
<1>2. PcType' /\ Marks' /\ Targets' /\ ArgType'
  BY <1>1, MoveOnly, SameNodes, Blanks DEF Phases, Changing
<1> QED  BY <1>1, <1>2, Frames DEF TypeInv

LEMMA TimeoutTypes ==
    ASSUME TypeInv, NEW g \in Runners, AskTimesOut(g)
    PROVE  TypeInv'
<1> DEFINE late == [run[g] EXCEPT !.timedOut = TRUE]
<1>1. /\ run' = [run EXCEPT ![g] = late]
      /\ UNCHANGED record /\ UNCHANGED table /\ UNCHANGED hold /\ UNCHANGED stopping
      /\ UNCHANGED gate /\ UNCHANGED fired /\ UNCHANGED pc
      /\ UNCHANGED snap /\ UNCHANGED picks /\ UNCHANGED arg
  BY Zenon DEF AskTimesOut, local
<1>2. late \in RunRecs /\ late.node = run[g].node
  <2>1. run[g] \in RunRecs
    BY DEF TypeInv, RunType
  <2> QED  BY <2>1, RunFields
<1> HIDE DEF late
<1>3. RunType' /\ NodesKept
  BY <1>1, <1>2, RunKeeps DEF TypeInv
<1>4. PcType' /\ Marks' /\ Targets' /\ ArgType'
  BY <1>1, <1>3, StandStill
<1> QED  BY <1>1, <1>3, <1>4, Frames DEF TypeInv

LEMMA StopOwnerTypes ==
    ASSUME TypeInv, NEW o \in Owners, StopOwner(o)
    PROVE  TypeInv'
<1> DEFINE stopped(g) == [run[g] EXCEPT !.stopped = TRUE]
<1>1. /\ run' = [g \in Runners |-> IF run[g].owner = o /\ runs[run[g].node] = g
                                   THEN stopped(g) ELSE run[g]]
      /\ UNCHANGED record /\ UNCHANGED table /\ UNCHANGED hold /\ UNCHANGED stopping
      /\ UNCHANGED gate /\ UNCHANGED fired /\ UNCHANGED pc
      /\ UNCHANGED snap /\ UNCHANGED picks /\ UNCHANGED arg
  BY Zenon DEF StopOwner, local
<1>2. \A g \in Runners : /\ run[g] \in RunRecs
                         /\ stopped(g) \in RunRecs /\ stopped(g).node = run[g].node
  BY RunFields DEF TypeInv, RunType
<1> HIDE DEF stopped
<1>3. RunType' /\ NodesKept
  BY <1>1, <1>2 DEF RunType, NodesKept
<1>4. PcType' /\ Marks' /\ Targets' /\ ArgType'
  BY <1>1, <1>3, StandStill
<1> QED  BY <1>1, <1>3, <1>4, Frames DEF TypeInv

LEMMA SettleTypes ==
    ASSUME TypeInv, NEW g \in Runners, Settle(g)
    PROVE  TypeInv'
<1> DEFINE ended(v) == [run[g] EXCEPT !.verdict = v]
<1>1. PICK v \in {"none", "done", "blocked", "interrupted", "held"} :
         run' = [run EXCEPT ![g] = ended(v)]
  <2>1. PICK end \in {"done", "blocked"} :
           run' = [run EXCEPT ![g] = ended(
               IF run[g].interrupt
               THEN IF IsJob(run[g].node) /\ run[g].sessionEnd THEN "blocked" ELSE "interrupted"
               ELSE IF run[g].timedOut \/ run[g].stopped THEN "blocked" ELSE end)]
    BY Zenon DEF Settle
  <2> QED  BY <2>1
<1>2. /\ pc[g] \in {"working", "asking"} /\ pc' = [pc EXCEPT ![g] = "settled"]
      /\ UNCHANGED record /\ UNCHANGED table /\ UNCHANGED hold /\ UNCHANGED stopping
      /\ UNCHANGED gate /\ UNCHANGED fired
      /\ UNCHANGED snap /\ UNCHANGED picks /\ UNCHANGED arg
  BY DEF Settle, local
<1>3. ended(v) \in RunRecs /\ ended(v).node = run[g].node
  <2>1. run[g] \in RunRecs
    BY DEF TypeInv, RunType
  <2> QED  BY <2>1, RunFields
<1> HIDE DEF ended
<1>4. RunType' /\ NodesKept
  BY <1>1, <1>3, RunKeeps DEF TypeInv
<1>5. PcType' /\ Marks' /\ Targets' /\ ArgType'
  BY <1>2, <1>4, MoveOnly, Blanks DEF Phases, Changing
<1> QED  BY <1>2, <1>4, <1>5, Frames DEF TypeInv

LEMMA CloseStepTypes ==
    ASSUME TypeInv, NEW g \in Runners, CloseStep(g)
    PROVE  TypeInv'
<1>1. /\ pc[g] = "settled" /\ pc' = [pc EXCEPT ![g] = "closed"]
      /\ UNCHANGED table /\ UNCHANGED hold /\ UNCHANGED stopping
      /\ UNCHANGED gate /\ UNCHANGED fired /\ UNCHANGED run
      /\ UNCHANGED snap /\ UNCHANGED picks /\ UNCHANGED arg
  BY Zenon DEF CloseStep, Moves, local
<1>2. PcType' /\ Marks' /\ Targets' /\ ArgType'
  BY <1>1, MoveOnly, SameNodes, Blanks DEF Phases, Changing
<1>3. RecordType'
  <2>1. CASE run[g].verdict \in {"held", "interrupted"}
    BY <2>1 DEF CloseStep, TypeInv, RecordType
  <2>2. CASE run[g].verdict \notin {"held", "interrupted"}
    <3>1. CloseAs(run[g].node, run[g].verdict)
      BY <2>2 DEF CloseStep
    <3>2. run[g].verdict \in Statuses
      BY <2>2 DEF TypeInv, RunType, RunRecs, Statuses
    <3> QED  BY <3>1, <3>2, CloseTypes DEF TypeInv
  <2> QED  BY <2>1, <2>2
<1> QED  BY <1>1, <1>2, <1>3, Frames DEF TypeInv

LEMMA RemoveRunTypes ==
    ASSUME TypeInv, NEW g \in Runners, RemoveRun(g)
    PROVE  TypeInv'
<1>1. /\ pc[g] = "closed" /\ pc' = [pc EXCEPT ![g] = "call"]
      /\ runs' = [runs EXCEPT ![run[g].node] = None]
      /\ UNCHANGED record /\ UNCHANGED pending /\ UNCHANGED slots /\ UNCHANGED jobScopes
      /\ UNCHANGED hold /\ UNCHANGED stopping /\ UNCHANGED gate /\ UNCHANGED fired
      /\ UNCHANGED run /\ UNCHANGED snap /\ UNCHANGED picks /\ UNCHANGED arg
  BY Zenon DEF RemoveRun, Moves, local
<1>2. PcType' /\ Marks' /\ Targets' /\ ArgType'
  BY <1>1, MoveOnly, SameNodes, Blanks DEF Phases, Changing
<1>3. TableType'
  BY <1>1 DEF TypeInv, TableType
<1> QED  BY <1>1, <1>2, <1>3, Frames DEF TypeInv

LEMMA FinishTypes ==
    ASSUME TypeInv, NEW g \in Runners, Finish(g)
    PROVE  TypeInv'
<1> DEFINE deaf(p) == [arg[p] EXCEPT !.on = None]
<1>1. /\ pc[g] = "closing"
      /\ pc' = [p \in Procs |->
                  IF p = g THEN "free"
                  ELSE IF p \in Assigners /\ pc[p] = "await" /\ arg[p].on = g THEN "assign"
                  ELSE pc[p]]
      /\ arg' = [p \in Procs |-> IF arg[p].on = g THEN deaf(p) ELSE arg[p]]
      /\ run' = [run EXCEPT ![g] = NoRun]
      /\ UNCHANGED record /\ UNCHANGED table /\ UNCHANGED hold /\ UNCHANGED stopping
      /\ UNCHANGED gate /\ UNCHANGED fired /\ UNCHANGED snap /\ UNCHANGED picks
  BY Zenon DEF Finish
<1>2. \A p \in Procs : /\ arg[p] \in ArgRecs
                       /\ deaf(p) \in ArgRecs /\ deaf(p).id = arg[p].id
  BY ArgFields DEF TypeInv, ArgType
<1> HIDE DEF deaf
<1>3. /\ PcType' /\ pc'[g] = "free"
      /\ \A p \in Procs : pc'[p] # pc[p] =>
            p = g \/ (pc[p] = "await" /\ pc'[p] = "assign")
  BY <1>1, Blanks DEF TypeInv, PcType, Phases
<1>4. ArgType' /\ \A p \in Procs : /\ arg'[p].id = arg[p].id
                                   /\ arg[p].on # g => arg'[p] = arg[p]
  BY <1>1, <1>2 DEF ArgType
<1>5. Calm
  <2>1. \A p \in Procs : pc[p] = "mark" => arg[p].on # g
    BY <1>1 DEF TypeInv, Marks
  <2>2. \A q \in Procs : pc'[q] # pc[q] =>
          pc[q] \notin {"mark", "installed"} /\ pc'[q] \notin {"mark", "installed"}
    BY <1>1, <1>3
  <2>3. \A h \in Runners : pc[h] = "installed" => run'[h].node = run[h].node
    BY <1>1 DEF TypeInv, RunType
  <2> QED  BY <1>4, <2>1, <2>2, <2>3 DEF Calm
<1>6. Targets'
  BY <1>3, <1>4 DEF TypeInv, Targets, Changing
<1>7. RunType'
  BY <1>1, Blanks DEF TypeInv, RunType
<1> QED  BY <1>1, <1>3, <1>4, <1>5, <1>6, <1>7, CalmKeeps, Frames DEF TypeInv
-----------------------------------------------------------------------------
(* AssignOwner and SetScope *)

LEMMA AssignChecksTypes ==
    ASSUME TypeInv, NEW a \in Assigners, NEW i \in Steps, NEW o \in Owners \cup {None},
           AssignChecks(a, i, o)
    PROVE  TypeInv'
<1> DEFINE r == [NoArg EXCEPT !.id = i, !.owner = o, !.on = runs[i]]
           g == runs[i]
           cut == [run[g] EXCEPT !.interrupt = TRUE]
<1>0. a \in Procs /\ i \in Ids
  BY DEF Procs, Callers, Ids
<1>1. /\ pc[a] = "idle"
      /\ arg' = [arg EXCEPT ![a] = r]
      /\ IF g = None
         THEN pc' = [pc EXCEPT ![a] = "assign"] /\ UNCHANGED hold /\ UNCHANGED run
         ELSE /\ hold' = hold \cup {i}
              /\ run' = [run EXCEPT ![g] = cut]
              /\ pc' = [pc EXCEPT ![a] = "await"]
      /\ UNCHANGED record /\ UNCHANGED table /\ UNCHANGED stopping
      /\ UNCHANGED gate /\ UNCHANGED fired /\ UNCHANGED snap /\ UNCHANGED picks
  BY Zenon DEF AssignChecks
<1>2. r \in ArgRecs /\ r.id = i
  <2>1. runs[i] \in Runners \cup {None}
    BY <1>0 DEF TypeInv, TableType
  <2> QED  BY <1>0, <2>1 DEF ArgRecs, NoArg
<1>3. g # None => /\ g \in Runners /\ cut \in RunRecs /\ cut.node = run[g].node
  <2>1. g # None => g \in Runners
    BY <1>0 DEF TypeInv, TableType
  <2>2. g \in Runners => run[g] \in RunRecs
    BY DEF TypeInv, RunType
  <2> QED  BY <2>1, <2>2, RunFields
<1> HIDE DEF r, g, cut
<1>4. RunType' /\ NodesKept
  BY <1>1, <1>3, RunKeeps, SameNodes, Frames DEF TypeInv
<1>5. PICK to \in {"assign", "await"} : pc' = [pc EXCEPT ![a] = to]
  BY <1>1
<1>6. PcType' /\ Marks' /\ Targets' /\ ArgType'
  BY <1>0, <1>1, <1>2, <1>4, <1>5, MoveArg DEF Phases
<1>7. TableType'
  BY <1>0, <1>1 DEF TypeInv, TableType, table
<1> QED  BY <1>1, <1>4, <1>6, <1>7, Frames DEF TypeInv

LEMMA AssignRewritesTypes ==
    ASSUME TypeInv, NEW a \in Assigners, AssignRewrites(a)
    PROVE  TypeInv'
<1> DEFINE i == arg[a].id
           o == arg[a].owner
           r == [arg[a] EXCEPT !.any = step[i].owner # o]
<1>0. a \in Procs
  BY DEF Procs, Callers
<1>1. /\ pc[a] = "assign"
      /\ \/ pc' = [pc EXCEPT ![a] = "giveup"] /\ UNCHANGED step /\ UNCHANGED arg
         \/ /\ step' = [step EXCEPT ![i].owner = o]
            /\ arg' = [arg EXCEPT ![a] = r]
            /\ pc' = [pc EXCEPT ![a] = "release"]
      /\ UNCHANGED dispatched /\ UNCHANGED table /\ UNCHANGED hold /\ UNCHANGED stopping
      /\ UNCHANGED gate /\ UNCHANGED fired /\ UNCHANGED run
      /\ UNCHANGED snap /\ UNCHANGED picks
  BY Zenon DEF AssignRewrites
<1>2. arg[a] \in ArgRecs /\ i \in Ids /\ o \in Owners \cup {None}
  BY <1>0, <1>1, ArgFields DEF TypeInv, ArgType, Targets, Changing
<1>3. r \in ArgRecs /\ r.id = i
  <2>1. (step[i].owner # o) \in BOOLEAN
    OBVIOUS
  <2>2. \A b \in BOOLEAN : [arg[a] EXCEPT !.any = b] \in ArgRecs
                           /\ [arg[a] EXCEPT !.any = b].id = i
    BY <1>2, ArgFields
  <2> QED  BY <2>1, <2>2, Zenon
<1>4. RecordType'
  BY <1>1, <1>2, StepFields DEF TypeInv, RecordType
<1> HIDE DEF r, o
<1>5. PcType' /\ Marks' /\ Targets' /\ ArgType'
  <2>1. CASE pc' = [pc EXCEPT ![a] = "giveup"] /\ UNCHANGED arg
    BY <1>0, <1>1, <1>2, <2>1, MoveOnly, SameNodes DEF Phases
  <2>2. CASE pc' = [pc EXCEPT ![a] = "release"] /\ arg' = [arg EXCEPT ![a] = r]
    BY <1>0, <1>1, <1>2, <1>3, <2>2, MoveArg, SameNodes DEF Phases
  <2> QED  BY <1>1, <2>1, <2>2
<1> QED  BY <1>1, <1>4, <1>5, Frames DEF TypeInv

LEMMA AssignReleasesTypes ==
    ASSUME TypeInv, NEW a \in Assigners, AssignReleases(a)
    PROVE  TypeInv'
<1>0. a \in Procs
  BY DEF Procs, Callers
<1>1. PICK to \in {"call", "idle"} : pc' = [pc EXCEPT ![a] = to]
  BY DEF AssignReleases
<1>2. /\ pc[a] \in {"release", "giveup"}
      /\ hold' = hold \ {arg[a].id}
      /\ allowed' = IF arg[a].any THEN allowed \cup {arg[a].id} ELSE allowed
      /\ arg' = [arg EXCEPT ![a] = NoArg]
      /\ UNCHANGED record /\ UNCHANGED table /\ UNCHANGED stopping
      /\ UNCHANGED declined /\ UNCHANGED fired /\ UNCHANGED run
      /\ UNCHANGED snap /\ UNCHANGED picks
  BY Zenon DEF AssignReleases
<1>3. arg[a].id \in Ids
  BY <1>0, <1>2 DEF TypeInv, Targets, Changing
<1>4. PcType' /\ Marks' /\ Targets' /\ ArgType'
  BY <1>0, <1>1, <1>2, MoveArg, SameNodes, Blanks DEF Phases, Changing
<1>5. TableType' /\ GateType'
  BY <1>2, <1>3 DEF TypeInv, TableType, GateType, table
<1> QED  BY <1>2, <1>4, <1>5, Frames DEF TypeInv

LEMMA ScopeChecksTypes ==
    ASSUME TypeInv, NEW c \in Scopers, NEW i \in Steps, NEW new \in SUBSET Paths,
           ScopeChecks(c, i, new)
    PROVE  TypeInv'
<1> DEFINE r == [NoArg EXCEPT !.id = i, !.scope = new, !.on = runs[i]]
<1>0. c \in Procs /\ i \in Ids
  BY DEF Procs, Callers, Ids
<1>1. /\ pc[c] = "idle" /\ pc' = [pc EXCEPT ![c] = "rescope"]
      /\ arg' = [arg EXCEPT ![c] = r]
      /\ UNCHANGED record /\ UNCHANGED table /\ UNCHANGED hold /\ UNCHANGED stopping
      /\ UNCHANGED gate /\ UNCHANGED fired /\ UNCHANGED run
      /\ UNCHANGED snap /\ UNCHANGED picks
  BY Zenon DEF ScopeChecks
<1>2. r \in ArgRecs /\ r.id = i
  <2>1. runs[i] \in Runners \cup {None}
    BY <1>0 DEF TypeInv, TableType
  <2> QED  BY <1>0, <2>1 DEF ArgRecs, NoArg
<1> HIDE DEF r
<1>3. PcType' /\ Marks' /\ Targets' /\ ArgType'
  BY <1>0, <1>1, <1>2, MoveArg, SameNodes DEF Phases
<1> QED  BY <1>1, <1>3, Frames DEF TypeInv

LEMMA ScopeRewritesTypes ==
    ASSUME TypeInv, NEW c \in Scopers, ScopeRewrites(c)
    PROVE  TypeInv'
<1> DEFINE i == arg[c].id
           s == arg[c].scope
           r == [arg[c] EXCEPT !.any = step[i].scope # s]
<1>0. c \in Procs
  BY DEF Procs, Callers
<1>1. /\ pc[c] = "rescope"
      /\ \/ /\ pc' = [pc EXCEPT ![c] = "idle"]
            /\ arg' = [arg EXCEPT ![c] = NoArg] /\ UNCHANGED step
         \/ /\ step' = [step EXCEPT ![i].scope = s]
            /\ arg' = [arg EXCEPT ![c] = r]
            /\ pc' = [pc EXCEPT ![c] = "apply"]
      /\ UNCHANGED dispatched /\ UNCHANGED table /\ UNCHANGED hold /\ UNCHANGED stopping
      /\ UNCHANGED gate /\ UNCHANGED fired /\ UNCHANGED run
      /\ UNCHANGED snap /\ UNCHANGED picks
  BY Zenon DEF ScopeRewrites
<1>2. arg[c] \in ArgRecs /\ i \in Ids /\ s \in SUBSET Paths
  BY <1>0, <1>1, ArgFields DEF TypeInv, ArgType, Targets, Changing
<1>3. r \in ArgRecs /\ r.id = i
  <2>1. (step[i].scope # s) \in BOOLEAN
    OBVIOUS
  <2>2. \A b \in BOOLEAN : [arg[c] EXCEPT !.any = b] \in ArgRecs
                           /\ [arg[c] EXCEPT !.any = b].id = i
    BY <1>2, ArgFields
  <2> QED  BY <2>1, <2>2, Zenon
<1>4. RecordType'
  <2>1. [step EXCEPT ![i].scope = s] \in Trees
    BY <1>2, StepFields DEF TypeInv
  <2> QED  BY <1>1, <2>1 DEF TypeInv, RecordType
<1> HIDE DEF r, s
<1>5. PcType' /\ Marks' /\ Targets' /\ ArgType'
  <2>1. CASE pc' = [pc EXCEPT ![c] = "idle"] /\ arg' = [arg EXCEPT ![c] = NoArg]
    BY <1>0, <1>1, <2>1, MoveForget, SameNodes DEF Phases, Changing
  <2>2. CASE pc' = [pc EXCEPT ![c] = "apply"] /\ arg' = [arg EXCEPT ![c] = r]
    BY <1>0, <1>1, <1>2, <1>3, <2>2, MoveArg, SameNodes DEF Phases
  <2> QED  BY <1>1, <2>1, <2>2
<1> QED  BY <1>1, <1>4, <1>5, Frames DEF TypeInv

LEMMA ScopeAppliesTypes ==
    ASSUME TypeInv, NEW c \in Scopers, ScopeApplies(c)
    PROVE  TypeInv'
<1> DEFINE g == arg[c].on
           wide == [run[g] EXCEPT !.scope = arg[c].scope]
<1>0. c \in Procs
  BY DEF Procs, Callers
<1>1. /\ pc[c] = "apply"
      /\ \/ UNCHANGED run
         \/ g # None /\ run' = [run EXCEPT ![g] = wide]
      /\ allowed' = IF arg[c].any THEN allowed \cup {arg[c].id} ELSE allowed
      /\ UNCHANGED record /\ UNCHANGED table /\ UNCHANGED hold /\ UNCHANGED stopping
      /\ UNCHANGED declined /\ UNCHANGED fired /\ UNCHANGED snap /\ UNCHANGED picks
  BY Zenon DEF ScopeApplies
<1>2. PICK to \in {"call", "answer"} : pc' = [pc EXCEPT ![c] = to]
  BY DEF ScopeApplies
<1>3. (to = "call" /\ arg' = [arg EXCEPT ![c] = NoArg]) \/ UNCHANGED arg
  <2>1. pc'[c] = to
    BY <1>0, <1>2 DEF TypeInv, PcType
  <2> QED  BY <1>2, <2>1, Zenon DEF ScopeApplies
<1>4. arg[c].id \in Ids /\ (g # None => g \in Runners) /\ arg[c].scope \in SUBSET Paths
  BY <1>0, <1>1, ArgFields DEF TypeInv, ArgType, Targets, Changing
<1>5. g # None => wide \in RunRecs /\ wide.node = run[g].node
  <2>1. g \in Runners => run[g] \in RunRecs
    BY DEF TypeInv, RunType
  <2> QED  BY <1>4, <2>1, RunFields
<1> HIDE DEF g, wide
<1>6. RunType' /\ NodesKept
  BY <1>1, <1>4, <1>5, RunKeeps, SameNodes, Frames DEF TypeInv
<1>7. PcType' /\ Marks' /\ Targets' /\ ArgType'
  BY <1>0, <1>1, <1>2, <1>3, <1>4, <1>6, MoveArg, MoveOnly, Blanks DEF Phases, Changing
<1>8. GateType'
  BY <1>1, <1>4 DEF TypeInv, GateType
<1> QED  BY <1>1, <1>6, <1>7, <1>8, Frames DEF TypeInv

LEMMA ScopeAnswersTypes ==
    ASSUME TypeInv, NEW c \in Scopers, ScopeAnswers(c)
    PROVE  TypeInv'
<1> DEFINE g == runs[arg[c].id]
           told == [run[g] EXCEPT !.question = FALSE]
<1>0. c \in Procs
  BY DEF Procs, Callers
<1>1. /\ pc[c] = "answer" /\ pc' = [pc EXCEPT ![c] = "call"]
      /\ run' = IF g = None THEN run ELSE [run EXCEPT ![g] = told]
      /\ arg' = [arg EXCEPT ![c] = NoArg]
      /\ UNCHANGED record /\ UNCHANGED table /\ UNCHANGED hold /\ UNCHANGED stopping
      /\ UNCHANGED gate /\ UNCHANGED fired /\ UNCHANGED snap /\ UNCHANGED picks
  BY Zenon DEF ScopeAnswers, Moves
<1>2. g \in Runners => told \in RunRecs /\ told.node = run[g].node
  <2>1. g \in Runners => run[g] \in RunRecs
    BY DEF TypeInv, RunType
  <2> QED  BY <2>1, RunFields
<1> HIDE DEF g, told
<1>3. RunType' /\ NodesKept
  <2>1. CASE g \in Runners /\ g # None
    BY <1>1, <1>2, <2>1, RunKeeps DEF TypeInv
  <2>2. CASE g \notin Runners \/ g = None
    BY <1>1, <2>2 DEF TypeInv, RunType, NodesKept
  <2> QED  BY <2>1, <2>2
<1>4. PcType' /\ Marks' /\ Targets' /\ ArgType'
  BY <1>0, <1>1, <1>3, MoveForget DEF Phases, Changing
<1> QED  BY <1>1, <1>3, <1>4, Frames DEF TypeInv
-----------------------------------------------------------------------------
(* Stopping, scheduled events, the resume pass and the startup gate *)

LEMMA StopAllTypes ==
    ASSUME TypeInv, NEW s \in Stoppers, StopAll(s)
    PROVE  TypeInv'
<1> DEFINE cut(g) == [run[g] EXCEPT !.interrupt = TRUE, !.sessionEnd = TRUE]
<1>0. s \in Procs
  BY DEF Procs, Callers
<1>1. /\ pc[s] = "idle" /\ pc' = [pc EXCEPT ![s] = "draining"]
      /\ stopping' = TRUE
      /\ run' = [g \in Runners |-> IF run[g].node # None /\ runs[run[g].node] = g
                                   THEN cut(g) ELSE run[g]]
      /\ UNCHANGED record /\ UNCHANGED table /\ UNCHANGED hold
      /\ UNCHANGED gate /\ UNCHANGED fired
      /\ UNCHANGED snap /\ UNCHANGED picks /\ UNCHANGED arg
  BY Zenon DEF StopAll, Moves, local
<1>2. \A g \in Runners : /\ run[g] \in RunRecs
                         /\ cut(g) \in RunRecs /\ cut(g).node = run[g].node
  BY RunFields DEF TypeInv, RunType
<1> HIDE DEF cut
<1>3. RunType' /\ NodesKept
  BY <1>1, <1>2 DEF RunType, NodesKept
<1>4. PcType' /\ Marks' /\ Targets' /\ ArgType'
  BY <1>0, <1>1, <1>3, MoveOnly DEF Phases, Changing
<1>5. GateType'
  BY <1>1 DEF TypeInv, GateType, gate
<1> QED  BY <1>1, <1>3, <1>4, <1>5, Frames DEF TypeInv

LEMMA StopReturnsTypes ==
    ASSUME TypeInv, NEW s \in Stoppers, NEW b \in BOOLEAN, StopReturns(s, b)
    PROVE  TypeInv'
<1> DEFINE r == [arg[s] EXCEPT !.any = b]
<1>0. s \in Procs
  BY DEF Procs, Callers
<1>1. /\ pc[s] = "draining" /\ pc' = [pc EXCEPT ![s] = "stopped"]
      /\ arg' = [arg EXCEPT ![s] = r]
      /\ UNCHANGED record /\ UNCHANGED table /\ UNCHANGED hold /\ UNCHANGED stopping
      /\ UNCHANGED gate /\ UNCHANGED fired /\ UNCHANGED run
      /\ UNCHANGED snap /\ UNCHANGED picks
  BY Zenon DEF StopReturns, Moves
<1>2. r \in ArgRecs
  BY <1>0, ArgFields DEF TypeInv, ArgType
<1> HIDE DEF r
<1>3. PcType' /\ Marks' /\ Targets' /\ ArgType'
  BY <1>0, <1>1, <1>2, MoveNote, SameNodes DEF Phases, Changing
<1> QED  BY <1>1, <1>3, Frames DEF TypeInv

LEMMA EnableTypes ==
    ASSUME TypeInv, NEW s \in Stoppers, EnableSubAgents(s)
    PROVE  TypeInv'
<1>0. s \in Procs
  BY DEF Procs, Callers
<1>1. /\ pc[s] = "stopped" /\ pc' = [pc EXCEPT ![s] = "idle"]
      /\ arg' = [arg EXCEPT ![s] = NoArg] /\ stopping' = FALSE
      /\ UNCHANGED record /\ UNCHANGED table /\ UNCHANGED hold
      /\ UNCHANGED gate /\ UNCHANGED fired /\ UNCHANGED run
      /\ UNCHANGED snap /\ UNCHANGED picks
  BY Zenon DEF EnableSubAgents, Moves
<1>2. PcType' /\ Marks' /\ Targets' /\ ArgType'
  BY <1>0, <1>1, MoveForget, SameNodes DEF Phases, Changing
<1>3. GateType'
  BY <1>1 DEF TypeInv, GateType, gate
<1> QED  BY <1>1, <1>2, <1>3, Frames DEF TypeInv

LEMMA FireTypes ==
    ASSUME TypeInv, NEW f \in Firers, FireBegins(f) \/ FireEnds(f)
    PROVE  TypeInv'
<1>0. f \in Procs
  BY DEF Procs, Callers
<1>1. PICK to \in {"firing", "call"} : pc' = [pc EXCEPT ![f] = to]
  BY DEF FireBegins, FireEnds, Moves
<1>2. /\ pc[f] \in {"idle", "firing"} /\ fired' \in BOOLEAN
      /\ UNCHANGED record /\ UNCHANGED table /\ UNCHANGED hold /\ UNCHANGED stopping
      /\ UNCHANGED gate /\ UNCHANGED run
      /\ UNCHANGED snap /\ UNCHANGED picks /\ UNCHANGED arg
  BY DEF FireBegins, FireEnds, Moves, local
<1>3. PcType' /\ Marks' /\ Targets' /\ ArgType'
  BY <1>0, <1>1, <1>2, MoveOnly, SameNodes DEF Phases, Changing
<1>4. GateType'
  BY <1>2 DEF TypeInv, GateType, gate
<1> QED  BY <1>2, <1>3, <1>4, Frames DEF TypeInv

\* The resume pass and the gate each read the tree.
LEMMA GateReadsTypes ==
    ASSUME TypeInv, NEW t \in Gates, ResumeReads(t) \/ GateReads(t)
    PROVE  TypeInv'
<1>0. t \in Procs
  BY DEF Procs, Callers
<1>1. PICK to \in {"resume", "gate"} : pc' = [pc EXCEPT ![t] = to]
  BY DEF ResumeReads, GateReads, Moves
<1>2. /\ pc[t] \in {"idle", "startup"}
      /\ snap' = [snap EXCEPT ![t] = step]
      /\ UNCHANGED record /\ UNCHANGED table /\ UNCHANGED hold /\ UNCHANGED stopping
      /\ UNCHANGED gate /\ UNCHANGED fired /\ UNCHANGED run
      /\ UNCHANGED picks /\ UNCHANGED arg
  BY DEF ResumeReads, GateReads, Moves
<1>3. PcType' /\ Marks' /\ Targets' /\ ArgType'
  BY <1>0, <1>1, <1>2, MoveOnly, SameNodes DEF Phases, Changing
<1>4. SnapType'
  BY <1>0, <1>2, SnapKeeps DEF TypeInv, RecordType
<1> QED  BY <1>2, <1>3, <1>4, Frames DEF TypeInv

LEMMA ResumeChecksTypes ==
    ASSUME TypeInv, NEW t \in Gates, ResumeChecks(t)
    PROVE  TypeInv'
<1> DEFINE orphans == {j \in Jobs : /\ slots = {}
                          /\ snap[t][j].status = "todo" /\ j \notin RunningIds \cup pending}
           r == [NoArg EXCEPT !.ids = orphans]
<1>0. t \in Procs
  BY DEF Procs, Callers
<1>1. /\ pc[t] = "resume" /\ pc' = [pc EXCEPT ![t] = "orphans"]
      /\ arg' = [arg EXCEPT ![t] = r] /\ snap' = [snap EXCEPT ![t] = Blank]
      /\ UNCHANGED record /\ UNCHANGED table /\ UNCHANGED hold /\ UNCHANGED stopping
      /\ UNCHANGED gate /\ UNCHANGED fired /\ UNCHANGED run /\ UNCHANGED picks
  BY Zenon DEF ResumeChecks, Moves
<1>2. r \in ArgRecs
  <2>1. orphans \in SUBSET Ids
    BY DEF Ids
  <2> HIDE DEF orphans
  <2> QED  BY <2>1, ArgFields, Blanks
<1> HIDE DEF r
<1>3. PcType' /\ Marks' /\ Targets' /\ ArgType'
  BY <1>0, <1>1, <1>2, MoveNote, SameNodes DEF Phases, Changing
<1>4. SnapType'
  BY <1>0, <1>1, SnapKeeps, Blanks DEF TypeInv
<1> QED  BY <1>1, <1>3, <1>4, Frames DEF TypeInv

LEMMA ResumeClosesTypes ==
    ASSUME TypeInv, NEW t \in Gates, NEW j \in Jobs, ResumeCloses(t, j)
    PROVE  TypeInv'
<1> DEFINE r == [arg[t] EXCEPT !.ids = @ \ {j}]
<1>0. t \in Procs
  BY DEF Procs, Callers
<1>1. /\ pc[t] = "orphans" /\ CloseAs(j, "blocked")
      /\ arg' = [arg EXCEPT ![t] = r]
      /\ UNCHANGED table /\ UNCHANGED hold /\ UNCHANGED stopping
      /\ UNCHANGED gate /\ UNCHANGED fired /\ UNCHANGED run
      /\ UNCHANGED pc /\ UNCHANGED snap /\ UNCHANGED picks
  BY Zenon DEF ResumeCloses
<1>2. r \in ArgRecs
  <2>1. arg[t] \in ArgRecs
    BY <1>0 DEF TypeInv, ArgType
  <2>2. arg[t].ids \ {j} \in SUBSET Ids
    BY <2>1, ArgFields
  <2> QED  BY <2>1, <2>2, ArgFields
<1> HIDE DEF r
<1>3. ArgType' /\ arg'[t] = r /\ \A q \in Procs \ {t} : arg'[q] = arg[q]
  BY <1>0, <1>1, <1>2, ArgKeeps DEF TypeInv
<1>4. Calm
  BY <1>1, <1>3 DEF Calm
<1>5. PcType' /\ Targets'
  BY <1>1, <1>3 DEF TypeInv, PcType, Targets, Changing
<1>6. RecordType'
  BY <1>1, CloseTypes DEF TypeInv, Statuses
<1> QED  BY <1>1, <1>3, <1>4, <1>5, <1>6, CalmKeeps, Frames DEF TypeInv

LEMMA ResumeDoneTypes ==
    ASSUME TypeInv, NEW t \in Gates, ResumeDone(t)
    PROVE  TypeInv'
<1>0. t \in Procs
  BY DEF Procs, Callers
<1>1. /\ pc[t] = "orphans" /\ pc' = [pc EXCEPT ![t] = "startup"]
      /\ arg' = [arg EXCEPT ![t] = NoArg]
      /\ UNCHANGED record /\ UNCHANGED table /\ UNCHANGED hold /\ UNCHANGED stopping
      /\ UNCHANGED gate /\ UNCHANGED fired /\ UNCHANGED run
      /\ UNCHANGED snap /\ UNCHANGED picks
  BY Zenon DEF ResumeDone, Moves
<1>2. PcType' /\ Marks' /\ Targets' /\ ArgType'
  BY <1>0, <1>1, MoveForget, SameNodes DEF Phases, Changing
<1> QED  BY <1>1, <1>2, Frames DEF TypeInv

LEMMA GateAsksTypes ==
    ASSUME TypeInv, NEW t \in Gates, GateAsks(t)
    PROVE  TypeInv'
<1>0. t \in Procs
  BY DEF Procs, Callers
<1>1. PICK R \in SUBSET Steps :
         pc[t] = "gate" /\ pc' = [pc EXCEPT ![t] = IF R = {} THEN "call" ELSE "question"]
  BY Zenon DEF GateAsks, Moves
<1>2. PICK to \in {"call", "question"} : pc' = [pc EXCEPT ![t] = to]
  BY <1>1
<1>3. /\ snap' = [snap EXCEPT ![t] = Blank]
      /\ UNCHANGED record /\ UNCHANGED table /\ UNCHANGED hold /\ UNCHANGED stopping
      /\ UNCHANGED gate /\ UNCHANGED fired /\ UNCHANGED run
      /\ UNCHANGED picks /\ UNCHANGED arg
  BY Zenon DEF GateAsks
<1>4. PcType' /\ Marks' /\ Targets' /\ ArgType'
  BY <1>0, <1>1, <1>2, <1>3, MoveOnly, SameNodes DEF Phases, Changing
<1>5. SnapType'
  BY <1>0, <1>3, SnapKeeps, Blanks DEF TypeInv
<1> QED  BY <1>3, <1>4, <1>5, Frames DEF TypeInv

LEMMA GateAnsweredTypes ==
    ASSUME TypeInv, NEW t \in Gates, NEW yes \in BOOLEAN, GateAnswered(t, yes)
    PROVE  TypeInv'
<1>0. t \in Procs
  BY DEF Procs, Callers
<1>1. /\ pc[t] = "question" /\ pc' = [pc EXCEPT ![t] = "call"]
      /\ (UNCHANGED gate) \/ (declined' = TRUE /\ allowed' = {})
      /\ UNCHANGED record /\ UNCHANGED table /\ UNCHANGED hold /\ UNCHANGED stopping
      /\ UNCHANGED fired /\ UNCHANGED run
      /\ UNCHANGED snap /\ UNCHANGED picks /\ UNCHANGED arg
  BY DEF GateAnswered, Moves, local
<1>2. PcType' /\ Marks' /\ Targets' /\ ArgType'
  BY <1>0, <1>1, MoveOnly, SameNodes DEF Phases, Changing
<1>3. GateType'
  BY <1>1 DEF TypeInv, GateType, gate
<1> QED  BY <1>1, <1>2, <1>3, Frames DEF TypeInv

LEMMA StartClearsTypes ==
    ASSUME TypeInv, NEW t \in Starters, StartClears(t)
    PROVE  TypeInv'
<1> DEFINE r == [NoArg EXCEPT !.declined = declined, !.ids = allowed]
<1>0. t \in Procs
  BY DEF Procs, Callers
<1>1. PICK to \in {"idle", "call"} : pc' = [pc EXCEPT ![t] = to]
  BY DEF StartClears, Moves
<1>2. /\ pc[t] = "idle"
      /\ (UNCHANGED arg) \/ arg' = [arg EXCEPT ![t] = r]
      /\ declined' = FALSE /\ allowed' = {}
      /\ UNCHANGED record /\ UNCHANGED table /\ UNCHANGED hold /\ UNCHANGED stopping
      /\ UNCHANGED fired /\ UNCHANGED run /\ UNCHANGED snap /\ UNCHANGED picks
  BY Zenon DEF StartClears, Moves
<1>3. r \in ArgRecs
  BY DEF TypeInv, GateType, ArgRecs, NoArg
<1> HIDE DEF r
<1>4. PcType' /\ Marks' /\ Targets' /\ ArgType'
  BY <1>0, <1>1, <1>2, <1>3, MoveOnly, MoveArg, SameNodes DEF Phases, Changing
<1>5. GateType'
  BY <1>2 DEF TypeInv, GateType
<1> QED  BY <1>2, <1>4, <1>5, Frames DEF TypeInv

LEMMA StartRestoresTypes ==
    ASSUME TypeInv, NEW t \in Starters, StartRestores(t)
    PROVE  TypeInv'
<1>0. t \in Procs
  BY DEF Procs, Callers
<1>1. /\ pc[t] = "restore" /\ pc' = [pc EXCEPT ![t] = "idle"]
      /\ declined' = arg[t].declined /\ allowed' = allowed \cup arg[t].ids
      /\ arg' = [arg EXCEPT ![t] = NoArg]
      /\ UNCHANGED record /\ UNCHANGED table /\ UNCHANGED hold /\ UNCHANGED stopping
      /\ UNCHANGED fired /\ UNCHANGED run /\ UNCHANGED snap /\ UNCHANGED picks
  BY Zenon DEF StartRestores, Moves
<1>2. PcType' /\ Marks' /\ Targets' /\ ArgType'
  BY <1>0, <1>1, MoveForget, SameNodes DEF Phases, Changing
<1>3. arg[t].declined \in BOOLEAN /\ arg[t].ids \in SUBSET Ids
  BY <1>0, ArgFields DEF TypeInv, ArgType
<1>4. GateType'
  BY <1>1, <1>3 DEF TypeInv, GateType
<1> QED  BY <1>1, <1>2, <1>4, Frames DEF TypeInv

LEMMA SetStatusTypes ==
    ASSUME TypeInv, NEW i \in Steps, NEW s \in Statuses, SetStatus(i, s)
    PROVE  TypeInv'
<1>1. /\ step' = [step EXCEPT ![i].status = s] /\ UNCHANGED dispatched
      /\ UNCHANGED table /\ UNCHANGED hold /\ UNCHANGED stopping
      /\ UNCHANGED gate /\ UNCHANGED fired /\ UNCHANGED run
      /\ UNCHANGED pc /\ UNCHANGED snap /\ UNCHANGED picks /\ UNCHANGED arg
  BY Zenon DEF SetStatus, local
<1>2. RecordType'
  BY <1>1, StepFields DEF TypeInv, RecordType
<1>3. PcType' /\ Marks' /\ Targets' /\ ArgType'
  BY <1>1, StandStill, SameNodes
<1> QED  BY <1>1, <1>2, <1>3, Frames DEF TypeInv

LEMMA CrashTypes ==
    ASSUME TypeInv, Crash
    PROVE  TypeInv'
<1> USE Blanks DEF Crash
<1>1. RecordType' /\ TableType' /\ GateType'
  BY DEF TypeInv, RecordType, TableType, GateType
<1>2. RunType' /\ SnapType' /\ PicksType' /\ ArgType'
  BY DEF RunType, SnapType, PicksType, ArgType
<1>3. \A p \in Procs : pc'[p] \in {"free", "lost", "idle"}
  OBVIOUS
<1>4. PcType'
  BY DEF PcType, Phases
<1>5. Marks' /\ Targets'
  BY <1>3 DEF Marks, Targets, Changing
<1> QED  BY <1>1, <1>2, <1>4, <1>5 DEF TypeInv

-----------------------------------------------------------------------------
LEMMA TypeStep == TypeInv /\ [Next]_vars => TypeInv'
<1> SUFFICES ASSUME TypeInv, [Next]_vars PROVE TypeInv'
  OBVIOUS
<1>1. ASSUME NEW p \in Procs, ScheduleStep(p) PROVE TypeInv'
  BY <1>1, ReadTreeTypes, ReserveTypes, MarkTypes, GiveBackTypes, InstallTypes, Zenon
     DEF ScheduleStep
<1>2. ASSUME NEW s \in Schedulers, ScheduleSubAgents(s) PROVE TypeInv'
  <2>0. s \in Procs
    BY DEF Procs, Callers
  <2>1. /\ pc[s] = "idle" /\ pc' = [pc EXCEPT ![s] = "call"]
        /\ UNCHANGED record /\ UNCHANGED table /\ UNCHANGED hold /\ UNCHANGED stopping
        /\ UNCHANGED gate /\ UNCHANGED fired /\ UNCHANGED run
        /\ UNCHANGED snap /\ UNCHANGED picks /\ UNCHANGED arg
    BY <1>2, Zenon DEF ScheduleSubAgents, local
  <2>2. PcType' /\ Marks' /\ Targets' /\ ArgType'
    BY <2>0, <2>1, MoveOnly, SameNodes DEF Phases, Changing
  <2> QED  BY <2>1, <2>2, Frames DEF TypeInv
<1>3. ASSUME NEW j \in Jobs, JobStep(j) PROVE TypeInv'
  BY <1>3, JobReadsTypes, JobReservesTypes, JobFilesTypes, JobSwapsTypes, JobRereadsTypes,
     JobUnstartedTypes, Zenon DEF JobStep
<1>4. ASSUME NEW g \in Runners, RunStep(g) PROVE TypeInv'
  BY <1>4, ConsentTypes, AskTypes, TimeoutTypes, AnsweredTypes, SettleTypes, CloseStepTypes,
     RemoveRunTypes, FinishTypes, Zenon DEF RunStep, RunEnds
<1>5. ASSUME NEW a \in Assigners, AssignStep(a) PROVE TypeInv'
  BY <1>5, AssignChecksTypes, AssignRewritesTypes, AssignReleasesTypes, Zenon DEF AssignStep
<1>6. ASSUME NEW c \in Scopers, ScopeStep(c) PROVE TypeInv'
  <2>1. ASSUME NEW i \in Steps, NEW new \in SUBSET Paths \ {{}}, ScopeChecks(c, i, new)
        PROVE  TypeInv'
    <3>1. new \in SUBSET Paths
      OBVIOUS
    <3> QED  BY <2>1, <3>1, ScopeChecksTypes
  <2> QED  BY <1>6, <2>1, ScopeRewritesTypes, ScopeAppliesTypes, ScopeAnswersTypes, Zenon
              DEF ScopeStep
<1>7. ASSUME NEW s \in Stoppers, StopStep(s) PROVE TypeInv'
  BY <1>7, StopAllTypes, StopReturnsTypes, EnableTypes, Zenon DEF StopStep
<1>8. ASSUME NEW t \in Gates, ResumeStep(t) \/ GateStep(t) PROVE TypeInv'
  BY <1>8, GateReadsTypes, ResumeChecksTypes, ResumeClosesTypes, ResumeDoneTypes,
     GateAsksTypes, GateAnsweredTypes, Zenon DEF ResumeStep, GateStep
<1>9. ASSUME NEW t \in Starters, StartClears(t) \/ StartRestores(t) PROVE TypeInv'
  BY <1>9, StartClearsTypes, StartRestoresTypes, Zenon
<1>10. ASSUME NEW i \in Editable, NEW s \in Statuses \ {"none"}, SetStatus(i, s) PROVE TypeInv'
  BY <1>10, SetStatusTypes DEF Editable
<1>11. CASE UNCHANGED vars
  <2>1. /\ UNCHANGED record /\ UNCHANGED table /\ UNCHANGED hold /\ UNCHANGED stopping
        /\ UNCHANGED gate /\ UNCHANGED fired /\ UNCHANGED run
        /\ UNCHANGED pc /\ UNCHANGED snap /\ UNCHANGED picks /\ UNCHANGED arg
    BY <1>11, Zenon DEF vars, local
  <2>2. PcType' /\ Marks' /\ Targets' /\ ArgType'
    BY <2>1, StandStill, SameNodes
  <2> QED  BY <2>1, <2>2, Frames DEF TypeInv
<1> QED
  BY <1>1, <1>2, <1>3, <1>4, <1>5, <1>6, <1>7, <1>8, <1>9, <1>10, <1>11,
     ReplyTypes, StopOwnerTypes, FireTypes, CrashTypes, Zenon DEF Next, Stoppable

\* The types hold throughout, and what each caller remembers names a step
\* that exists and a goroutine that is there for it.
THEOREM TypeCorrect == Spec => []TypeOK
<1>1. TypeInv => TypeOK
  BY TypeInvImplies
<1>2. Spec => []TypeInv
  BY TypeInit, TypeStep, PTL DEF Spec
<1> QED  BY <1>1, <1>2, PTL

-----------------------------------------------------------------------------
(* The cap and the reservations *)

\* What a caller may have picked and not yet built, and where it is then.
Holding == {"reread", "build", "mark"}
Picking == \A p \in Procs :
    /\ picks[p] # {} => pc[p] \in Holding
    /\ picks[p] \subseteq IF p \in Jobs THEN {p} ELSE Steps

\* Where a dispatched job can be, and what it holds there: its slot until the
\* swap, its run only once it is installed.
JobPhases == {"idle", "check", "file", "filed", "reread", "build", "unstarted",
              "mark", "over", "lost"}
JobPlaces == \A j \in Jobs :
    /\ pc[j] \in JobPhases
    /\ pc[j] \in {"file", "filed"} => j \in slots
    /\ runs[j] # None => pc[j] \in {"mark", "over"}

\* The cap is kept by counting all three kinds; that none is counted away
\* too early rests on who holds which pick.
CapInv == Reservations /\ Picking /\ JobPlaces /\ Load <= MaxConcurrent

-----------------------------------------------------------------------------
(* Counting *)

LEMMA Finite ==
    ASSUME TypeInv
    PROVE  /\ IsFiniteSet(RunningIds) /\ IsFiniteSet(pending) /\ IsFiniteSet(slots)
           /\ Cardinality(RunningIds) \in Nat /\ Cardinality(pending) \in Nat
           /\ Cardinality(slots) \in Nat
<1>1. RunningIds \in SUBSET Ids /\ pending \in SUBSET Ids /\ slots \in SUBSET Ids
  BY DEF TypeInv, TableType, RunningIds, Ids
<1>2. IsFiniteSet(RunningIds) /\ IsFiniteSet(pending) /\ IsFiniteSet(slots)
  BY <1>1, FS_Subset, SubAgentsAssumption
<1> QED  BY <1>2, FS_CardinalityType

LEMMA AddOne ==
    ASSUME NEW S, IsFiniteSet(S), NEW x
    PROVE  Cardinality(S \cup {x}) <= Cardinality(S) + 1 /\ Cardinality(S \cup {x}) \in Nat
<1>1. IsFiniteSet(S \cup {x}) /\ Cardinality(S) \in Nat /\ Cardinality(S \cup {x}) \in Nat
  BY FS_AddElement, FS_CardinalityType
<1>2. CASE x \in S
  BY <1>1, <1>2, FS_AddElement
<1>3. CASE x \notin S
  BY <1>1, <1>3, FS_AddElement
<1> QED  BY <1>2, <1>3, <1>1

\* The steps in any of the three states are at most as many as are counted.
LEMMA LoadBounds ==
    ASSUME TypeInv, Load <= MaxConcurrent PROVE Capped
<1>1. /\ IsFiniteSet(RunningIds \cup pending)
      /\ Cardinality(RunningIds \cup pending) =
            Cardinality(RunningIds) + Cardinality(pending) - Cardinality(RunningIds \cap pending)
      /\ Cardinality(RunningIds \cap pending) \in Nat
      /\ Cardinality(RunningIds \cup pending) \in Nat
  BY Finite, FS_Union, FS_Intersection, FS_CardinalityType
<1>2. /\ Cardinality(RunningIds \cup pending \cup slots) =
            Cardinality(RunningIds \cup pending) + Cardinality(slots)
                - Cardinality((RunningIds \cup pending) \cap slots)
      /\ Cardinality((RunningIds \cup pending) \cap slots) \in Nat
  BY <1>1, Finite, FS_Union, FS_Intersection, FS_CardinalityType
<1>3. MaxConcurrent \in Nat
  BY SubAgentsAssumption
<1> HIDE DEF RunningIds
<1> QED  BY <1>1, <1>2, <1>3, Finite DEF Capped, Load

LEMMA CapInit == Init => CapInv
<1> SUFFICES ASSUME Init PROVE CapInv
  OBVIOUS
<1>1. Reservations
  BY DEF Init, Begin, Reservations, RunningIds
<1>2. Picking
  BY DEF Init, Begin, Picking
<1>3. JobPlaces
  BY SubAgentsAssumption, Blanks DEF Init, Begin, JobPlaces, JobPhases, Ids, Callers
<1>4. RunningIds = {} /\ pending = {} /\ slots = {}
  BY DEF Init, Begin, RunningIds
<1>5. Load <= MaxConcurrent
  BY <1>4, FS_EmptySet, SubAgentsAssumption DEF Load
<1> QED  BY <1>1, <1>2, <1>3, <1>5 DEF CapInv

-----------------------------------------------------------------------------
(* Steps that touch none of it *)

Elsewhere ==
    /\ UNCHANGED runs /\ UNCHANGED pending /\ UNCHANGED slots /\ UNCHANGED picks
    /\ \A p \in Procs : pc'[p] # pc[p] => p \notin Jobs /\ pc[p] \notin Holding

LEMMA ElsewhereKeeps ==
    ASSUME TypeInv, CapInv, Elsewhere PROVE CapInv'
<1>1. Reservations'
  BY DEF CapInv, Reservations, RunningIds, Elsewhere
<1>2. Picking'
  BY DEF CapInv, Picking, Elsewhere
<1>3. JobPlaces'
  BY Blanks DEF CapInv, JobPlaces, Elsewhere
<1>4. (Load <= MaxConcurrent)'
  BY DEF CapInv, Load, RunningIds, Elsewhere
<1> QED  BY <1>1, <1>2, <1>3, <1>4 DEF CapInv

LEMMA Disjoint ==
    /\ Runners \cap Jobs = {} /\ Callers \cap Jobs = {} /\ Steps \cap Jobs = {}
    /\ None \notin Runners
    /\ Schedulers \cup Assigners \cup Scopers \cup Stoppers \cup Firers \cup Gates
          \cup Starters \subseteq Callers
  BY SubAgentsAssumption DEF Callers

\* A goroutine or caller that is not building moves on.
LEMMA MovesElsewhere ==
    ASSUME TypeInv, NEW p \in Runners \cup Callers, pc[p] \notin Holding,
           NEW to, pc' = [pc EXCEPT ![p] = to],
           UNCHANGED table, UNCHANGED picks
    PROVE  Elsewhere
<1>1. p \notin Jobs
  BY Disjoint
<1> QED  BY <1>1 DEF TypeInv, PcType, Elsewhere, table

LEMMA RunsElsewhere ==
    ASSUME TypeInv, NEW g \in Runners,
           \/ Consent(g) \/ AskMain(g) \/ Answered(g) \/ AskTimesOut(g)
           \/ Settle(g) \/ CloseStep(g) \/ Finish(g)
    PROVE  Elsewhere
<1>1. CASE Consent(g)
  <2>1. pc[g] = "starting" /\ UNCHANGED table /\ UNCHANGED picks
    BY <1>1 DEF Consent, local
  <2>2. PICK to : pc' = [pc EXCEPT ![g] = to]
    BY <1>1 DEF Consent
  <2> QED  BY <2>1, <2>2, MovesElsewhere DEF Holding
<1>2. CASE AskMain(g) \/ Answered(g) \/ CloseStep(g)
  <2>1. pc[g] \in {"working", "asking", "settled"} /\ UNCHANGED table /\ UNCHANGED picks
    BY <1>2 DEF AskMain, Answered, CloseStep, Moves, local
  <2>2. PICK to : pc' = [pc EXCEPT ![g] = to]
    BY <1>2 DEF AskMain, Answered, CloseStep, Moves
  <2> QED  BY <2>1, <2>2, MovesElsewhere DEF Holding
<1>3. CASE AskTimesOut(g)
  BY <1>3 DEF AskTimesOut, Elsewhere, table, local
<1>4. CASE Settle(g)
  <2>1. /\ pc[g] \in {"working", "asking"} /\ pc' = [pc EXCEPT ![g] = "settled"]
        /\ UNCHANGED table /\ UNCHANGED picks
    BY <1>4 DEF Settle, local
  <2> QED  BY <2>1, MovesElsewhere DEF Holding
<1>5. CASE Finish(g)
  <2>1. /\ pc[g] = "closing" /\ UNCHANGED table /\ UNCHANGED picks
        /\ \A p \in Procs : pc'[p] # pc[p] =>
              p = g \/ (p \in Assigners /\ pc[p] = "await")
    BY <1>5 DEF Finish
  <2> QED  BY <2>1, Disjoint DEF Elsewhere, Holding, table
<1> QED  BY <1>1, <1>2, <1>3, <1>4, <1>5

LEMMA CallersElsewhere ==
    ASSUME TypeInv, NEW p \in Callers, NEW to, pc' = [pc EXCEPT ![p] = to],
           pc[p] \notin Holding, UNCHANGED table, UNCHANGED picks
    PROVE  Elsewhere
  BY MovesElsewhere

LEMMA AssignElsewhere ==
    ASSUME TypeInv, NEW a \in Assigners, AssignStep(a) PROVE Elsewhere
<1>1. PICK to : pc' = [pc EXCEPT ![a] = to]
  BY Zenon DEF AssignStep, AssignChecks, AssignRewrites, AssignReleases
<1>2. /\ pc[a] \in {"idle", "assign", "release", "giveup"}
      /\ UNCHANGED table /\ UNCHANGED picks
  BY DEF AssignStep, AssignChecks, AssignRewrites, AssignReleases
<1> QED  BY <1>1, <1>2, CallersElsewhere, Disjoint DEF Holding

LEMMA ScopeElsewhere ==
    ASSUME TypeInv, NEW c \in Scopers, ScopeStep(c) PROVE Elsewhere
<1>1. PICK to : pc' = [pc EXCEPT ![c] = to]
  BY Zenon DEF ScopeStep, ScopeChecks, ScopeRewrites, ScopeApplies, ScopeAnswers, Moves
<1>2. /\ pc[c] \in {"idle", "rescope", "apply", "answer"}
      /\ UNCHANGED table /\ UNCHANGED picks
  BY DEF ScopeStep, ScopeChecks, ScopeRewrites, ScopeApplies, ScopeAnswers, Moves
<1> QED  BY <1>1, <1>2, CallersElsewhere, Disjoint DEF Holding

LEMMA StopElsewhere ==
    ASSUME TypeInv, NEW s \in Stoppers, StopStep(s) PROVE Elsewhere
<1>1. PICK to : pc' = [pc EXCEPT ![s] = to]
  BY Zenon DEF StopStep, StopAll, StopReturns, EnableSubAgents, Moves
<1>2. /\ pc[s] \in {"idle", "draining", "stopped"}
      /\ UNCHANGED table /\ UNCHANGED picks
  BY DEF StopStep, StopAll, StopReturns, EnableSubAgents, Moves, local
<1> QED  BY <1>1, <1>2, CallersElsewhere, Disjoint DEF Holding

LEMMA FireElsewhere ==
    ASSUME TypeInv, NEW f \in Firers, FireBegins(f) \/ FireEnds(f) PROVE Elsewhere
<1>1. PICK to : pc' = [pc EXCEPT ![f] = to]
  BY Zenon DEF FireBegins, FireEnds, Moves
<1>2. pc[f] \in {"idle", "firing"} /\ UNCHANGED table /\ UNCHANGED picks
  BY DEF FireBegins, FireEnds, Moves, local
<1> QED  BY <1>1, <1>2, CallersElsewhere, Disjoint DEF Holding

LEMMA GateElsewhere ==
    ASSUME TypeInv, NEW t \in Gates, ResumeStep(t) \/ GateStep(t) PROVE Elsewhere
<1>1. CASE \E j \in Jobs : ResumeCloses(t, j)
  BY <1>1 DEF ResumeCloses, Elsewhere, table
<1>2. CASE ~\E j \in Jobs : ResumeCloses(t, j)
  <2>1. PICK to : pc' = [pc EXCEPT ![t] = to]
    BY <1>2, Zenon DEF ResumeStep, GateStep, ResumeReads, ResumeChecks, ResumeDone, GateReads,
       GateAsks, GateAnswered, Moves
  <2>2. /\ pc[t] \in {"idle", "resume", "orphans", "startup", "gate", "question"}
        /\ UNCHANGED table /\ UNCHANGED picks
    BY <1>2 DEF ResumeStep, GateStep, ResumeReads, ResumeChecks, ResumeDone, GateReads,
       GateAsks, GateAnswered, Moves, local
  <2> QED  BY <2>1, <2>2, CallersElsewhere, Disjoint DEF Holding
<1> QED  BY <1>1, <1>2

LEMMA StartElsewhere ==
    ASSUME TypeInv, NEW t \in Starters, StartClears(t) \/ StartRestores(t) PROVE Elsewhere
<1>1. PICK to : pc' = [pc EXCEPT ![t] = to]
  BY Zenon DEF StartClears, StartRestores, Moves
<1>2. pc[t] \in {"idle", "restore"} /\ UNCHANGED table /\ UNCHANGED picks
  BY DEF StartClears, StartRestores, Moves
<1> QED  BY <1>1, <1>2, CallersElsewhere, Disjoint DEF Holding
-----------------------------------------------------------------------------
(* Steps that change a reservation, a slot or a run *)

\* A caller other than a job moves between phases in which it holds nothing.
LEMMA ReadTreeCap ==
    ASSUME TypeInv, CapInv, NEW p \in Procs, ReadTree(p) PROVE CapInv'
<1>1. pc[p] = "call" /\ pc' = [pc EXCEPT ![p] = "decide"]
      /\ UNCHANGED table /\ UNCHANGED picks
  BY DEF ReadTree
<1>2. p \notin Jobs
  BY <1>1 DEF CapInv, JobPlaces, JobPhases
<1>3. Elsewhere
  BY <1>1, <1>2 DEF TypeInv, PcType, Elsewhere, Holding, table
<1> QED  BY <1>3, ElsewhereKeeps

LEMMA ReserveCap ==
    ASSUME TypeInv, CapInv, NEW p \in Procs, Reserve(p) PROVE CapInv'
<1>1. PICK S \in SUBSET Steps :
         /\ S \cap (RunningIds \cup pending) = {}
         /\ pending' = pending \cup S
         /\ picks' = [picks EXCEPT ![p] = S]
         /\ S # {} => /\ Cardinality(S) + Load <= MaxConcurrent
                      /\ pc' = [pc EXCEPT ![p] = "build"]
  <2>1. PICK R \in SUBSET Steps, S \in SUBSET Steps :
           /\ IsReady(R, snap[p], RunningIds \cup pending)
           /\ S \subseteq {i \in R : /\ i \notin hold
                                     /\ ~JobScopeTaken(snap[p][i].scope)
                                     /\ declined => i \in allowed}
           /\ pending' = pending \cup S
           /\ picks' = [picks EXCEPT ![p] = S]
           /\ S # {} => /\ Cardinality(S) + Load <= MaxConcurrent
                        /\ pc' = [pc EXCEPT ![p] = "build"]
    BY Zenon DEF Reserve, Picks
  <2>2. R \subseteq Eligible(snap[p], RunningIds \cup pending)
    BY <2>1 DEF IsReady
  <2>3. S \cap (RunningIds \cup pending) = {}
    BY <2>1, <2>2 DEF Eligible
  <2> QED  BY <2>1, <2>3
<1>2. pc[p] = "decide" /\ UNCHANGED runs /\ UNCHANGED slots
  BY DEF Reserve, Picks
<1>3. p \notin Jobs /\ picks[p] = {}
  BY <1>2 DEF CapInv, JobPlaces, JobPhases, Picking, Holding
<1>4. \A q \in Procs \ {p} : pc'[q] = pc[q]
  <2>1. PICK to : pc' = [pc EXCEPT ![p] = to]
    BY Zenon DEF Reserve, Picks
  <2> QED  BY <2>1 DEF TypeInv, PcType
<1>5. picks'[p] = S /\ \A q \in Procs \ {p} : picks'[q] = picks[q]
  BY <1>1 DEF TypeInv, PicksType
<1>6. Reservations'
  BY <1>1, <1>2, <1>3, <1>5 DEF CapInv, Reservations, RunningIds
<1>7. Picking'
  BY <1>1, <1>3, <1>4, <1>5 DEF CapInv, Picking, Holding, TypeInv, PcType
<1>8. JobPlaces'
  BY <1>2, <1>3, <1>4, Blanks DEF CapInv, JobPlaces
<1>9. (Load <= MaxConcurrent)'
  <2>1. CASE S = {}
    BY <1>1, <1>2, <2>1 DEF CapInv, Load, RunningIds
  <2>2. CASE S # {}
    <3>1. IsFiniteSet(S) /\ Cardinality(S) \in Nat
      BY FS_Subset, FS_CardinalityType, SubAgentsAssumption DEF Ids
    <3>2. pending \cap S = {}
      BY <1>1
    <3>3. Cardinality(pending') = Cardinality(pending) + Cardinality(S)
      <4>1. Cardinality(pending \cup S) =
                Cardinality(pending) + Cardinality(S) - Cardinality(pending \cap S)
        BY <3>1, Finite, FS_Union
      <4>2. Cardinality(pending \cap S) = 0
        BY <3>2, FS_EmptySet
      <4> QED  BY <1>1, <3>1, <4>1, <4>2, Finite
    <3>4. RunningIds' = RunningIds /\ slots' = slots
      BY <1>2 DEF RunningIds
    <3>5. Load' = Load + Cardinality(S)
      BY <3>1, <3>3, <3>4, Finite DEF Load
    <3>6. Load \in Nat
      BY Finite DEF Load
    <3> QED  BY <1>1, <2>2, <3>1, <3>5, <3>6, SubAgentsAssumption
  <2> QED  BY <2>1, <2>2
<1> QED  BY <1>6, <1>7, <1>8, <1>9 DEF CapInv

\* A caller lets go of pick i: nobody else has it.
LEMMA PickGoes ==
    ASSUME TypeInv, CapInv, NEW p \in Procs, NEW i \in picks[p],
           pending' = pending \ {i}, picks' = [picks EXCEPT ![p] = @ \ {i}]
    PROVE  /\ pending' = UNION {picks'[q] : q \in Procs}
           /\ \A q, t \in Procs : q # t => picks'[q] \cap picks'[t] = {}
           /\ i \in pending /\ i \notin RunningIds
           /\ p \in Jobs => i = p /\ picks'[p] = {}
           /\ p \notin Jobs => i \in Steps
           /\ \A q \in Procs : picks'[q] \subseteq picks[q]
<1>1. picks'[p] = picks[p] \ {i} /\ \A q \in Procs \ {p} : picks'[q] = picks[q]
  BY DEF TypeInv, PicksType
<1>2. \A q \in Procs \ {p} : i \notin picks[q]
  BY DEF CapInv, Reservations
<1>3. pending' = UNION {picks'[q] : q \in Procs}
  BY <1>1, <1>2 DEF CapInv, Reservations
<1>4. \A q, t \in Procs : q # t => picks'[q] \cap picks'[t] = {}
  BY <1>1 DEF CapInv, Reservations
<1>5. i \in pending /\ i \notin RunningIds
  BY DEF CapInv, Reservations
<1>6. p \in Jobs => picks[p] \subseteq {p}
  BY DEF CapInv, Picking
<1>7. p \notin Jobs => picks[p] \subseteq Steps
  BY DEF CapInv, Picking
<1> QED  BY <1>1, <1>3, <1>4, <1>5, <1>6, <1>7

LEMMA GiveBackCap ==
    ASSUME TypeInv, CapInv, NEW p \in Procs, NEW i \in Ids, GiveBack(p, i)
    PROVE  CapInv'
<1> DEFINE to == IF p \in Jobs THEN "unstarted"
                 ELSE IF picks[p] \ {i} = {} THEN Returned(p, arg[p].any) ELSE "build"
<1>1. /\ pc[p] = "build" /\ i \in picks[p]
      /\ pending' = pending \ {i}
      /\ picks' = [picks EXCEPT ![p] = @ \ {i}]
      /\ pc' = [pc EXCEPT ![p] = to]
      /\ UNCHANGED runs /\ UNCHANGED slots
  BY Zenon DEF GiveBack, Building, Unreserve, Continue
<1>2. p \notin Jobs => (picks'[p] # {} => to = "build")
  BY <1>1 DEF TypeInv, PicksType
<1>3. p \in Jobs => to = "unstarted"
  OBVIOUS
<1> HIDE DEF to
<1>4. pc'[p] = to /\ \A q \in Procs \ {p} : pc'[q] = pc[q]
  BY <1>1 DEF TypeInv, PcType
<1>5. /\ pending' = UNION {picks'[q] : q \in Procs}
      /\ \A q, t \in Procs : q # t => picks'[q] \cap picks'[t] = {}
      /\ p \in Jobs => picks'[p] = {}
      /\ \A q \in Procs : picks'[q] \subseteq picks[q]
  BY <1>1, PickGoes, Zenon
<1>6. RunningIds' = RunningIds
  BY <1>1 DEF RunningIds
<1>7. Reservations'
  BY <1>1, <1>5, <1>6 DEF CapInv, Reservations
<1>8. Picking'
  BY <1>2, <1>4, <1>5 DEF CapInv, Picking, Holding
<1>9. JobPlaces'
  BY <1>1, <1>3, <1>4, Blanks DEF CapInv, JobPlaces, JobPhases
<1>10. (Load <= MaxConcurrent)'
  <2>1. Cardinality(pending') <= Cardinality(pending) /\ Cardinality(pending') \in Nat
    BY <1>1, Finite, FS_Subset, FS_CardinalityType
  <2> QED  BY <1>1, <1>6, <2>1, Finite, SubAgentsAssumption DEF CapInv, Load
<1> QED  BY <1>7, <1>8, <1>9, <1>10 DEF CapInv

\* The reservation becomes a run: the two changes are one step, and the sum
\* stays.
LEMMA InstallCap ==
    ASSUME TypeInv, CapInv, NEW p \in Procs, NEW i \in Ids, NEW g \in Runners, Install(p, i, g)
    PROVE  CapInv'
<1>1. /\ pc[p] = "build" /\ pc[g] = "free" /\ i \in picks[p]
      /\ pending' = pending \ {i}
      /\ runs' = [runs EXCEPT ![i] = g]
      /\ picks' = [picks EXCEPT ![p] = @ \ {i}]
      /\ pc' = [pc EXCEPT ![p] = "mark", ![g] = "installed"]
      /\ UNCHANGED slots
  BY Zenon DEF Install, Building, Unreserve
<1>2. /\ pending' = UNION {picks'[q] : q \in Procs}
      /\ \A q, t \in Procs : q # t => picks'[q] \cap picks'[t] = {}
      /\ i \in pending /\ i \notin RunningIds
      /\ p \in Jobs => i = p
      /\ p \notin Jobs => i \in Steps
      /\ \A q \in Procs : picks'[q] \subseteq picks[q]
  BY <1>1, PickGoes, Zenon
<1>3. /\ pc'[p] = "mark" /\ pc'[g] = "installed" /\ g \notin Jobs
      /\ \A q \in Procs \ {p, g} : pc'[q] = pc[q]
  BY <1>1, Disjoint, Blanks DEF TypeInv, PcType
<1>4. /\ RunningIds' = RunningIds \cup {i}
      /\ \A j \in Ids \ {i} : runs'[j] = runs[j]
  BY <1>1, Disjoint DEF RunningIds, TypeInv, TableType
<1>5. Reservations'
  BY <1>1, <1>2, <1>4 DEF CapInv, Reservations
<1>6. Picking'
  <2>1. picks[g] = {}
    BY <1>1, Blanks DEF CapInv, Picking, Holding
  <2>2. ASSUME NEW q \in Procs, picks'[q] # {} PROVE pc'[q] \in Holding
    <3>1. q # g /\ pc[q] \in Holding
      BY <1>2, <2>1, <2>2 DEF CapInv, Picking
    <3>2. CASE q = p
      BY <1>3, <3>2 DEF Holding
    <3>3. CASE q # p
      BY <1>3, <3>1, <3>3
    <3> QED  BY <3>2, <3>3
  <2> QED  BY <1>2, <2>2 DEF CapInv, Picking
<1>7. JobPlaces'
  <2>1. ASSUME NEW j \in Jobs, j # p
        PROVE  pc'[j] = pc[j] /\ runs'[j] = runs[j]
    <3>1. j # g /\ j \in Procs /\ j \in Ids
      BY <1>3, Blanks DEF Ids
    <3>2. j # i
      BY <1>2, <2>1, Disjoint
    <3> QED  BY <1>3, <1>4, <2>1, <3>1, <3>2
  <2> QED  BY <1>1, <1>3, <2>1 DEF CapInv, JobPlaces, JobPhases
<1>8. (Load <= MaxConcurrent)'
  <2>1. Cardinality(pending') = Cardinality(pending) - 1
    BY <1>1, <1>2, Finite, FS_RemoveElement
  <2>2. Cardinality(RunningIds') = Cardinality(RunningIds) + 1
    BY <1>2, <1>4, Finite, FS_AddElement
  <2> QED  BY <1>1, <2>1, <2>2, Finite DEF CapInv, Load
<1> QED  BY <1>5, <1>6, <1>7, <1>8 DEF CapInv

LEMMA MarkCap ==
    ASSUME TypeInv, CapInv, NEW p \in Procs, MarkDispatched(p) PROVE CapInv'
<1> DEFINE g == arg[p].on
           to == IF picks[p] # {} THEN "build"
                 ELSE IF p \in Jobs THEN "over" ELSE Returned(p, TRUE)
<1>1. /\ pc[p] = "mark"
      /\ pc' = [pc EXCEPT ![g] = "starting", ![p] = to]
      /\ UNCHANGED table /\ UNCHANGED picks
  BY Zenon DEF MarkDispatched
<1>2. g \in Runners /\ pc[g] = "installed" /\ g \notin Jobs /\ g \in Procs
  BY <1>1, Disjoint, Blanks DEF TypeInv, Marks
<1>3. picks[p] # {} => to = "build"
  OBVIOUS
<1>4. p \in Jobs /\ picks[p] = {} => to = "over"
  OBVIOUS
<1> HIDE DEF g, to
<1>5. pc'[p] = to /\ \A q \in Procs \ {p, g} : pc'[q] = pc[q]
  BY <1>1, <1>2 DEF TypeInv, PcType
<1>6. Reservations'
  BY <1>1 DEF CapInv, Reservations, RunningIds, table
<1>7. Picking'
  <2>1. picks[g] = {}
    BY <1>2 DEF CapInv, Picking, Holding
  <2>2. ASSUME NEW q \in Procs, picks[q] # {} PROVE pc'[q] \in Holding
    BY <1>3, <1>5, <2>1, <2>2 DEF CapInv, Picking, Holding
  <2> QED  BY <1>1, <2>2 DEF CapInv, Picking
<1>8. JobPlaces'
  <2>1. p \in Jobs /\ runs[p] # None => picks[p] = {}
    <3>1. p \in Jobs => p \in Ids
      BY DEF Ids
    <3> QED  BY <3>1 DEF CapInv, Reservations, Picking, RunningIds
  <2>2. p \in Jobs => to \in {"build", "over"}
    BY <1>3, <1>4
  <2>3. ASSUME NEW j \in Jobs, j # p PROVE pc'[j] = pc[j]
    BY <1>2, <1>5, <2>3, Blanks
  <2> QED  BY <1>1, <1>4, <1>5, <2>1, <2>2, <2>3 DEF CapInv, JobPlaces, JobPhases, table
<1>9. (Load <= MaxConcurrent)'
  BY <1>1 DEF CapInv, Load, RunningIds, table
<1> QED  BY <1>6, <1>7, <1>8, <1>9 DEF CapInv
-----------------------------------------------------------------------------
(* DispatchJob *)

\* A job that holds no pick moves; its slot may come or go with it.
LEMMA JobMoves ==
    ASSUME TypeInv, CapInv, NEW j \in Jobs, NEW to \in JobPhases,
           pc' = [pc EXCEPT ![j] = to],
           UNCHANGED runs, UNCHANGED pending, UNCHANGED picks,
           picks[j] # {} => to \in Holding,
           to \in {"file", "filed"} => j \in slots',
           runs[j] # None => to \in {"mark", "over"},
           \A k \in Jobs \ {j} : k \in slots => k \in slots'
    PROVE  Reservations' /\ Picking' /\ JobPlaces'
<1>1. pc'[j] = to /\ \A q \in Procs \ {j} : pc'[q] = pc[q]
  BY Blanks DEF TypeInv, PcType
<1>2. Reservations'
  BY DEF CapInv, Reservations, RunningIds
<1>3. Picking'
  BY <1>1 DEF CapInv, Picking
<1>4. JobPlaces'
  BY <1>1, Blanks DEF CapInv, JobPlaces
<1> QED  BY <1>2, <1>3, <1>4

LEMMA SameLoad ==
    ASSUME TypeInv, CapInv, UNCHANGED runs, UNCHANGED pending, slots' \subseteq slots
    PROVE  (Load <= MaxConcurrent)'
<1>1. Cardinality(slots') <= Cardinality(slots) /\ Cardinality(slots') \in Nat
  BY Finite, FS_Subset, FS_CardinalityType
<1>2. RunningIds' = RunningIds
  BY DEF RunningIds
<1> QED  BY <1>1, <1>2, Finite, SubAgentsAssumption DEF CapInv, Load

LEMMA JobReadsCap ==
    ASSUME TypeInv, CapInv, NEW j \in Jobs, JobReads(j) PROVE CapInv'
<1>1. PICK to \in {"check", "over"} : pc' = [pc EXCEPT ![j] = to]
  BY DEF JobReads, Over
<1>2. pc[j] = "idle" /\ UNCHANGED runs /\ UNCHANGED pending /\ UNCHANGED slots /\ UNCHANGED picks
  BY DEF JobReads, table
<1>3. runs[j] = None /\ picks[j] = {}
  BY <1>2, Blanks DEF CapInv, JobPlaces, Picking, Holding
<1>4. Reservations' /\ Picking' /\ JobPlaces'
  BY <1>1, <1>2, <1>3, JobMoves DEF JobPhases
<1>5. (Load <= MaxConcurrent)'
  BY <1>2, SameLoad
<1> QED  BY <1>4, <1>5 DEF CapInv

LEMMA JobReservesCap ==
    ASSUME TypeInv, CapInv, NEW j \in Jobs, JobReserves(j) PROVE CapInv'
<1>1. /\ pc[j] = "check" /\ UNCHANGED runs /\ UNCHANGED pending /\ UNCHANGED picks
      /\ \/ UNCHANGED slots /\ pc' = [pc EXCEPT ![j] = "over"]
         \/ /\ ~(Load >= MaxConcurrent)
            /\ slots' = slots \cup {j} /\ pc' = [pc EXCEPT ![j] = "file"]
  BY DEF JobReserves, Over
<1>2. runs[j] = None /\ picks[j] = {}
  BY <1>1, Blanks DEF CapInv, JobPlaces, Picking, Holding
<1>3. CASE UNCHANGED slots /\ pc' = [pc EXCEPT ![j] = "over"]
  <2>1. Reservations' /\ Picking' /\ JobPlaces'
    BY <1>1, <1>2, <1>3, JobMoves DEF JobPhases
  <2> QED  BY <1>1, <1>3, <2>1, SameLoad DEF CapInv
<1>4. CASE /\ ~(Load >= MaxConcurrent)
           /\ slots' = slots \cup {j} /\ pc' = [pc EXCEPT ![j] = "file"]
  <2>1. Reservations' /\ Picking' /\ JobPlaces'
    BY <1>1, <1>2, <1>4, JobMoves DEF JobPhases
  <2>2. Cardinality(slots') <= Cardinality(slots) + 1 /\ Cardinality(slots') \in Nat
    BY <1>4, Finite, AddOne
  <2>3. RunningIds' = RunningIds
    BY <1>1 DEF RunningIds
  <2>4. Load' <= Load + 1
    BY <1>1, <2>2, <2>3, Finite DEF Load
  <2>5. Load \in Nat /\ Load' \in Nat
    BY <1>1, <2>2, <2>3, Finite DEF Load
  <2> QED  BY <1>4, <2>1, <2>4, <2>5, SubAgentsAssumption DEF CapInv
<1> QED  BY <1>1, <1>3, <1>4

LEMMA JobFilesCap ==
    ASSUME TypeInv, CapInv, NEW j \in Jobs, JobFiles(j) PROVE CapInv'
<1>1. /\ pc[j] = "file" /\ UNCHANGED runs /\ UNCHANGED pending /\ UNCHANGED picks
      /\ \/ slots' = slots \ {j} /\ pc' = [pc EXCEPT ![j] = "over"]
         \/ UNCHANGED slots /\ pc' = [pc EXCEPT ![j] = "filed"]
  BY DEF JobFiles, Over, local
<1>2. runs[j] = None /\ picks[j] = {} /\ j \in slots
  BY <1>1, Blanks DEF CapInv, JobPlaces, Picking, Holding
<1>3. slots' \subseteq slots /\ \A k \in Jobs \ {j} : k \in slots => k \in slots'
  BY <1>1
<1>4. Reservations' /\ Picking' /\ JobPlaces'
  <2>1. CASE pc' = [pc EXCEPT ![j] = "over"]
    BY <1>1, <1>2, <1>3, <2>1, JobMoves DEF JobPhases
  <2>2. CASE UNCHANGED slots /\ pc' = [pc EXCEPT ![j] = "filed"]
    BY <1>1, <1>2, <1>3, <2>2, JobMoves DEF JobPhases
  <2> QED  BY <1>1, <2>1, <2>2
<1> QED  BY <1>1, <1>3, <1>4, SameLoad DEF CapInv

\* The slot becomes a reservation: one less of the one, one more of the other.
LEMMA JobSwapsCap ==
    ASSUME TypeInv, CapInv, NEW j \in Jobs, JobSwaps(j) PROVE CapInv'
<1>1. /\ pc[j] = "filed" /\ pc' = [pc EXCEPT ![j] = "reread"]
      /\ slots' = slots \ {j} /\ pending' = pending \cup {j}
      /\ picks' = [picks EXCEPT ![j] = {j}] /\ UNCHANGED runs
  BY DEF JobSwaps
<1>2. runs[j] = None /\ picks[j] = {} /\ j \in slots /\ j \in Ids
  BY <1>1, Blanks DEF CapInv, JobPlaces, Picking, Holding, Ids
<1>3. /\ pc'[j] = "reread" /\ \A q \in Procs \ {j} : pc'[q] = pc[q]
      /\ picks'[j] = {j} /\ \A q \in Procs \ {j} : picks'[q] = picks[q]
  BY <1>1, Blanks DEF TypeInv, PcType, PicksType
<1>4. \A q \in Procs : j \notin picks[q]
  BY <1>2, Disjoint DEF CapInv, Picking
<1>5. Reservations'
  <2>1. pending' = UNION {picks'[q] : q \in Procs}
    BY <1>1, <1>2, <1>3, Blanks DEF CapInv, Reservations
  <2>2. \A q, t \in Procs : q # t => picks'[q] \cap picks'[t] = {}
    BY <1>3, <1>4 DEF CapInv, Reservations
  <2>3. (pending \cap RunningIds)' = {}
    BY <1>1, <1>2 DEF CapInv, Reservations, RunningIds
  <2> QED  BY <2>1, <2>2, <2>3 DEF Reservations
<1>6. Picking'
  BY <1>3 DEF CapInv, Picking, Holding
<1>7. JobPlaces'
  BY <1>1, <1>2, <1>3, Blanks DEF CapInv, JobPlaces, JobPhases
<1>8. (Load <= MaxConcurrent)'
  <2>1. Cardinality(slots') = Cardinality(slots) - 1
    BY <1>1, <1>2, Finite, FS_RemoveElement
  <2>2. Cardinality(pending') <= Cardinality(pending) + 1 /\ Cardinality(pending') \in Nat
    BY <1>1, Finite, AddOne
  <2>3. RunningIds' = RunningIds
    BY <1>1 DEF RunningIds
  <2> QED  BY <2>1, <2>2, <2>3, Finite, SubAgentsAssumption DEF CapInv, Load
<1> QED  BY <1>5, <1>6, <1>7, <1>8 DEF CapInv

LEMMA JobRereadsCap ==
    ASSUME TypeInv, CapInv, NEW j \in Jobs, JobRereads(j) PROVE CapInv'
<1>1. /\ pc[j] = "reread" /\ pc' = [pc EXCEPT ![j] = "build"]
      /\ UNCHANGED runs /\ UNCHANGED pending /\ UNCHANGED slots /\ UNCHANGED picks
  BY DEF JobRereads, table
<1>2. runs[j] = None
  BY <1>1 DEF CapInv, JobPlaces
<1>3. Reservations' /\ Picking' /\ JobPlaces'
  BY <1>1, <1>2, JobMoves DEF JobPhases, Holding
<1> QED  BY <1>1, <1>3, SameLoad DEF CapInv

LEMMA JobUnstartedCap ==
    ASSUME TypeInv, CapInv, NEW j \in Jobs, JobUnstarted(j) PROVE CapInv'
<1>1. /\ pc[j] = "unstarted" /\ pc' = [pc EXCEPT ![j] = "over"]
      /\ UNCHANGED runs /\ UNCHANGED pending /\ UNCHANGED slots /\ UNCHANGED picks
  BY DEF JobUnstarted, Over, table, local
<1>2. picks[j] = {}
  BY <1>1, Blanks DEF CapInv, Picking, Holding
<1>3. Reservations' /\ Picking' /\ JobPlaces'
  BY <1>1, <1>2, JobMoves DEF JobPhases
<1> QED  BY <1>1, <1>3, SameLoad DEF CapInv

-----------------------------------------------------------------------------
LEMMA RemoveRunCap ==
    ASSUME TypeInv, CapInv, NEW g \in Runners, RemoveRun(g) PROVE CapInv'
<1>1. /\ pc[g] = "closed" /\ pc' = [pc EXCEPT ![g] = "call"]
      /\ runs' = [runs EXCEPT ![run[g].node] = None]
      /\ UNCHANGED pending /\ UNCHANGED slots /\ UNCHANGED picks
  BY DEF RemoveRun, Moves, local
<1>2. g \notin Jobs /\ g \in Procs
  BY Disjoint, Blanks
<1>3. \A q \in Procs \ {g} : pc'[q] = pc[q]
  BY <1>1 DEF TypeInv, PcType
<1>4. \A i \in Ids : runs'[i] # None => runs'[i] = runs[i]
  BY <1>1 DEF TypeInv, TableType
<1>5. RunningIds' \subseteq RunningIds
  BY <1>4 DEF RunningIds
<1>6. Reservations'
  BY <1>1, <1>5 DEF CapInv, Reservations
<1>7. Picking'
  BY <1>1, <1>2, <1>3 DEF CapInv, Picking, Holding
<1>8. JobPlaces'
  BY <1>1, <1>2, <1>3, <1>4, Blanks DEF CapInv, JobPlaces, Ids
<1>9. (Load <= MaxConcurrent)'
  <2>1. Cardinality(RunningIds') <= Cardinality(RunningIds) /\ Cardinality(RunningIds') \in Nat
    BY <1>5, Finite, FS_Subset, FS_CardinalityType
  <2> QED  BY <1>1, <2>1, Finite, SubAgentsAssumption DEF CapInv, Load
<1> QED  BY <1>6, <1>7, <1>8, <1>9 DEF CapInv

LEMMA CrashCap ==
    ASSUME Crash PROVE CapInv'
<1>1. Reservations'
  BY DEF Crash, Reservations, RunningIds
<1>2. Picking'
  BY DEF Crash, Picking
<1>3. JobPlaces'
  BY Disjoint, Blanks DEF Crash, JobPlaces, JobPhases, Ids
<1>4. RunningIds' = {} /\ pending' = {} /\ slots' = {}
  BY DEF Crash, RunningIds
<1>5. (Load <= MaxConcurrent)'
  BY <1>4, FS_EmptySet, SubAgentsAssumption DEF Load
<1> QED  BY <1>1, <1>2, <1>3, <1>5 DEF CapInv

LEMMA CapStep == TypeInv /\ CapInv /\ [Next]_vars => CapInv'
<1> SUFFICES ASSUME TypeInv, CapInv, [Next]_vars PROVE CapInv'
  OBVIOUS
<1>1. ASSUME NEW p \in Procs, ScheduleStep(p) PROVE CapInv'
  BY <1>1, ReadTreeCap, ReserveCap, MarkCap, GiveBackCap, InstallCap, Zenon DEF ScheduleStep
<1>2. ASSUME NEW s \in Schedulers, ScheduleSubAgents(s) PROVE CapInv'
  <2>1. /\ pc[s] = "idle" /\ pc' = [pc EXCEPT ![s] = "call"]
        /\ UNCHANGED table /\ UNCHANGED picks
    BY <1>2 DEF ScheduleSubAgents, local
  <2> QED  BY <2>1, CallersElsewhere, Disjoint, ElsewhereKeeps DEF Holding
<1>3. ASSUME NEW j \in Jobs, JobStep(j) PROVE CapInv'
  BY <1>3, JobReadsCap, JobReservesCap, JobFilesCap, JobSwapsCap, JobRereadsCap,
     JobUnstartedCap, Zenon DEF JobStep
<1>4. ASSUME NEW g \in Runners, RunStep(g) PROVE CapInv'
  BY <1>4, RunsElsewhere, ElsewhereKeeps, RemoveRunCap, Zenon DEF RunStep, RunEnds
<1>5. CASE \/ \E i \in Ids : ReplyAsk(i)
           \/ \E o \in Stoppable : StopOwner(o)
           \/ \E i \in Editable, s \in Statuses \ {"none"} : SetStatus(i, s)
           \/ UNCHANGED vars
  <2>1. UNCHANGED table /\ UNCHANGED pc /\ UNCHANGED picks
    BY <1>5 DEF ReplyAsk, StopOwner, SetStatus, vars, local
  <2> QED  BY <2>1, ElsewhereKeeps DEF Elsewhere, table
<1>6. ASSUME NEW a \in Assigners, AssignStep(a) PROVE CapInv'
  BY <1>6, AssignElsewhere, ElsewhereKeeps
<1>7. ASSUME NEW c \in Scopers, ScopeStep(c) PROVE CapInv'
  BY <1>7, ScopeElsewhere, ElsewhereKeeps
<1>8. ASSUME NEW s \in Stoppers, StopStep(s) PROVE CapInv'
  BY <1>8, StopElsewhere, ElsewhereKeeps
<1>9. ASSUME NEW f \in Firers, FireBegins(f) \/ FireEnds(f) PROVE CapInv'
  BY <1>9, FireElsewhere, ElsewhereKeeps
<1>10. ASSUME NEW t \in Gates, ResumeStep(t) \/ GateStep(t) PROVE CapInv'
  BY <1>10, GateElsewhere, ElsewhereKeeps
<1>11. ASSUME NEW t \in Starters, StartClears(t) \/ StartRestores(t) PROVE CapInv'
  BY <1>11, StartElsewhere, ElsewhereKeeps
<1>12. CASE Crash
  BY <1>12, CrashCap
<1> QED
  BY <1>1, <1>2, <1>3, <1>4, <1>5, <1>6, <1>7, <1>8, <1>9, <1>10, <1>11, <1>12, Zenon DEF Next

\* The inductive invariant holds throughout.
LEMMA CapHolds == Spec => [](TypeInv /\ CapInv)
<1>1. Init => TypeInv /\ CapInv
  BY TypeInit, CapInit
<1>2. TypeInv /\ CapInv /\ [Next]_vars => (TypeInv /\ CapInv)'
  BY TypeStep, CapStep
<1> QED  BY <1>1, <1>2, PTL DEF Spec

\* max_concurrent is never exceeded, by any number of callers, schedules and
\* jobs at once, through panics, stops, crashes and restarts.
THEOREM CapKept == Spec => []Capped
<1>1. TypeInv /\ CapInv => Capped
  BY LoadBounds DEF CapInv
<1> QED  BY <1>1, CapHolds, PTL

\* Every reservation has exactly one caller who will install it or give it
\* back, and nothing reserved is running: no step is dispatched twice.
THEOREM ReservationsExact == Spec => []Reservations
<1>1. TypeInv /\ CapInv => Reservations
  BY DEF CapInv
<1> QED  BY <1>1, CapHolds, PTL
=============================================================================
