------------------------------- MODULE Firing -------------------------------
(***************************************************************************)
(* Scheduled events (internal/agent/schedules.go, schedules_api.go, the    *)
(* event half of inbox.go, and the due rule of internal/schedule).         *)
(*                                                                         *)
(* Sessions of one workspace share schedules.md, the approvals and the     *)
(* claims; each keeps one-off timers of its own.  A section under the      *)
(* scheduler's mu rereads the shared files, decides and writes them back   *)
(* whole; no lock spans sessions.  So a section that writes is two steps   *)
(* here, its reading and its writing, and the sections of one session      *)
(* exclude each other.  The approvals are reread right before each write,  *)
(* which is one step.                                                      *)
(*                                                                         *)
(* Content (time, instruction, grants, limits: what Hash covers) is one of *)
(* Texts, and the time of a schedule stays the same when it is edited.     *)
(***************************************************************************)
EXTENDS Integers, Sequences, FiniteSets

CONSTANTS
    Sessions, Recurring, Timers, Texts, None,
    Home,           \* [Timers -> Sessions]
    Every, At,      \* the period of a recurring schedule, the time of a timer
    Begun,          \* schedules that exist at first; the others may be added
    Frequent,       \* contents that run more often than min_interval
    PauseAfter, MaxActive,  \* 0 is off
    Confirming,     \* sessions with schedules.confirm_on_start
    May,            \* which events of the environment happen (a bound)
    End, MaxGen, MaxLines       \* bounds: clock, session switches, typed lines

Schedules == Recurring \cup Timers
Events == {"crash", "edit", "delete", "offline", "switch", "drop", "esc", "withdraw",
           "pause", "cancel", "resume", "run", "fail"}

ASSUME FiringAssumption ==
    /\ Recurring \cap Timers = {} /\ IsFiniteSet(Schedules)
    /\ Home \in [Timers -> Sessions]
    /\ Every \in [Recurring -> Nat \ {0}] /\ At \in [Timers -> Nat \ {0}]
    /\ Begun \subseteq Schedules /\ Frequent \subseteq Texts /\ Frequent # Texts
    /\ {PauseAfter, MaxActive, End, MaxGen, MaxLines} \subseteq Nat /\ End # 0
    /\ Confirming \subseteq Sessions /\ May \subseteq Events
    /\ None \notin Texts \cup Schedules \cup Sessions /\ {"line", "void"} \cap Schedules = {}

VARIABLES
    now,
    file,           \* schedules.md
    approvals,      \* schedules.json: the approved content, None for none
    claims,         \* occurrences claimed by a file made O_EXCL
    saved,          \* the timers in the saved session files
    timers,         \* scheduler.timers of each timer's session
    seen,           \* schedules.md and the approvals as the section under way has read them
    pending, floor,
    held, holdGen,  \* timers a switch brought in, by generation
    unconfirmed, asking,
    queue,          \* the inbox: lines and events, as they were queued
    armed,          \* Agent.armed
    fired,          \* Tools.Fired: the event's allowance is in force
    online,         \* OnlineApproved
    loop, picks, queued,    \* the loop: phase, what it will fire, its look at the queue
    turn, item,     \* the turn: phase, and the line or event it is for, with the
                    \* occurrence it claimed and the content whose grants it has
    call,           \* the person's call on a schedule
    gate,           \* the startup prompt, or the one for held timers
    ran             \* history: how often each occurrence was run unasked

shared == <<file, approvals, claims, saved>>
sched  == <<timers, seen, pending, floor, held, holdGen, unconfirmed, asking>>
inbox  == <<queue, armed>>
looping == <<loop, picks, queued>>
turning == <<turn, item, fired>>
asks == <<call, gate>>
vars == <<now, shared, sched, inbox, online, looping, turning, asks, ran>>

NoRec == [state |-> "absent", last |-> 0, fails |-> 0, text |-> None]
Recs == {NoRec} \cup [state : {"active", "paused", "done"}, last : 0..End,
                      fails : 0..PauseAfter, text : Texts]
NoArm == [id |-> None, taken |-> FALSE]
NoPending == [at |-> 0, manual |-> FALSE]
Line == [id |-> "line", text |-> None]
NoItem == [id |-> None, text |-> None, due |-> 0, grants |-> None]
Request(x) == [id |-> x.id, text |-> x.text, due |-> 0, grants |-> None]
NoCall == [op |-> "none", id |-> None, text |-> None]
NoGate == [phase |-> "closed", gen |-> 0, shown |-> {}]
NoFile == [s \in Recurring |-> NoRec]
NoSeen == [file |-> NoFile, approvals |-> [s \in Schedules |-> None]]

Mine(p) == Recurring \cup {t \in Timers : Home[t] = p}

\* Schedule.NextDue: a missed time is due now, once.
Never == 2 * End + 2
NextDue(s, r) ==
    CASE r.state # "active" -> Never
      [] r.state = "active" /\ s \in Timers -> IF r.last = 0 THEN At[s] ELSE Never
      [] OTHER -> (r.last \div Every[s] + 1) * Every[s]

\* findLocked and floorLocked: the schedule as session p holds it in a section;
\* of the timers it has its own only.
Larger(a, b) == IF a > b THEN a ELSE b
Floored(p, s, r) == IF r = NoRec THEN NoRec ELSE [r EXCEPT !.last = Larger(@, floor[p][s])]
Timer(p, t) == IF Home[t] = p THEN timers[t] ELSE NoRec
Find(p, s) == Floored(p, s, IF s \in Recurring THEN seen[p].file[s] ELSE Timer(p, s))
\* What a section that only reads finds, in one step.
Lookup(p, s) == Floored(p, s, IF s \in Recurring THEN file[s] ELSE Timer(p, s))

Approved(s, r) == approvals[s] = r.text
WasApproved(p, s, r) == seen[p].approvals[s] = r.text
Barred(p, s) == held[p][s] # 0 \/ s \in unconfirmed[p] \/ s \in asking[p]
Pending(p, s) == pending[p][s] # NoPending
Queued(p, s) == \E k \in DOMAIN queue[p] : queue[p][k].id = s

\* mu is held between the reading and the writing of a section.
Locked(p) == \/ loop[p] \in {"settle", "decide"} \/ turn[p] \in {"save", "record"}
             \/ call[p].op \in {"pausing", "cancelling", "resuming", "adding"}
             \/ gate[p].phase \in {"showing", "yes", "no"}
\* Mutant: a section begins while another holds mu.
FreeAnyway(p) == TRUE

Free(p) == ~Locked(p)
Reread(p) == seen' = [seen EXCEPT ![p] = [file |-> file, approvals |-> approvals]]
Reload(p) == Free(p) /\ Reread(p)
Unlock(p) == seen' = [seen EXCEPT ![p] = NoSeen]

\* putLocked for every schedule in new: the whole of schedules.md is written
\* from the copy read, timers go to the session in memory.
Put(p, new) ==
    /\ file' = IF DOMAIN new \cap Recurring = {} THEN file
               ELSE [s \in Recurring |-> IF s \in DOMAIN new THEN new[s] ELSE seen[p].file[s]]
    /\ timers' = [t \in Timers |-> IF t \in DOMAIN new THEN new[t] ELSE timers[t]]
Paused(p, T) == [s \in T |-> [Find(p, s) EXCEPT !.state = "paused"]]
Revoke(T) == approvals' = [s \in Schedules |-> IF s \in T THEN None ELSE approvals[s]]

Active(Rec(_, _), p, except) == {s \in Mine(p) \ except : Rec(p, s).state = "active"}
Full(n) == MaxActive > 0 /\ n >= MaxActive

Record(s, begun) ==
    IF s \in begun THEN [NoRec EXCEPT !.state = "active", !.text = CHOOSE c \in Texts \ Frequent : TRUE] ELSE NoRec
Begin(begun) ==
    /\ now = 1
    /\ file = [s \in Recurring |-> Record(s, begun)]
    /\ timers = [t \in Timers |-> Record(t, begun)]
    /\ saved = timers
    /\ approvals = [s \in Schedules |-> Record(s, begun).text]
    /\ claims = {}
    /\ seen = [p \in Sessions |-> NoSeen]
    /\ pending = [p \in Sessions |-> [s \in Schedules |-> NoPending]]
    /\ floor = [p \in Sessions |-> [s \in Schedules |-> 0]]
    /\ held = [p \in Sessions |-> [s \in Schedules |-> 0]]
    /\ holdGen = [p \in Sessions |-> 0]
    /\ unconfirmed = [p \in Sessions |-> {}] /\ asking = [p \in Sessions |-> {}]
    /\ queue = [p \in Sessions |-> <<>>] /\ armed = [p \in Sessions |-> NoArm]
    /\ fired = [p \in Sessions |-> FALSE]
    /\ online \in IF "offline" \in May THEN [Sessions -> BOOLEAN] ELSE [Sessions -> {TRUE}]
    /\ loop = [p \in Sessions |-> "off"] /\ picks = [p \in Sessions |-> {}]
    /\ queued = [p \in Sessions |-> {}]
    /\ turn = [p \in Sessions |-> "idle"] /\ item = [p \in Sessions |-> NoItem]
    /\ call = [p \in Sessions |-> NoCall]
    /\ gate = [p \in Sessions |-> [NoGate EXCEPT !.phase = "start"]]
    /\ ran = [s \in Schedules |-> [d \in 0..End |-> 0]]

Init == Begin(Begun)

-----------------------------------------------------------------------------
(* The loop *)

\* queueDue rereads the file; what is queued is read before what is armed.
LoopReads(p) ==
    /\ loop[p] = "idle" /\ Reload(p)
    /\ loop' = [loop EXCEPT ![p] = "settle"]
    /\ queued' = [queued EXCEPT ![p] = {s \in Schedules : Queued(p, s)}]
    /\ UNCHANGED <<now, shared, timers, pending, floor, held, holdGen, unconfirmed, asking,
                   inbox, online, picks, turning, asks, ran>>

\* settleDroppedLocked: a pending event that is neither queued nor armed was
\* dropped by a person, and counts as run.
LoopSettles(p) ==
    /\ loop[p] = "settle"
    /\ LET dropped == {s \in Schedules : /\ Pending(p, s) /\ s \notin queued[p]
                                         /\ armed[p].id # s}
           found == {s \in dropped : Find(p, s) # NoRec}
           At0(s) == pending[p][s].at
           new == [s \in found |->
                     IF s \in Timers THEN [Find(p, s) EXCEPT !.state = "done"]
                     ELSE [Find(p, s) EXCEPT !.last = Larger(@, At0(s))]]
       IN  /\ pending' = [pending EXCEPT ![p] = [s \in Schedules |->
                              IF s \in dropped THEN NoPending ELSE @[s]]]
           /\ floor' = [floor EXCEPT ![p] = [s \in Schedules |->
                              IF s \in found \cap Recurring /\ At0(s) > Find(p, s).last
                              THEN At0(s) ELSE @[s]]]
           /\ Put(p, new)
           /\ seen' = IF found \cap Recurring = {} THEN seen ELSE [seen EXCEPT ![p].file = file']
    /\ loop' = [loop EXCEPT ![p] = "decide"]
    /\ queued' = [queued EXCEPT ![p] = {}]
    /\ UNCHANGED <<now, approvals, claims, saved, held, holdGen, unconfirmed, asking,
                   inbox, online, picks, turning, asks, ran>>

\* fireText: the request is made of the schedule as it was read.
Fire(p, s) == [id |-> s, text |-> Find(p, s).text]

\* What is due is fired once mu is released; what changed since it was
\* approved is paused.
LoopDecides(p) ==
    /\ loop[p] = "decide"
    /\ LET due == {s \in Mine(p) : /\ NextDue(s, Find(p, s)) <= now
                                   /\ ~Barred(p, s) /\ ~Pending(p, s)}
           changed == {s \in due : ~WasApproved(p, s, Find(p, s))}
       IN  /\ Put(p, Paused(p, changed)) /\ Revoke(changed)
           /\ picks' = [picks EXCEPT ![p] = {Fire(p, s) : s \in due \ changed}]
           /\ loop' = [loop EXCEPT ![p] = IF due = changed THEN "idle" ELSE "fire"]
    /\ Unlock(p)
    /\ UNCHANGED <<now, claims, saved, pending, floor, held, holdGen, unconfirmed, asking,
                   inbox, online, queued, turning, asks, ran>>

\* fireNow: pending and queued in one hold of mu, unless already pending.
FireNow(p, e, manual) ==
    /\ Free(p)
    /\ IF Pending(p, e.id) THEN UNCHANGED <<pending, queue>>
       ELSE /\ pending' = [pending EXCEPT ![p][e.id] = [at |-> now, manual |-> manual]]
            /\ queue' = [queue EXCEPT ![p] = Append(@, e)]

LoopFires(p) ==
    /\ loop[p] = "fire"
    /\ \E e \in picks[p] :
        /\ FireNow(p, e, FALSE)
        /\ picks' = [picks EXCEPT ![p] = @ \ {e}]
        /\ loop' = [loop EXCEPT ![p] = IF picks[p] = {e} THEN "idle" ELSE "fire"]
    /\ UNCHANGED <<now, shared, timers, seen, floor, held, holdGen, unconfirmed, asking,
                   armed, online, queued, turning, asks, ran>>

-----------------------------------------------------------------------------
(* The inbox and the turn *)

IsLine(x) == x = Line
IsEvent(x) == ~IsLine(x)
Disarm(p) == armed' = [armed EXCEPT ![p] = IF @.taken THEN @ ELSE NoArm]

\* DrainForTurn, at the end of a turn or when something was queued: the lines
\* (DrainItems), or else, in a second hold of the queue, the first item there
\* is, armed as an event before the queue is let go.
DrainItems(p) ==
    /\ turn[p] = "idle"
    /\ queue' = [queue EXCEPT ![p] = SelectSeq(@, IsEvent)]
    /\ Disarm(p)
    /\ IF queue' = queue THEN turn' = [turn EXCEPT ![p] = "drain"] /\ UNCHANGED item
       ELSE /\ turn' = [turn EXCEPT ![p] = "request"]
            /\ item' = [item EXCEPT ![p] = Request(Line)]
    /\ UNCHANGED <<now, shared, sched, fired, online, looping, asks, ran>>
\* Mutant: the event leaves the queue before it is armed.
DrainEventUnarmed(p) ==
    /\ turn[p] = "drain"
    /\ IF queue[p] = <<>> THEN turn' = [turn EXCEPT ![p] = "idle"] /\ UNCHANGED <<inbox, item>>
       ELSE /\ item' = [item EXCEPT ![p] = Request(Head(queue[p]))]
            /\ queue' = [queue EXCEPT ![p] = Tail(@)]
            /\ UNCHANGED armed
            /\ turn' = [turn EXCEPT ![p] = "request"]
    /\ UNCHANGED <<now, shared, sched, fired, online, looping, asks, ran>>

DrainEvent(p) ==
    /\ turn[p] = "drain"
    /\ IF queue[p] = <<>> THEN turn' = [turn EXCEPT ![p] = "idle"] /\ UNCHANGED <<inbox, item>>
       ELSE /\ item' = [item EXCEPT ![p] = Request(Head(queue[p]))]
            /\ queue' = [queue EXCEPT ![p] = Tail(@)]
            /\ armed' = [armed EXCEPT ![p] = [id |-> Head(queue[p]).id, taken |-> FALSE]]
            /\ turn' = [turn EXCEPT ![p] = "request"]
    /\ UNCHANGED <<now, shared, sched, fired, online, looping, asks, ran>>

\* RunFull: a request that is the armed event goes on to begin, any other
\* runs as it always has.
TakeFiring(p) ==
    /\ turn[p] = "request"
    /\ IF armed[p].id = item[p].id /\ armed[p] # NoArm
       THEN /\ armed' = [armed EXCEPT ![p].taken = TRUE]
            /\ turn' = [turn EXCEPT ![p] = "begin"]
       ELSE /\ armed' = [armed EXCEPT ![p] = NoArm]
            /\ turn' = [turn EXCEPT ![p] = "running"]
    /\ UNCHANGED <<now, shared, sched, queue, item, fired, online, looping, asks, ran>>

\* begin: its reading, its decision and its claim.  Whatever it decides, the
\* event is pending no more.
Begins(p) == turn[p] = "begin" /\ Free(p)
Taken(p) == pending' = [pending EXCEPT ![p] = [s \in Schedules |-> IF s = item[p].id THEN NoPending ELSE @[s]]]
Refused(p) == turn' = [turn EXCEPT ![p] = "refused"]
Manual(p) == pending[p][item[p].id].manual

BeginPauses(p) ==
    /\ Begins(p) /\ Taken(p) /\ Refused(p) /\ item[p].id \in Schedules
    /\ LET s == item[p].id
           r == Lookup(p, s)
       IN  /\ r # NoRec /\ Pending(p, s) /\ online[p] /\ (Manual(p) \/ ~Barred(p, s))
           /\ ~Approved(s, r)
           /\ file' = IF s \in Timers THEN file ELSE [file EXCEPT ![s] = [r EXCEPT !.state = "paused"]]
           /\ timers' = IF s \in Timers THEN [timers EXCEPT ![s].state = "paused"] ELSE timers
           /\ Revoke({s})
    /\ UNCHANGED <<now, claims, saved, seen, floor, held, holdGen, unconfirmed, asking, inbox,
                   online, looping, item, fired, asks, ran>>

\* Mutant: what changed since it was approved runs.
AdmissibleUnseen(p, s, r) ==
    /\ r # NoRec /\ Pending(p, s) /\ online[p]
    /\ Manual(p) \/ (~Barred(p, s) /\ r.state = "active")

\* A person may run a schedule by hand that is paused or waits to be
\* confirmed.
Admissible(p, s, r) ==
    /\ r # NoRec /\ Pending(p, s) /\ online[p] /\ Approved(s, r)
    /\ Manual(p) \/ (~Barred(p, s) /\ r.state = "active")
\* The occurrence an event queued by the loop is for, if it is still due.
StillDue(p, s, r) == NextDue(s, r) <= pending[p][s].at

BeginRefuses(p) ==
    /\ Begins(p) /\ Taken(p) /\ Refused(p)
    /\ item[p].id \in Schedules =>
        LET s == item[p].id
            r == Lookup(p, s)
            ours == Pending(p, s) /\ online[p] /\ (Manual(p) \/ ~Barred(p, s))
        IN  /\ ~(r # NoRec /\ ours /\ ~Approved(s, r))
            /\ ~Admissible(p, s, r) \/ (~Manual(p) /\ ~StillDue(p, s, r))
    /\ UNCHANGED <<now, shared, timers, seen, floor, held, holdGen, unconfirmed, asking, inbox,
                   online, looping, item, fired, asks, ran>>

\* claimLocked: another session got there first, so it counts as run here.
BeginFindsClaim(p) ==
    /\ Begins(p) /\ Taken(p) /\ Refused(p) /\ item[p].id \in Schedules
    /\ LET s == item[p].id
           r == Lookup(p, s)
           due == NextDue(s, r)
       IN  /\ Admissible(p, s, r) /\ ~Manual(p) /\ StillDue(p, s, r)
           /\ <<s, due>> \in claims
           /\ floor' = [floor EXCEPT ![p][s] = due]
    /\ UNCHANGED <<now, shared, timers, seen, held, holdGen, unconfirmed, asking, inbox,
                   online, looping, item, fired, asks, ran>>

\* Mutant: LastRun alone keeps the sessions apart.
BeginAdmitsUnclaimed(p) ==
    /\ Begins(p) /\ Taken(p) /\ item[p].id \in Schedules
    /\ LET s == item[p].id
           r == Lookup(p, s)
           due == NextDue(s, r)
       IN  /\ Admissible(p, s, r)
           /\ ~Manual(p) => StillDue(p, s, r)
           /\ claims' = IF Manual(p) THEN claims ELSE claims \cup {<<s, due>>}
           /\ item' = [item EXCEPT ![p].due = IF Manual(p) THEN 0 ELSE due, ![p].grants = r.text]
    /\ Reread(p)
    /\ turn' = [turn EXCEPT ![p] = "save"]
    /\ UNCHANGED <<now, file, approvals, saved, timers, floor, held, holdGen, unconfirmed,
                   asking, inbox, online, looping, fired, asks, ran>>

BeginAdmits(p) ==
    /\ Begins(p) /\ Taken(p) /\ item[p].id \in Schedules
    /\ LET s == item[p].id
           r == Lookup(p, s)
           due == NextDue(s, r)
       IN  /\ Admissible(p, s, r)
           /\ ~Manual(p) => StillDue(p, s, r) /\ <<s, due>> \notin claims
           /\ claims' = IF Manual(p) THEN claims ELSE claims \cup {<<s, due>>}
           /\ item' = [item EXCEPT ![p].due = IF Manual(p) THEN 0 ELSE due, ![p].grants = r.text]
    /\ Reread(p)
    /\ turn' = [turn EXCEPT ![p] = "save"]
    /\ UNCHANGED <<now, file, approvals, saved, timers, floor, held, holdGen, unconfirmed,
                   asking, inbox, online, looping, fired, asks, ran>>

\* LastRun, in the file and as this process's floor.
BeginSaves(p) ==
    /\ turn[p] = "save"
    /\ Put(p, [s \in {item[p].id} |-> [Find(p, s) EXCEPT !.last = now]])
    /\ floor' = [floor EXCEPT ![p][item[p].id] = now]
    /\ turn' = [turn EXCEPT ![p] = "begun"]
    /\ Unlock(p)
    /\ UNCHANGED <<now, approvals, claims, saved, pending, held, holdGen, unconfirmed, asking,
                   inbox, online, looping, item, fired, asks, ran>>

\* releaseFiring; a refused event's turn is over.
ReleaseFiring(p) ==
    /\ turn[p] \in {"begun", "refused"}
    /\ armed' = [armed EXCEPT ![p] = NoArm]
    /\ turn' = [turn EXCEPT ![p] = IF @ = "begun" THEN "prepare" ELSE "idle"]
    /\ item' = IF turn[p] = "begun" THEN item ELSE [item EXCEPT ![p] = NoItem]
    /\ UNCHANGED <<now, shared, sched, queue, fired, online, looping, asks, ran>>

Save(p) == saved' = [t \in Timers |-> IF Home[t] = p THEN timers[t] ELSE saved[t]]

\* prepareFiredRun: a timer's session is saved before it runs, then the
\* event's allowance is in force.
PrepareFiredRun(p) ==
    /\ turn[p] = "prepare"
    /\ IF item[p].id \in Timers THEN Save(p) ELSE UNCHANGED saved
    /\ fired' = [fired EXCEPT ![p] = TRUE]
    /\ turn' = [turn EXCEPT ![p] = "running"]
    /\ ran' = IF item[p].due = 0 THEN ran ELSE [ran EXCEPT ![item[p].id][item[p].due] = @ + 1]
    /\ UNCHANGED <<now, file, approvals, claims, sched, inbox, item, online, looping, asks>>

\* deliverInbox: lines typed meanwhile join an ordinary turn, never an event's.
Deliver(p) ==
    /\ turn[p] = "running" /\ ~fired[p]
    /\ \E k \in DOMAIN queue[p] : IsLine(queue[p][k])
    /\ queue' = [queue EXCEPT ![p] = SelectSeq(@, IsEvent)]
    /\ Disarm(p)
    /\ UNCHANGED <<now, shared, sched, fired, turn, item, online, looping, asks, ran>>

\* The turn ends, however it ends: autosave, and the allowance is cleared.
TurnEnds(p) ==
    /\ turn[p] = "running"
    /\ Save(p)
    /\ fired' = [fired EXCEPT ![p] = FALSE]
    /\ turn' = [turn EXCEPT ![p] = IF fired[p] THEN "finish" ELSE "idle"]
    /\ item' = IF fired[p] THEN item ELSE [item EXCEPT ![p] = NoItem]
    /\ UNCHANGED <<now, file, approvals, claims, sched, inbox, online, looping, asks, ran>>

FinishReads(p) ==
    /\ turn[p] = "finish" /\ Reload(p)
    /\ turn' = [turn EXCEPT ![p] = "record"]
    /\ UNCHANGED <<now, shared, timers, pending, floor, held, holdGen, unconfirmed, asking,
                   inbox, online, looping, item, fired, asks, ran>>
\* finish: a timer is done, a recurring schedule that keeps failing is paused.
FinishWrites(p, ok) ==
    /\ turn[p] = "record" /\ (ok \/ "fail" \in May)
    /\ LET s == item[p].id
           r == Find(p, s)
           failed == IF ok THEN 0 ELSE IF r.fails < PauseAfter THEN r.fails + 1 ELSE PauseAfter
           stop == PauseAfter > 0 /\ failed >= PauseAfter /\ s \in Recurring
           new == [r EXCEPT !.fails = failed,
                            !.state = IF s \in Timers THEN "done" ELSE IF stop THEN "paused" ELSE @]
       IN  IF r = NoRec THEN UNCHANGED <<file, timers, approvals>>
           ELSE Put(p, [k \in {s} |-> new]) /\ Revoke(IF stop THEN {s} ELSE {})
    /\ turn' = [turn EXCEPT ![p] = "idle"]
    /\ item' = [item EXCEPT ![p] = NoItem]
    /\ Unlock(p)
    /\ UNCHANGED <<now, claims, saved, pending, floor, held, holdGen, unconfirmed, asking,
                   inbox, fired, online, looping, asks, ran>>

-----------------------------------------------------------------------------
(* What a person does *)

\* A line for the model: typed during a run, or queued by a sub-agent.
LineComes(p) ==
    /\ Cardinality({k \in DOMAIN queue[p] : IsLine(queue[p][k])}) < MaxLines
    /\ queue' = [queue EXCEPT ![p] = Append(@, Line)]
    /\ UNCHANGED <<now, shared, sched, armed, online, looping, turning, asks, ran>>

\* Dropping an event in the queue popup.
DropEvent(p, s) ==
    /\ "drop" \in May /\ Queued(p, s) /\ turn[p] # "drain"
    /\ queue' = [queue EXCEPT ![p] = SelectSeq(@, LAMBDA x : x.id # s)]
    /\ UNCHANGED <<now, shared, sched, armed, online, looping, turning, asks, ran>>

\* Esc: the run is cancelled, the queued lines and an arm not yet taken go.
\* A request cancelled before it was taken is run with nothing done.
Esc(p) ==
    /\ "esc" \in May /\ turn[p] \notin {"idle", "drain"}
    /\ queue' = [queue EXCEPT ![p] = SelectSeq(@, IsEvent)]
    /\ Disarm(p)
    /\ item' = IF turn[p] = "request" THEN [item EXCEPT ![p] = [NoItem EXCEPT !.id = "void"]] ELSE item
    /\ UNCHANGED <<now, shared, sched, turn, fired, online, looping, asks, ran>>

Calls(p, op, s, text) == call' = [call EXCEPT ![p] = [op |-> op, id |-> s, text |-> text]]
Reading == UNCHANGED <<now, shared, timers, pending, floor, held, holdGen, unconfirmed, asking,
                       inbox, online, looping, turning, gate, ran>>

\* ScheduleAction "run": refused when changed since approved or waiting; it
\* is queued in a later hold of mu.
RunAsked(p, s) ==
    /\ "run" \in May /\ s \in Mine(p) /\ call[p] = NoCall /\ Free(p)
    /\ Lookup(p, s) # NoRec /\ Approved(s, Lookup(p, s))
    /\ ~Queued(p, s) /\ armed[p].id # s /\ ~Pending(p, s)
    /\ Calls(p, "run", s, Lookup(p, s).text)
    /\ UNCHANGED seen /\ Reading
RunFires(p) ==
    /\ call[p].op = "run" /\ FireNow(p, [id |-> call[p].id, text |-> call[p].text], TRUE)
    /\ call' = [call EXCEPT ![p] = NoCall]
    /\ UNCHANGED <<now, shared, timers, seen, floor, held, holdGen, unconfirmed, asking,
                   armed, online, looping, turning, gate, ran>>

\* ScheduleAction "pause" and "cancel" never ask; "resume" does, after add's
\* own refusals; AddSchedule asks too.
Narrows(p, s) ==
    /\ call[p] = NoCall /\ s \in Mine(p) /\ Lookup(p, s) # NoRec
    /\ \E op \in {"pausing", "cancelling"} :
        /\ op = "pausing" => "pause" \in May
        /\ op = "cancelling" => "cancel" \in May
        /\ Calls(p, op, s, None)
    /\ Reload(p) /\ Reading
ResumeAsks(p, s) ==
    /\ "resume" \in May /\ call[p] = NoCall /\ s \in Mine(p) /\ Free(p)
    /\ LET r == Lookup(p, s)
       IN  /\ r.state \in {"active", "paused"} /\ r.text \notin Frequent
           /\ ~Full(Cardinality(Active(Lookup, p, {s})))
           /\ Calls(p, "resume?", s, r.text)
    /\ UNCHANGED seen /\ Reading
AddAsks(p, s, text) ==
    /\ call[p] = NoCall /\ s \in Mine(p) /\ Free(p)
    /\ Lookup(p, s) = NoRec /\ text \notin Frequent
    /\ s \in Timers => At[s] > now
    /\ ~Full(Cardinality(Active(Lookup, p, {})))
    /\ Calls(p, "add?", s, text)
    /\ UNCHANGED seen /\ Reading
PromptAnswered(p, yes) ==
    /\ call[p].op \in {"resume?", "add?"}
    /\ IF yes THEN /\ Calls(p, IF call[p].op = "add?" THEN "adding" ELSE "resuming", call[p].id, call[p].text)
                   /\ Reload(p)
       ELSE call' = [call EXCEPT ![p] = NoCall] /\ UNCHANGED seen
    /\ Reading

\* withdrawLocked: nothing of it waits any more; a drained event is refused.
Withdraw(p, s) ==
    /\ pending' = [pending EXCEPT ![p][s] = NoPending]
    /\ queue' = [queue EXCEPT ![p] = SelectSeq(@, LAMBDA x : x.id # s)]

NarrowWrites(p) ==
    /\ call[p].op \in {"pausing", "cancelling"}
    /\ LET s == call[p].id
       IN  /\ IF Find(p, s) = NoRec THEN UNCHANGED <<file, timers, approvals>>
              ELSE /\ Put(p, IF call[p].op = "pausing" THEN Paused(p, {s}) ELSE [k \in {s} |-> NoRec])
                   /\ Revoke({s})
           /\ Withdraw(p, s)
    /\ call' = [call EXCEPT ![p] = NoCall]
    /\ Unlock(p)
    /\ UNCHANGED <<now, claims, saved, floor, held, holdGen, unconfirmed, asking, armed, online,
                   looping, turning, gate, ran>>

\* Only what was shown is approved: an edit meanwhile resumes nothing.
ResumeWrites(p) ==
    /\ call[p].op = "resuming"
    /\ LET s == call[p].id
           r == Find(p, s)
       IN  IF r = NoRec \/ r.text # call[p].text \/ Full(Cardinality(Active(Find, p, {s})))
           THEN UNCHANGED <<file, timers, approvals, held, unconfirmed>>
           ELSE /\ Put(p, [k \in {s} |-> [r EXCEPT !.state = "active", !.fails = 0]])
                /\ approvals' = [approvals EXCEPT ![s] = r.text]
                /\ held' = [held EXCEPT ![p][s] = 0]
                /\ unconfirmed' = [unconfirmed EXCEPT ![p] = @ \ {s}]
    /\ call' = [call EXCEPT ![p] = NoCall]
    /\ Unlock(p)
    /\ UNCHANGED <<now, claims, saved, pending, floor, holdGen, asking, inbox, online,
                   looping, turning, gate, ran>>

\* A recurring schedule counts from its creation, so that stands in for its
\* last run.
AddWrites(p) ==
    /\ call[p].op = "adding"
    /\ LET s == call[p].id
       IN  IF Find(p, s) # NoRec \/ Full(Cardinality(Active(Find, p, {})))
           THEN UNCHANGED <<file, timers, approvals>>
           ELSE /\ Put(p, [k \in {s} |-> [NoRec EXCEPT !.state = "active", !.text = call[p].text,
                                          !.last = IF s \in Timers THEN 0 ELSE now]])
                /\ approvals' = [approvals EXCEPT ![s] = call[p].text]
    /\ call' = [call EXCEPT ![p] = NoCall]
    /\ Unlock(p)
    /\ UNCHANGED <<now, claims, saved, pending, floor, held, holdGen, unconfirmed, asking, inbox,
                   online, looping, turning, gate, ran>>

-----------------------------------------------------------------------------
(* The startup prompt and the one for held timers *)

GateMoves(p, from, to) == gate[p].phase = from /\ gate' = [gate EXCEPT ![p].phase = to]

GateReads(p) ==
    /\ GateMoves(p, "start", "showing")
    /\ Reload(p)
    /\ UNCHANGED <<now, shared, timers, pending, floor, held, holdGen, unconfirmed, asking,
                   inbox, online, looping, turning, call, ran>>

Candidates(p) == {s \in Active(Find, p, {}) : held[p][s] = gate[p].gen}
\* Active outside this prompt, and not held for a prompt of its own.
Outside(p, shown) == Cardinality({s \in Active(Find, p, shown) : held[p][s] = 0})
Release(p, gen) == [s \in Schedules |-> IF gen # 0 /\ held[p][s] = gen THEN 0 ELSE held[p][s]]
StartLoop(p) == loop' = [loop EXCEPT ![p] = IF @ = "off" THEN "idle" ELSE @]

\* As many of T as schedules.max_active leaves room for beside n others; the
\* order of the document, any order here, says which.
RoomFor(kept, T, n) ==
    /\ kept \subseteq T
    /\ MaxActive > 0 => Cardinality(kept) + n <= MaxActive \/ kept = {}
    /\ kept # T => Full(Cardinality(kept) + n)

\* What is approved starts unasked when confirm_on_start is off; the rest is
\* shown, and at startup kept out of the loop meanwhile.
GateShows(p) ==
    /\ gate[p].phase = "showing"
    /\ LET silent == {s \in Candidates(p) : p \notin Confirming /\ WasApproved(p, s, Find(p, s))}
           shown == Candidates(p) \ silent
           fit == {s \in silent : Find(p, s).text \notin Frequent}
       IN  \E kept \in SUBSET fit :
            /\ RoomFor(kept, fit, Outside(p, Candidates(p)))
            /\ Put(p, Paused(p, silent \ kept)) /\ Revoke(silent \ kept)
            /\ IF shown = {}
               THEN /\ gate' = [gate EXCEPT ![p] = NoGate]
                    /\ held' = [held EXCEPT ![p] = Release(p, gate[p].gen)]
                    /\ StartLoop(p) /\ UNCHANGED asking
               ELSE /\ gate' = [gate EXCEPT ![p] = [phase |-> "open", gen |-> gate[p].gen,
                                   shown |-> {<<s, Find(p, s).text>> : s \in shown}]]
                    /\ held' = [held EXCEPT ![p] = [s \in Schedules |-> IF s \in kept THEN 0 ELSE @[s]]]
                    /\ asking' = [asking EXCEPT ![p] = IF gate[p].gen = 0 THEN @ \cup shown ELSE @]
                    /\ IF gate[p].gen = 0 /\ kept # {} THEN StartLoop(p) ELSE UNCHANGED loop
    /\ Unlock(p)
    /\ UNCHANGED <<now, claims, saved, pending, floor, holdGen, unconfirmed, inbox, online,
                   picks, queued, turning, call, ran>>

Shown(p) == {e[1] : e \in gate[p].shown}

GateAnswered(p, yes) ==
    /\ GateMoves(p, "open", IF yes THEN "yes" ELSE "no")
    /\ Reload(p)
    /\ UNCHANGED <<now, shared, timers, pending, floor, held, holdGen, unconfirmed, asking,
                   inbox, online, looping, turning, call, ran>>

\* Nobody answered: nothing is changed; at startup what was shown does not
\* run unasked in this session.
GateWithdrawn(p) ==
    /\ "withdraw" \in May /\ gate[p].phase = "open" /\ Free(p)
    /\ gate' = [gate EXCEPT ![p] = NoGate]
    /\ IF gate[p].gen = 0
       THEN /\ unconfirmed' = [unconfirmed EXCEPT ![p] = @ \cup Shown(p)]
            /\ asking' = [asking EXCEPT ![p] = @ \ Shown(p)]
            /\ StartLoop(p)
       ELSE UNCHANGED <<unconfirmed, asking, loop>>
    /\ UNCHANGED <<now, shared, timers, seen, pending, floor, held, holdGen, inbox, online,
                   picks, queued, turning, call, ran>>

\* yes approves what was shown, unless add would refuse it now; what was
\* edited meanwhile stays unapproved.  A later switch makes it stale.
GateDecides(p) ==
    /\ gate[p].phase \in {"yes", "no"}
    /\ LET live == {s \in Shown(p) : /\ Find(p, s).state = "active"
                                     /\ gate[p].gen # 0 => held[p][s] = gate[p].gen}
           fit == {s \in live : gate[p].phase = "yes" /\ Find(p, s).text \notin Frequent}
           same == {s \in fit : <<s, Find(p, s).text>> \in gate[p].shown}
           others == Outside(p, Shown(p))
       IN  \E kept \in SUBSET same, before \in 0..Cardinality(fit \ same) :
            /\ RoomFor(kept, same, others + before)
            /\ LET out == live \ (kept \cup (fit \ same))
               IN  /\ Put(p, Paused(p, out))
                   /\ approvals' = [s \in Schedules |-> IF s \in out THEN None
                                      ELSE IF s \in kept THEN Find(p, s).text ELSE approvals[s]]
    /\ held' = [held EXCEPT ![p] = Release(p, gate[p].gen)]
    /\ asking' = [asking EXCEPT ![p] = IF gate[p].gen = 0 THEN @ \ Shown(p) ELSE @]
    /\ gate' = [gate EXCEPT ![p] = NoGate]
    /\ StartLoop(p)
    /\ Unlock(p)
    /\ UNCHANGED <<now, claims, saved, pending, floor, holdGen, unconfirmed, inbox, online,
                   picks, queued, turning, call, ran>>

\* loadTimers: a session switch after the startup prompt began; its active
\* timers are held until a person confirms them (ConfirmHeldTimers).
SwitchSession(p) ==
    /\ "switch" \in May /\ holdGen[p] < MaxGen /\ Free(p) /\ turn[p] = "idle"
    /\ gate[p] # [NoGate EXCEPT !.phase = "start"]
    /\ timers' = [t \in Timers |-> IF Home[t] = p THEN saved[t] ELSE timers[t]]
    /\ holdGen' = [holdGen EXCEPT ![p] = @ + 1]
    /\ held' = [held EXCEPT ![p] = [s \in Schedules |->
                   IF s \in Timers /\ Home[s] = p /\ saved[s].state = "active" THEN holdGen[p] + 1 ELSE 0]]
    /\ UNCHANGED <<now, shared, seen, pending, floor, unconfirmed, asking, inbox, online,
                   looping, turning, asks, ran>>
ConfirmHeldTimers(p) ==
    /\ gate[p] = NoGate /\ holdGen[p] # 0 /\ \E s \in Schedules : held[p][s] = holdGen[p]
    /\ gate' = [gate EXCEPT ![p] = [NoGate EXCEPT !.phase = "start", !.gen = holdGen[p]]]
    /\ UNCHANGED <<now, shared, sched, inbox, online, looping, turning, call, ran>>

-----------------------------------------------------------------------------
(* The environment *)

Tick ==
    /\ now < End /\ now' = now + 1
    /\ UNCHANGED <<shared, sched, inbox, online, looping, turning, asks, ran>>

\* schedules.md is a person's file: contents and states are edited by hand, a
\* section deleted, a file that cannot be read is moved aside as a whole.
EditFile(s) ==
    /\ file[s] # NoRec
    /\ \/ "edit" \in May /\ \E c \in Texts, st \in {"active", file[s].state} :
              file' = [file EXCEPT ![s].text = c, ![s].state = st]
       \/ "delete" \in May /\ file' \in {[file EXCEPT ![s] = NoRec], NoFile}
    /\ UNCHANGED <<now, approvals, claims, saved, sched, inbox, online, looping, turning, asks, ran>>

\* The program is killed and started again on the saved session.
Crash(p) ==
    /\ "crash" \in May /\ gate[p] # [NoGate EXCEPT !.phase = "start"]
    /\ timers' = [t \in Timers |-> IF Home[t] = p THEN saved[t] ELSE timers[t]]
    /\ pending' = [pending EXCEPT ![p] = [s \in Schedules |-> NoPending]]
    /\ floor' = [floor EXCEPT ![p] = [s \in Schedules |-> 0]]
    /\ held' = [held EXCEPT ![p] = [s \in Schedules |-> 0]]
    /\ holdGen' = [holdGen EXCEPT ![p] = 0]
    /\ unconfirmed' = [unconfirmed EXCEPT ![p] = {}] /\ asking' = [asking EXCEPT ![p] = {}]
    /\ queue' = [queue EXCEPT ![p] = <<>>] /\ armed' = [armed EXCEPT ![p] = NoArm]
    /\ fired' = [fired EXCEPT ![p] = FALSE]
    /\ loop' = [loop EXCEPT ![p] = "off"] /\ picks' = [picks EXCEPT ![p] = {}]
    /\ queued' = [queued EXCEPT ![p] = {}]
    /\ turn' = [turn EXCEPT ![p] = "idle"] /\ item' = [item EXCEPT ![p] = NoItem]
    /\ call' = [call EXCEPT ![p] = NoCall]
    /\ gate' = [gate EXCEPT ![p] = [NoGate EXCEPT !.phase = "start"]]
    /\ Unlock(p)
    /\ UNCHANGED <<now, shared, online, ran>>

-----------------------------------------------------------------------------
LoopStep(p) ==
    LoopReads(p) \/ LoopSettles(p) \/ LoopDecides(p) \/ LoopFires(p)
TurnStep(p) ==
    \/ DrainItems(p) \/ DrainEvent(p) \/ TakeFiring(p)
    \/ BeginPauses(p) \/ BeginRefuses(p) \/ BeginFindsClaim(p) \/ BeginAdmits(p)
    \/ BeginSaves(p) \/ ReleaseFiring(p) \/ PrepareFiredRun(p) \/ TurnEnds(p)
    \/ FinishReads(p) \/ \E ok \in BOOLEAN : FinishWrites(p, ok)
CallWrites(p) == NarrowWrites(p) \/ ResumeWrites(p) \/ AddWrites(p)
PersonStep(p) ==
    \/ LineComes(p) \/ Esc(p) \/ RunFires(p) \/ CallWrites(p)
    \/ \E yes \in BOOLEAN : PromptAnswered(p, yes) \/ GateAnswered(p, yes)
    \/ \E s \in Schedules : \/ DropEvent(p, s) \/ RunAsked(p, s) \/ Narrows(p, s)
                           \/ ResumeAsks(p, s) \/ \E c \in Texts : AddAsks(p, s, c)
GateStep(p) == GateReads(p) \/ GateShows(p) \/ GateDecides(p)

Next ==
    \/ \E p \in Sessions :
        \/ LoopStep(p) \/ TurnStep(p) \/ Deliver(p) \/ PersonStep(p) \/ GateStep(p)
        \/ GateWithdrawn(p) \/ SwitchSession(p) \/ ConfirmHeldTimers(p) \/ Crash(p)
    \/ Tick
    \/ \E s \in Recurring : EditFile(s)

Spec == Init /\ [][Next]_vars

-----------------------------------------------------------------------------
(* Properties *)

Phases == {"idle", "drain", "request", "begin", "save", "begun", "refused", "prepare",
           "running", "finish", "record"}
TypeOK ==
    /\ now \in 1..End /\ file \in [Recurring -> Recs] /\ timers \in [Timers -> Recs]
    /\ saved \in [Timers -> Recs] /\ approvals \in [Schedules -> Texts \cup {None}]
    /\ loop \in [Sessions -> {"off", "idle", "settle", "decide", "fire"}]
    /\ turn \in [Sessions -> Phases]
    /\ \A p \in Sessions :
        /\ seen[p].file \in [Recurring -> Recs]
        /\ ~Locked(p) => seen[p] = NoSeen
        /\ loop[p] # "fire" => picks[p] = {}
        /\ asking[p] \subseteq Shown(p)
        \* one holder of mu at a time
        /\ Cardinality({x \in {"loop", "turn", "call", "gate"} :
             \/ x = "loop" /\ loop[p] \in {"settle", "decide"}
             \/ x = "turn" /\ turn[p] \in {"save", "record"}
             \/ x = "call" /\ call[p].op \in {"pausing", "cancelling", "resuming", "adding"}
             \/ x = "gate" /\ gate[p].phase \in {"showing", "yes", "no"}}) <= 1

\* An occurrence runs unasked at most once, whichever sessions find it due,
\* whatever is edited, and whoever is killed between claim, save and run
\* (schedules.go: "Another session on this workspace may have run this very
\* occurrence").
RunsOnce == \A s \in Schedules, d \in 0..End : ran[s][d] <= 1

\* A pass never takes an event that is on its way to its turn for one a
\* person dropped: the queue is read before the arm, the event armed before
\* it leaves the queue, and the arm kept until begin has run.
EventKept == [][\A p \in Sessions :
    LoopSettles(p) /\ turn[p] \in {"request", "begin"} /\ item[p].id \in Schedules
        => pending'[p][item[p].id] = pending[p][item[p].id]]_vars

\* An event's request runs under its allowance and nothing else does; the
\* lines that come meanwhile wait (inbox.go: "A person's words and a scheduled
\* event never share a turn").
EventRuns(p) == turn[p] = "running" /\ item[p].grants # None
OneRule == \A p \in Sessions : fired[p] <=> EventRuns(p)

\* "DrainForTurn is ... every line that is not a scheduled event ... or, when
\* there are none, exactly one scheduled event" (inbox.go): a line is not
\* taken for an event, which begin would refuse and so lose.
LineNotRefused == \A p \in Sessions : turn[p] = "refused" => item[p].id \in Schedules

\* "a queued event never outlives a pause, an edit or a removal of its
\* schedule" (schedules.go): what runs is what the grants were approved for.
RunsWhatIsGranted == \A p \in Sessions : EventRuns(p) => item[p].text = item[p].grants

\* What the person was promised, on the approvals as they are on disk.  An
\* event's turn lasts from begin to the end of its request.
Showing(p) == gate[p].shown \cup
    IF call[p].op \in {"resume?", "resuming", "add?", "adding"} THEN {<<call[p].id, call[p].text>>} ELSE {}
Unattended(p) ==
    IF turn[p] \in {"save", "begun", "prepare", "running"} /\ item[p].grants # None
    THEN [id |-> item[p].id, text |-> item[p].grants] ELSE None
Promise == INSTANCE EventPromise WITH
    consent <- approvals,
    shown <- [p \in Sessions |-> Showing(p)],
    turn <- [p \in Sessions |-> Unattended(p)]
KeepsPromise == Promise!Spec
=============================================================================
