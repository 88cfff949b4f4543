---------------------------- MODULE FiringProofs ----------------------------
(***************************************************************************)
(* Proofs about Firing, for any sets of sessions, schedules, timers and    *)
(* contents: types and the exclusion of mu, that an occurrence runs once   *)
(* at most, that a pass settles no event on its way to its turn, that an   *)
(* allowance is in force for an event's request only, and that Firing      *)
(* implements EventPromise.                                                *)
(***************************************************************************)
EXTENDS Firing, FiniteSetTheorems, TLAPS

-----------------------------------------------------------------------------
(* The inductive invariant *)

\* Schedules, wherever they are kept.
FileType == file \in [Recurring -> Recs]
TimerType == timers \in [Timers -> Recs] /\ saved \in [Timers -> Recs]
ApprovalType == approvals \in [Schedules -> Texts \cup {None}]
Sights == [file : [Recurring -> Recs], approvals : [Schedules -> Texts \cup {None}]]
SeenType == seen \in [Sessions -> Sights]
RecordInv == FileType /\ TimerType /\ ApprovalType /\ SeenType

\* What a session keeps of them in memory.
ClockInv ==
    /\ now \in 1 .. End /\ floor \in [Sessions -> [Schedules -> 0 .. End]]
    /\ pending \in [Sessions -> [Schedules -> [at : 0 .. End, manual : BOOLEAN]]]
    /\ ran \in [Schedules -> [0 .. End -> Nat]]
HoldInv == held \in [Sessions -> [Schedules -> Nat]] /\ holdGen \in [Sessions -> Nat]

LoopInv ==
    /\ loop \in [Sessions -> {"off", "idle", "settle", "decide", "fire"}]
    /\ picks \in [Sessions -> SUBSET [id : Schedules, text : Texts]]
    /\ \A p \in Sessions : loop[p] # "fire" => picks[p] = {}

\* A call that is under way is on a schedule of this session, and one that
\* asked has shown a content.
Ops == {"none", "run", "pausing", "cancelling", "resume?", "resuming", "add?", "adding"}
CallInv ==
    /\ call \in [Sessions -> [op : Ops, id : Schedules \cup {None}, text : Texts \cup {None}]]
    /\ \A p \in Sessions :
        /\ call[p].op # "none" => call[p].id \in Mine(p)
        /\ call[p].op \in {"resume?", "resuming", "add?", "adding"} => call[p].text \in Texts

\* A prompt shows schedules of its session, and what it keeps out of the loop
\* is among them: the prompt of a switch keeps nothing out.
Gates == {"closed", "start", "showing", "open", "yes", "no"}
GateInv ==
    /\ gate \in [Sessions -> [phase : Gates, gen : Nat, shown : SUBSET (Schedules \X Texts)]]
    /\ asking \in [Sessions -> SUBSET Schedules] /\ unconfirmed \in [Sessions -> SUBSET Schedules]
    /\ \A p \in Sessions :
        /\ gate[p].phase \notin {"open", "yes", "no"} => gate[p].shown = {}
        /\ Shown(p) \subseteq Mine(p) /\ asking[p] \subseteq Shown(p)
        /\ gate[p].gen # 0 => asking[p] = {}

\* Where a turn is for an event that was admitted.
AtEvent(p) ==
    \/ turn[p] \in {"save", "begun", "prepare", "finish", "record"}
    \/ turn[p] = "running" /\ item[p].grants # None
Admitted == {"save", "begun", "prepare"}
TurnInv ==
    /\ turn \in [Sessions -> Phases] /\ fired \in [Sessions -> BOOLEAN]
    /\ item = [p \in Sessions |-> [id |-> item[p].id, text |-> item[p].text,
                                   due |-> item[p].due, grants |-> item[p].grants]]
    /\ \A p \in Sessions :
        /\ AtEvent(p) => item[p].id \in Mine(p)
        /\ turn[p] \in Admitted => item[p].grants # None /\ item[p].due \in 0 .. End
        /\ turn[p] \in {"request", "begin"} => item[p].grants = None

\* The event of a request stays armed until begin is through.
ArmInv ==
    /\ armed = [p \in Sessions |-> [id |-> armed[p].id, taken |-> armed[p].taken]]
    /\ \A p \in Sessions :
        /\ turn[p] \in {"request", "begin"} /\ item[p].id \in Schedules => armed[p].id = item[p].id
        /\ turn[p] = "begin" => armed[p].taken = TRUE

\* mu: each holder keeps the others out, and only a holder has read anything.
LoopHolds(p) == loop[p] \in {"settle", "decide"}
TurnHolds(p) == turn[p] \in {"save", "record"}
CallHolds(p) == call[p].op \in {"pausing", "cancelling", "resuming", "adding"}
GateHolds(p) == gate[p].phase \in {"showing", "yes", "no"}
Exclusive == \A p \in Sessions :
    /\ LoopHolds(p) => ~TurnHolds(p) /\ ~CallHolds(p) /\ ~GateHolds(p)
    /\ TurnHolds(p) => ~CallHolds(p) /\ ~GateHolds(p)
    /\ CallHolds(p) => ~GateHolds(p)
SeenLocked == \A p \in Sessions : ~Locked(p) => seen[p] = NoSeen

\* begin found the schedule, and it is there when begin writes.
SaveInv == \A p \in Sessions : turn[p] = "save" =>
    /\ item[p].id \in Recurring => seen[p].file[item[p].id] # NoRec
    /\ item[p].id \in Timers => timers[item[p].id] # NoRec

TypeInv ==
    /\ RecordInv /\ ClockInv /\ HoldInv /\ LoopInv /\ CallInv /\ GateInv /\ TurnInv
    /\ ArmInv /\ Exclusive /\ SeenLocked /\ SaveInv

\* The occurrence a session has claimed and not yet run is nobody else's and
\* was not run; what was run is claimed for good.
Claims(p) == turn[p] \in Admitted /\ item[p].due # 0
OnceInv ==
    /\ \A p \in Sessions : Claims(p) =>
        <<item[p].id, item[p].due>> \in claims /\ ran[item[p].id][item[p].due] = 0
    /\ \A p, q \in Sessions :
        Claims(p) /\ Claims(q) /\ item[p].id = item[q].id /\ item[p].due = item[q].due => p = q
    /\ \A s \in Schedules, d \in 0 .. End : ran[s][d] # 0 => <<s, d>> \in claims
    /\ RunsOnce

Inv == TypeInv /\ OneRule /\ OnceInv

-----------------------------------------------------------------------------
(* Records, and how a session finds them *)

Existing == Recs \ {NoRec}

LEMMA Constants ==
    /\ End \in Nat /\ PauseAfter \in Nat /\ None \notin Texts /\ None \notin Schedules
    /\ Recurring \subseteq Schedules /\ Timers \subseteq Schedules /\ Recurring \cap Timers = {}
    /\ "line" \notin Schedules /\ "void" \notin Schedules
    /\ \A p \in Sessions : Mine(p) \subseteq Schedules /\ Recurring \subseteq Mine(p)
  BY FiringAssumption DEF Schedules, Mine

LEMMA RecTypes ==
    /\ NoRec \in Recs
    /\ \A r \in Recs : /\ r.last \in 0 .. End /\ r.fails \in 0 .. PauseAfter
                       /\ r.text \in Texts \cup {None}
    /\ \A r \in Existing : r.text \in Texts /\ r.state \in {"active", "paused", "done"}
    /\ NoRec.state = "absent" /\ NoRec.text = None
  BY Constants DEF Recs, NoRec, Existing

\* What the sections write is a schedule again.
LEMMA RecUpdates ==
    /\ \A r \in Existing, n \in 0 .. End : [r EXCEPT !.last = n] \in Existing
    /\ \A r \in Existing, c \in Texts : [r EXCEPT !.text = c] \in Existing
    /\ \A r \in Existing, v \in {"active", "paused", "done"} :
        /\ [r EXCEPT !.state = v] \in Existing
        /\ \A f \in 0 .. PauseAfter : /\ [r EXCEPT !.state = v, !.fails = f] \in Existing
                                     /\ [r EXCEPT !.fails = f, !.state = v] \in Existing
    /\ \A c \in Texts, v \in {"active", "paused", "done"} :
        /\ [NoRec EXCEPT !.state = v, !.text = c] \in Existing
        /\ \A n \in 0 .. End : [NoRec EXCEPT !.state = v, !.text = c, !.last = n] \in Existing
<1>1. \A r \in Existing : r \in [state : {"active", "paused", "done"}, last : 0 .. End,
             fails : 0 .. PauseAfter, text : Texts]
  BY DEF Existing, Recs
<1>2. \A x \in [state : {"active", "paused", "done"}, last : 0 .. End,
                fails : 0 .. PauseAfter, text : Texts] : x \in Existing
  BY Constants DEF Existing, Recs, NoRec
<1>3. NoRec = [state |-> "absent", last |-> 0, fails |-> 0, text |-> None]
      /\ 0 \in 0 .. End /\ 0 \in 0 .. PauseAfter
  BY Constants DEF NoRec
<1> QED  BY <1>1, <1>2, <1>3

LEMMA FlooredTypes ==
    ASSUME ClockInv, NEW p \in Sessions, NEW s \in Schedules, NEW r \in Recs
    PROVE  /\ Floored(p, s, r) \in Recs
           /\ Floored(p, s, r) # NoRec <=> r # NoRec
           /\ Floored(p, s, r).state = r.state /\ Floored(p, s, r).text = r.text
<1>1. floor[p][s] \in 0 .. End /\ r.last \in 0 .. End
  BY RecTypes DEF ClockInv
<1>2. Larger(r.last, floor[p][s]) \in 0 .. End
  BY <1>1 DEF Larger
<1>3. CASE r = NoRec
  BY <1>3, RecTypes DEF Floored
<1>4. CASE r # NoRec
  <2>1. Floored(p, s, r) = [r EXCEPT !.last = Larger(r.last, floor[p][s])]
    BY <1>4 DEF Floored
  <2>2. r \in [state : {"active", "paused", "done"}, last : 0 .. End,
               fails : 0 .. PauseAfter, text : Texts]
    BY <1>4 DEF Recs
  <2>3. Floored(p, s, r).state = r.state /\ Floored(p, s, r).text = r.text
    BY <2>1, <2>2
  <2>4. Floored(p, s, r) \in [state : {"active", "paused", "done"}, last : 0 .. End,
               fails : 0 .. PauseAfter, text : Texts]
    BY <1>2, <2>1, <2>2
  <2>5. Floored(p, s, r) # NoRec
    BY <2>4, Constants DEF NoRec
  <2> QED  BY <1>4, <2>3, <2>4, <2>5 DEF Recs
<1> QED  BY <1>3, <1>4

\* What a section finds, of what there is and is the session's own.
LEMMA FindTypes ==
    ASSUME RecordInv, ClockInv, NEW p \in Sessions, NEW s \in Schedules
    PROVE  /\ Find(p, s) \in Recs /\ Lookup(p, s) \in Recs
           /\ Find(p, s) # NoRec \/ Lookup(p, s) # NoRec => s \in Mine(p)
           /\ s \in Recurring => (Find(p, s) # NoRec <=> seen[p].file[s] # NoRec)
           /\ s \in Recurring => (Lookup(p, s) # NoRec <=> file[s] # NoRec)
           /\ s \in Timers /\ s \in Mine(p) =>
                /\ Find(p, s) # NoRec <=> timers[s] # NoRec
                /\ Lookup(p, s) # NoRec <=> timers[s] # NoRec
<1>1. s \in Recurring \/ (s \in Timers /\ s \notin Recurring)
  BY Constants DEF Schedules
<1>2. s \in Recurring => seen[p].file[s] \in Recs /\ file[s] \in Recs
  BY DEF RecordInv, SeenType, Sights, FileType
<1>3. s \in Timers => Timer(p, s) \in Recs /\ (Timer(p, s) # NoRec => s \in Mine(p))
  BY RecTypes DEF RecordInv, TimerType, Timer, Mine
<1>4. s \in Timers /\ s \in Mine(p) => Timer(p, s) = timers[s]
  BY Constants DEF Timer, Mine
<1>5. CASE s \in Recurring
  BY <1>2, <1>5, FlooredTypes, Constants DEF Find, Lookup
<1>6. CASE s \in Timers /\ s \notin Recurring
  BY <1>3, <1>4, <1>6, FlooredTypes DEF Find, Lookup
<1> QED  BY <1>1, <1>5, <1>6

\* Nothing is due of a schedule that there is not, or that is not active.
LEMMA DueTypes ==
    ASSUME NEW s \in Schedules, NEW r \in Recs
    PROVE  /\ NextDue(s, r) \in Nat
           /\ NextDue(s, r) <= End => r.state = "active" /\ r # NoRec
<1>1. Never \in Nat /\ Never > End
  BY Constants DEF Never
<1>2. ASSUME s \in Recurring PROVE (r.last \div Every[s] + 1) * Every[s] \in Nat
  <2>1. Every[s] \in Nat /\ Every[s] > 0 /\ r.last \in Nat
    BY <1>2, FiringAssumption, RecTypes, Constants
  <2> DEFINE E == Every[s]
             n == r.last
  <2>2. n \div E \in Int /\ n \div E >= 0
    <3> HIDE DEF E, n
    <3>1. E \in Nat /\ E > 0 /\ n \in Nat
      BY <2>1 DEF E, n
    <3> QED  BY <3>1, SMT
  <2>3. n \div E + 1 \in Nat
    BY <2>2
  <2> HIDE DEF n
  <2> QED  BY <2>1, <2>3
<1>3. s \in Timers => At[s] \in Nat
  BY FiringAssumption
<1>4. NextDue(s, r) \in Nat
  <2>1. CASE r.state # "active"
    BY <1>1, <2>1 DEF NextDue
  <2>2. CASE r.state = "active" /\ s \in Timers
    BY <1>1, <1>3, <2>2 DEF NextDue
  <2>3. CASE r.state = "active" /\ s \notin Timers
    <3>1. NextDue(s, r) = (r.last \div Every[s] + 1) * Every[s]
      BY <2>3 DEF NextDue
    <3> QED  BY <1>2, <2>3, <3>1 DEF Schedules
  <2> QED  BY <2>1, <2>2, <2>3
<1>5. r.state # "active" => NextDue(s, r) = Never
  BY DEF NextDue
<1>6. r.state = "active" => r # NoRec
  BY RecTypes
<1> QED  BY <1>1, <1>4, <1>5, <1>6, Constants

-----------------------------------------------------------------------------
(* What the sections write *)

LEMMA PutTypes ==
    ASSUME RecordInv, NEW p \in Sessions, NEW T \in SUBSET Mine(p), NEW new \in [T -> Recs],
           Put(p, new)
    PROVE  /\ FileType' /\ timers' \in [Timers -> Recs]
           /\ \A t \in Timers : t \notin T => timers'[t] = timers[t]
<1>1. DOMAIN new = T
  OBVIOUS
<1>2. seen[p].file \in [Recurring -> Recs]
  BY DEF RecordInv, SeenType, Sights
<1>3. FileType'
  BY <1>1, <1>2 DEF Put, FileType, RecordInv
<1> QED  BY <1>1, <1>3 DEF Put, RecordInv, TimerType

LEMMA PausedTypes ==
    ASSUME RecordInv, ClockInv, NEW p \in Sessions, NEW T \in SUBSET Schedules,
           \A s \in T : Find(p, s) # NoRec
    PROVE  Paused(p, T) \in [T -> Recs] /\ T \subseteq Mine(p)
<1>1. \A s \in T : [Find(p, s) EXCEPT !.state = "paused"] \in Recs
  <2> SUFFICES ASSUME NEW s \in T PROVE [Find(p, s) EXCEPT !.state = "paused"] \in Existing
    BY DEF Existing
  <2>1. Find(p, s) \in Existing
    BY FindTypes DEF Existing
  <2> QED  BY <2>1, RecUpdates, Constants
<1> QED  BY <1>1, FindTypes DEF Paused

LEMMA RevokeTypes ==
    ASSUME ApprovalType, NEW T, Revoke(T)
    PROVE  ApprovalType' /\ \A s \in Schedules : approvals'[s] \in {approvals[s], None}
  BY DEF ApprovalType, Revoke

LEMMA RereadTypes ==
    ASSUME RecordInv, NEW p \in Sessions, Reread(p)
    PROVE  SeenType'
  BY DEF RecordInv, SeenType, Sights, FileType, ApprovalType, Reread

LEMMA UnlockTypes ==
    ASSUME RecordInv, NEW p \in Sessions, Unlock(p)
    PROVE  SeenType'
<1>1. NoSeen \in Sights
  BY RecTypes DEF NoSeen, NoFile, Sights
<1> QED  BY <1>1 DEF RecordInv, SeenType, Unlock

-----------------------------------------------------------------------------
(* A session's steps keep the records' types and leave the timers of the   *)
(* others alone                                                            *)

TimersApart(p) == \A t \in Timers : Home[t] # p => timers'[t] = timers[t]
Records(p) == RecordInv' /\ TimersApart(p)

LEMMA RecordFrame ==
    ASSUME RecordInv, NEW p \in Sessions, UNCHANGED <<file, timers, saved, approvals>>, SeenType'
    PROVE  Records(p)
  BY DEF RecordInv, Records, FileType, TimerType, ApprovalType, TimersApart

LEMMA PutRecords ==
    ASSUME RecordInv, NEW p \in Sessions, NEW T \in SUBSET Mine(p), NEW new \in [T -> Recs],
           Put(p, new), UNCHANGED saved
    PROVE  FileType' /\ TimerType' /\ TimersApart(p)
<1>1. FileType' /\ timers' \in [Timers -> Recs] /\ \A t \in Timers : t \notin T => timers'[t] = timers[t]
  BY PutTypes
<1>2. \A t \in Timers : Home[t] # p => t \notin T
  BY Constants DEF Mine
<1>3. saved' \in [Timers -> Recs]
  BY DEF RecordInv, TimerType
<1> QED  BY <1>1, <1>2, <1>3 DEF TimerType, TimersApart

LEMMA SettleRecords ==
    ASSUME RecordInv, ClockInv, NEW p \in Sessions, LoopSettles(p)
    PROVE  Records(p)
<1> DEFINE dropped == {s \in Schedules : /\ Pending(p, s) /\ s \notin queued[p]
                                         /\ armed[p].id # s}
           found == {s \in dropped : Find(p, s) # NoRec}
           new == [s \in found |->
                     IF s \in Timers THEN [Find(p, s) EXCEPT !.state = "done"]
                     ELSE [Find(p, s) EXCEPT !.last = Larger(@, pending[p][s].at)]]
<1>1. Put(p, new) /\ UNCHANGED saved /\ UNCHANGED approvals
  BY DEF LoopSettles
<1>2. seen' \in {seen, [seen EXCEPT ![p].file = file']}
  BY DEF LoopSettles
<1>3. \A s \in found : s \in Schedules /\ Find(p, s) \in Existing /\ s \in Mine(p)
  BY FindTypes DEF Existing
<1>4. \A s \in found : new[s] \in Recs
  <2> SUFFICES ASSUME NEW s \in found PROVE new[s] \in Existing
    BY DEF Existing
  <2>1. Find(p, s).last \in 0 .. End /\ pending[p][s].at \in 0 .. End
    BY <1>3, RecTypes DEF ClockInv, Existing
  <2>2. Larger(Find(p, s).last, pending[p][s].at) \in 0 .. End
    BY <2>1 DEF Larger
  <2>3. new[s] = IF s \in Timers THEN [Find(p, s) EXCEPT !.state = "done"]
                 ELSE [Find(p, s) EXCEPT !.last = Larger(Find(p, s).last, pending[p][s].at)]
    OBVIOUS
  <2>4. Find(p, s) \in Existing
    BY <1>3
  <2> HIDE DEF found, new
  <2>5. [Find(p, s) EXCEPT !.state = "done"] \in Existing
    BY <2>4, RecUpdates
  <2>6. [Find(p, s) EXCEPT !.last = Larger(Find(p, s).last, pending[p][s].at)] \in Existing
    BY <2>2, <2>4, RecUpdates
  <2> QED  BY <2>3, <2>5, <2>6
<1>5. found \subseteq Mine(p) /\ new \in [found -> Recs]
  BY <1>3, <1>4
<1> HIDE DEF found, new
<1>6. FileType' /\ TimerType' /\ TimersApart(p)
  BY <1>1, <1>5, PutRecords
<1>7. ApprovalType'
  BY <1>1 DEF RecordInv, ApprovalType
<1>8. SeenType'
  BY <1>2, <1>6 DEF RecordInv, SeenType, Sights, FileType
<1> QED  BY <1>6, <1>7, <1>8 DEF RecordInv, Records

LEMMA DecideRecords ==
    ASSUME RecordInv, ClockInv, NEW p \in Sessions, LoopDecides(p)
    PROVE  Records(p)
<1> DEFINE due == {s \in Mine(p) : /\ NextDue(s, Find(p, s)) <= now
                                   /\ ~Barred(p, s) /\ ~Pending(p, s)}
           changed == {s \in due : ~WasApproved(p, s, Find(p, s))}
<1>1. Put(p, Paused(p, changed)) /\ Revoke(changed) /\ Unlock(p) /\ UNCHANGED saved
  BY DEF LoopDecides
<1>2. \A s \in changed : s \in Schedules /\ Find(p, s) # NoRec
  <2> SUFFICES ASSUME NEW s \in changed PROVE Find(p, s) # NoRec
    BY Constants
  <2>1. s \in Schedules /\ NextDue(s, Find(p, s)) <= now /\ now \in 1 .. End
    BY Constants DEF ClockInv
  <2>2. Find(p, s) \in Recs
    BY <2>1, FindTypes
  <2>3. NextDue(s, Find(p, s)) \in Nat
    BY <2>1, <2>2, DueTypes
  <2>4. NextDue(s, Find(p, s)) <= End
    BY <2>1, <2>3, Constants
  <2> QED  BY <2>1, <2>2, <2>4, DueTypes
<1> HIDE DEF changed
<1>3. Paused(p, changed) \in [changed -> Recs] /\ changed \subseteq Mine(p)
  BY <1>2, PausedTypes
<1>4. FileType' /\ TimerType' /\ TimersApart(p)
  BY <1>1, <1>3, PutRecords
<1>5. ApprovalType' /\ SeenType'
  BY <1>1, RevokeTypes, UnlockTypes DEF RecordInv
<1> QED  BY <1>4, <1>5 DEF RecordInv, Records

LEMMA LoopRecords ==
    ASSUME RecordInv, ClockInv, NEW p \in Sessions, LoopStep(p)
    PROVE  Records(p)
<1> USE DEF shared, sched
<1>1. CASE LoopReads(p)
  <2>1. SeenType'
    BY <1>1, RereadTypes DEF LoopReads, Reload
  <2> QED  BY <1>1, <2>1, RecordFrame DEF LoopReads
<1>2. CASE LoopFires(p)
  <2>1. SeenType'
    BY <1>2 DEF LoopFires, RecordInv, SeenType
  <2> QED  BY <1>2, <2>1, RecordFrame DEF LoopFires
<1> QED  BY <1>1, <1>2, SettleRecords, DecideRecords DEF LoopStep

LEMMA BeginRecords ==
    ASSUME RecordInv, ClockInv, TurnInv, SaveInv, NEW p \in Sessions,
           BeginPauses(p) \/ BeginRefuses(p) \/ BeginFindsClaim(p) \/ BeginAdmits(p) \/ BeginSaves(p)
    PROVE  Records(p)
<1> USE DEF shared, sched
<1>1. CASE BeginPauses(p)
  <2> DEFINE s == item[p].id
             r == Lookup(p, s)
  <2>1. /\ s \in Schedules /\ r # NoRec
        /\ file' = IF s \in Timers THEN file ELSE [file EXCEPT ![s] = [r EXCEPT !.state = "paused"]]
        /\ timers' = IF s \in Timers THEN [timers EXCEPT ![s].state = "paused"] ELSE timers
        /\ Revoke({s}) /\ UNCHANGED <<saved, seen>>
    BY <1>1 DEF BeginPauses
  <2>2. /\ r \in Existing /\ s \in Mine(p)
        /\ s \in Timers => timers[s] \in Existing
    BY <2>1, FindTypes DEF Existing, RecordInv, TimerType
  <2> HIDE DEF s, r
  <2>3. FileType'
    <3>1. [r EXCEPT !.state = "paused"] \in Recs
      BY <2>2, RecUpdates DEF Existing
    <3>2. file \in [Recurring -> Recs]
      BY DEF RecordInv, FileType
    <3> QED  BY <2>1, <3>1, <3>2 DEF FileType
  <2>4. timers' \in [Timers -> Recs] /\ TimersApart(p)
    <3>1. s \in Timers => [timers[s] EXCEPT !.state = "paused"] \in Recs
      BY <2>2, RecUpdates DEF Existing
    <3>2. timers \in [Timers -> Recs]
      BY DEF RecordInv, TimerType
    <3>3. \A t \in Timers : Home[t] # p => t # s
      BY <2>2, Constants DEF Mine
    <3> QED  BY <2>1, <3>1, <3>2, <3>3 DEF TimersApart
  <2>5. ApprovalType'
    BY <2>1, RevokeTypes DEF RecordInv
  <2> QED  BY <2>1, <2>3, <2>4, <2>5 DEF RecordInv, Records, TimerType, SeenType
<1>2. CASE BeginRefuses(p) \/ BeginFindsClaim(p)
  BY <1>2, RecordFrame DEF BeginRefuses, BeginFindsClaim, RecordInv, SeenType
<1>3. CASE BeginAdmits(p)
  <2>1. SeenType'
    BY <1>3, RereadTypes DEF BeginAdmits
  <2> QED  BY <1>3, <2>1, RecordFrame DEF BeginAdmits
<1>4. CASE BeginSaves(p)
  <2> DEFINE s == item[p].id
             new == [k \in {s} |-> [Find(p, k) EXCEPT !.last = now]]
  <2>1. Put(p, new) /\ Unlock(p) /\ UNCHANGED <<saved, approvals>> /\ turn[p] = "save"
    BY <1>4 DEF BeginSaves
  <2>2. s \in Mine(p) /\ s \in Schedules
    BY <2>1, Constants DEF TurnInv, AtEvent
  <2>3. Find(p, s) \in Existing
    <3>1. s \in Recurring => seen[p].file[s] # NoRec
      BY <2>1 DEF SaveInv
    <3>2. s \in Timers => timers[s] # NoRec
      BY <2>1 DEF SaveInv
    <3>3. s \in Recurring \/ s \in Timers
      BY <2>2 DEF Schedules
    <3> HIDE DEF s
    <3>4. CASE s \in Recurring
      BY <2>2, <3>1, <3>4, FindTypes DEF Existing
    <3>5. CASE s \in Timers
      BY <2>2, <3>2, <3>5, FindTypes DEF Existing
    <3> QED  BY <3>3, <3>4, <3>5
  <2>4. [Find(p, s) EXCEPT !.last = now] \in Recs
    <3>1. now \in 0 .. End
      BY DEF ClockInv
    <3> HIDE DEF s
    <3> QED  BY <2>3, <3>1, RecUpdates DEF Existing
  <2>5. new \in [{s} -> Recs] /\ {s} \subseteq Mine(p)
    BY <2>2, <2>4
  <2> HIDE DEF new, s
  <2>6. FileType' /\ TimerType' /\ TimersApart(p)
    BY <2>1, <2>5, PutRecords
  <2>7. ApprovalType' /\ SeenType'
    BY <2>1, UnlockTypes DEF RecordInv, ApprovalType
  <2> QED  BY <2>6, <2>7 DEF RecordInv, Records
<1> QED  BY <1>1, <1>2, <1>3, <1>4

\* The turn's other steps, as the event begins and when it is finished.
LEMMA TurnRecords ==
    ASSUME RecordInv, ClockInv, TurnInv, SaveInv, NEW p \in Sessions, TurnStep(p) \/ Deliver(p)
    PROVE  Records(p)
<1> USE DEF shared, sched
<1>1. CASE DrainItems(p) \/ DrainEvent(p) \/ TakeFiring(p) \/ ReleaseFiring(p) \/ Deliver(p)
  BY <1>1, RecordFrame DEF DrainItems, DrainEvent, TakeFiring, ReleaseFiring, Deliver, RecordInv, SeenType
<1>2. CASE PrepareFiredRun(p) \/ TurnEnds(p)
  <2>1. saved' \in [Timers -> Recs]
    BY <1>2 DEF PrepareFiredRun, TurnEnds, Save, RecordInv, TimerType
  <2>2. UNCHANGED <<file, timers, approvals, seen>>
    BY <1>2 DEF PrepareFiredRun, TurnEnds
  <2> QED  BY <2>1, <2>2 DEF RecordInv, Records, FileType, TimerType, ApprovalType, SeenType, TimersApart
<1>3. CASE FinishReads(p)
  <2>1. SeenType'
    BY <1>3, RereadTypes DEF FinishReads, Reload
  <2> QED  BY <1>3, <2>1, RecordFrame DEF FinishReads
<1>4. ASSUME NEW ok \in BOOLEAN, FinishWrites(p, ok) PROVE Records(p)
  <2> DEFINE s == item[p].id
             r == Find(p, s)
             failed == IF ok THEN 0 ELSE IF r.fails < PauseAfter THEN r.fails + 1 ELSE PauseAfter
             stop == PauseAfter > 0 /\ failed >= PauseAfter /\ s \in Recurring
             new == [r EXCEPT !.fails = failed,
                              !.state = IF s \in Timers THEN "done" ELSE IF stop THEN "paused" ELSE @]
  <2>1. /\ turn[p] = "record" /\ Unlock(p) /\ UNCHANGED saved
        /\ r = NoRec => UNCHANGED <<file, timers, approvals>>
        /\ r # NoRec => Put(p, [k \in {s} |-> new]) /\ Revoke(IF stop THEN {s} ELSE {})
    BY <1>4 DEF FinishWrites
  <2>2. SeenType'
    BY <2>1, UnlockTypes
  <2>3. s \in Mine(p) /\ s \in Schedules /\ r \in Recs
    BY <2>1, Constants, FindTypes DEF TurnInv, AtEvent
  <2>4. CASE r = NoRec
    BY <2>1, <2>2, <2>4, RecordFrame
  <2>5. CASE r # NoRec
    <3>1. r \in Existing
      BY <2>3, <2>5 DEF Existing
    <3>2. failed \in 0 .. PauseAfter
      <4>1. r.fails \in 0 .. PauseAfter
        BY <2>3, RecTypes
      <4> HIDE DEF r
      <4> QED  BY <4>1, Constants
    <3>3. new \in Recs
      <4> DEFINE v == IF s \in Timers THEN "done" ELSE IF stop THEN "paused" ELSE r.state
      <4>1. new = [r EXCEPT !.fails = failed, !.state = v] /\ r.state \in {"active", "paused", "done"}
        BY <3>1, RecTypes
      <4>2. v \in {"active", "paused", "done"}
        BY <4>1
      <4> HIDE DEF v, new, r, failed
      <4> QED  BY <3>1, <3>2, <4>1, <4>2, RecUpdates DEF Existing
    <3> HIDE DEF new, r, failed, stop, s
    <3>4. [k \in {s} |-> new] \in [{s} -> Recs] /\ {s} \subseteq Mine(p)
      BY <2>3, <3>3
    <3>5. FileType' /\ TimerType' /\ TimersApart(p)
      BY <2>1, <2>5, <3>4, PutRecords
    <3>6. ApprovalType'
      BY <2>1, <2>5, RevokeTypes DEF RecordInv
    <3> QED  BY <2>2, <3>5, <3>6 DEF RecordInv, Records
  <2> QED  BY <2>4, <2>5
<1> QED  BY <1>1, <1>2, <1>3, <1>4, BeginRecords DEF TurnStep

\* What a call on a schedule writes.
LEMMA CallRecords ==
    ASSUME RecordInv, ClockInv, CallInv, NEW p \in Sessions, CallWrites(p)
    PROVE  Records(p)
<1> USE DEF shared, sched
<1> DEFINE s == call[p].id
           r == Find(p, s)
<1>1. /\ call[p].op # "none" /\ Unlock(p) /\ UNCHANGED saved
      /\ NarrowWrites(p) \/ call[p].op \in {"resuming", "adding"}
  BY DEF CallWrites, NarrowWrites, ResumeWrites, AddWrites
<1>2. s \in Mine(p) /\ s \in Schedules /\ r \in Recs /\ {s} \subseteq Mine(p)
  BY <1>1, Constants, FindTypes DEF CallInv
<1>3. SeenType'
  BY <1>1, UnlockTypes
<1>4. UNCHANGED <<file, timers, approvals>> => Records(p)
  BY <1>1, <1>3, RecordFrame
<1>5. ASSUME NEW new \in Recs, Put(p, [k \in {s} |-> new]), ApprovalType' PROVE Records(p)
  <2>1. [k \in {s} |-> new] \in [{s} -> Recs]
    OBVIOUS
  <2> HIDE DEF s
  <2>2. FileType' /\ TimerType' /\ TimersApart(p)
    BY <1>1, <1>2, <1>5, <2>1, PutRecords
  <2> QED  BY <1>3, <1>5, <2>2 DEF RecordInv, Records
<1>6. CASE NarrowWrites(p) /\ r # NoRec
  <2>1. /\ Put(p, Paused(p, {s})) \/ Put(p, [k \in {s} |-> NoRec])
        /\ Revoke({s})
    BY <1>6 DEF NarrowWrites
  <2>2. ApprovalType'
    BY <2>1, RevokeTypes DEF RecordInv
  <2>3. Paused(p, {s}) = [k \in {s} |-> [r EXCEPT !.state = "paused"]]
    BY DEF Paused
  <2>4. [r EXCEPT !.state = "paused"] \in Recs /\ NoRec \in Recs
    BY <1>2, <1>6, RecUpdates, RecTypes DEF Existing
  <2> HIDE DEF s, r
  <2> QED  BY <1>5, <2>1, <2>2, <2>3, <2>4
<1>7. CASE ResumeWrites(p)
  <2> DEFINE stay == r = NoRec \/ r.text # call[p].text \/ Full(Cardinality(Active(Find, p, {s})))
  <2>1. CASE stay
    BY <1>4, <1>7, <2>1 DEF ResumeWrites
  <2>2. CASE ~stay
    <3>1. /\ r # NoRec
          /\ Put(p, [k \in {s} |-> [r EXCEPT !.state = "active", !.fails = 0]])
          /\ approvals' = [approvals EXCEPT ![s] = r.text]
      BY <1>7, <2>2 DEF ResumeWrites
    <3>2. r \in Existing /\ 0 \in 0 .. PauseAfter
      BY <1>2, <3>1, Constants DEF Existing
    <3> HIDE DEF s, r
    <3>3. ApprovalType'
      BY <1>2, <3>1, <3>2, RecTypes DEF RecordInv, ApprovalType
    <3>4. [r EXCEPT !.state = "active", !.fails = 0] \in Recs
      BY <3>2, RecUpdates DEF Existing
    <3> QED  BY <1>5, <3>1, <3>3, <3>4
  <2> QED  BY <2>1, <2>2
<1>8. CASE AddWrites(p)
  <2> DEFINE stay == Find(p, s) # NoRec \/ Full(Cardinality(Active(Find, p, {})))
             c == call[p].text
             new == [NoRec EXCEPT !.state = "active", !.text = c, !.last = IF s \in Timers THEN 0 ELSE now]
  <2>1. CASE stay
    BY <1>4, <1>8, <2>1 DEF AddWrites
  <2>2. CASE ~stay
    <3>1. /\ Put(p, [k \in {s} |-> new])
          /\ approvals' = [approvals EXCEPT ![s] = c]
          /\ call[p].op = "adding"
      BY <1>8, <2>2 DEF AddWrites
    <3>2. c \in Texts
      BY <3>1 DEF CallInv
    <3> DEFINE n == IF s \in Timers THEN 0 ELSE now
    <3>3. n \in 0 .. End /\ new = [NoRec EXCEPT !.state = "active", !.text = c, !.last = n]
      BY Constants DEF ClockInv
    <3> HIDE DEF s, c, new, n
    <3>4. new \in Recs
      BY <3>2, <3>3, RecUpdates DEF Existing
    <3>5. ApprovalType'
      BY <1>2, <3>1, <3>2 DEF RecordInv, ApprovalType
    <3> QED  BY <1>5, <3>1, <3>4, <3>5
  <2> QED  BY <2>1, <2>2
<1>9. CASE NarrowWrites(p) /\ r = NoRec
  BY <1>4, <1>9 DEF NarrowWrites
<1> QED  BY <1>6, <1>7, <1>8, <1>9 DEF CallWrites

LEMMA PersonRecords ==
    ASSUME RecordInv, ClockInv, CallInv, NEW p \in Sessions, PersonStep(p)
    PROVE  Records(p)
<1> USE DEF shared, sched
<1>1. CASE LineComes(p) \/ Esc(p) \/ RunFires(p) \/ \E s \in Schedules : DropEvent(p, s) \/ RunAsked(p, s)
  BY <1>1, RecordFrame DEF LineComes, Esc, RunFires, DropEvent, RunAsked, Reading, RecordInv, SeenType
<1>2. CASE \E s \in Schedules : ResumeAsks(p, s) \/ \E c \in Texts : AddAsks(p, s, c)
  BY <1>2, RecordFrame DEF ResumeAsks, AddAsks, Reading, RecordInv, SeenType
<1>3. ASSUME NEW yes \in BOOLEAN, PromptAnswered(p, yes) \/ GateAnswered(p, yes) PROVE Records(p)
  <2>1. SeenType'
    BY <1>3, RereadTypes DEF PromptAnswered, GateAnswered, Reload, RecordInv, SeenType
  <2> QED  BY <1>3, <2>1, RecordFrame DEF PromptAnswered, GateAnswered, Reading
<1>4. ASSUME NEW s \in Schedules, Narrows(p, s) PROVE Records(p)
  <2>1. SeenType'
    BY <1>4, RereadTypes DEF Narrows, Reload
  <2> QED  BY <1>4, <2>1, RecordFrame DEF Narrows, Reading
<1> QED  BY <1>1, <1>2, <1>3, <1>4, CallRecords DEF PersonStep

\* What the prompts write.
LEMMA PausedRecords ==
    ASSUME RecordInv, ClockInv, NEW p \in Sessions, NEW T \in SUBSET Schedules,
           \A s \in T : Find(p, s).state = "active",
           Put(p, Paused(p, T)), UNCHANGED saved, Unlock(p), ApprovalType'
    PROVE  Records(p)
<1>1. Paused(p, T) \in [T -> Recs] /\ T \subseteq Mine(p)
  BY PausedTypes, RecTypes
<1>2. FileType' /\ TimerType' /\ TimersApart(p)
  BY <1>1, PutRecords
<1> QED  BY <1>2, UnlockTypes DEF RecordInv, Records

LEMMA GateRecords ==
    ASSUME RecordInv, ClockInv, GateInv, NEW p \in Sessions, GateStep(p) \/ GateWithdrawn(p)
    PROVE  Records(p)
<1> USE DEF shared, sched
<1>1. CASE GateReads(p)
  <2>1. SeenType'
    BY <1>1, RereadTypes DEF GateReads, Reload
  <2> QED  BY <1>1, <2>1, RecordFrame DEF GateReads
<1>2. CASE GateShows(p)
  <2> DEFINE silent == {s \in Candidates(p) : p \notin Confirming /\ WasApproved(p, s, Find(p, s))}
             fit == {s \in silent : Find(p, s).text \notin Frequent}
  <2>1. PICK kept \in SUBSET fit : /\ Put(p, Paused(p, silent \ kept)) /\ Revoke(silent \ kept)
                                   /\ Unlock(p) /\ UNCHANGED saved
    BY <1>2 DEF GateShows
  <2>2. \A s \in silent : s \in Schedules /\ Find(p, s).state = "active"
    BY Constants DEF Candidates, Active
  <2> HIDE DEF silent
  <2>3. ApprovalType'
    BY <2>1, RevokeTypes DEF RecordInv
  <2> QED  BY <2>1, <2>2, <2>3, PausedRecords
<1>3. CASE GateDecides(p)
  <2> DEFINE live == {s \in Shown(p) : /\ Find(p, s).state = "active"
                                       /\ gate[p].gen # 0 => held[p][s] = gate[p].gen}
             fit == {s \in live : gate[p].phase = "yes" /\ Find(p, s).text \notin Frequent}
             same == {s \in fit : <<s, Find(p, s).text>> \in gate[p].shown}
  <2>1. PICK kept \in SUBSET same :
          LET out == live \ (kept \cup (fit \ same))
          IN  /\ Put(p, Paused(p, out))
              /\ approvals' = [s \in Schedules |-> IF s \in out THEN None
                                ELSE IF s \in kept THEN Find(p, s).text ELSE approvals[s]]
    BY <1>3 DEF GateDecides
  <2> DEFINE out == live \ (kept \cup (fit \ same))
  <2>2. Unlock(p) /\ UNCHANGED saved
    BY <1>3 DEF GateDecides
  <2>3. \A s \in live : s \in Schedules /\ Find(p, s).state = "active"
    BY Constants DEF GateInv
  <2>4. kept \subseteq live /\ out \subseteq live
    OBVIOUS
  <2> HIDE DEF live, fit, same
  <2>5. \A s \in kept : Find(p, s).text \in Texts
    BY <2>3, <2>4, FindTypes, RecTypes DEF Existing
  <2>6. ApprovalType'
    BY <2>1, <2>5 DEF ApprovalType, RecordInv
  <2>7. Put(p, Paused(p, out))
    BY <2>1
  <2> HIDE DEF out
  <2> QED  BY <2>2, <2>3, <2>4, <2>6, <2>7, PausedRecords
<1>4. CASE GateWithdrawn(p)
  BY <1>4, RecordFrame DEF GateWithdrawn, RecordInv, SeenType
<1> QED  BY <1>1, <1>2, <1>3, <1>4 DEF GateStep

\* A switch and a restart take the timers of the saved session.
LEMMA LoadRecords ==
    ASSUME RecordInv, NEW p \in Sessions, SwitchSession(p) \/ Crash(p) \/ ConfirmHeldTimers(p)
    PROVE  Records(p)
<1> USE DEF shared, sched
<1>1. CASE SwitchSession(p) \/ Crash(p)
  <2>1. /\ timers' = [t \in Timers |-> IF Home[t] = p THEN saved[t] ELSE timers[t]]
        /\ UNCHANGED <<file, saved, approvals>> /\ (UNCHANGED seen \/ Unlock(p))
    BY <1>1 DEF SwitchSession, Crash
  <2>2. SeenType'
    BY <2>1, UnlockTypes DEF RecordInv, SeenType
  <2> QED  BY <2>1, <2>2 DEF RecordInv, Records, FileType, TimerType, ApprovalType, TimersApart
<1>2. CASE ConfirmHeldTimers(p)
  BY <1>2, RecordFrame DEF ConfirmHeldTimers, RecordInv, SeenType
<1> QED  BY <1>1, <1>2

\* What one session does, whichever of its goroutines.
SessionStep(p) ==
    \/ LoopStep(p) \/ TurnStep(p) \/ Deliver(p) \/ PersonStep(p) \/ GateStep(p)
    \/ GateWithdrawn(p) \/ SwitchSession(p) \/ ConfirmHeldTimers(p) \/ Crash(p)

LEMMA SessionRecords ==
    ASSUME TypeInv, NEW p \in Sessions, SessionStep(p)
    PROVE  Records(p)
  BY LoopRecords, TurnRecords, PersonRecords, GateRecords, LoadRecords DEF SessionStep, TypeInv

LEMMA OutsideRecords ==
    ASSUME RecordInv, Tick \/ (\E s \in Recurring : EditFile(s)) \/ UNCHANGED vars
    PROVE  RecordInv'
<1> USE DEF shared, sched
<1>1. CASE Tick \/ UNCHANGED vars
  BY <1>1 DEF Tick, vars, RecordInv, FileType, TimerType, ApprovalType, SeenType
<1>2. ASSUME NEW s \in Recurring, EditFile(s) PROVE RecordInv'
  <2>1. file \in [Recurring -> Recs] /\ file[s] \in Existing
    BY <1>2 DEF EditFile, RecordInv, FileType, Existing
  <2>2. file' \in [Recurring -> Recs]
    <3>1. CASE file' \in {[file EXCEPT ![s] = NoRec], NoFile}
      BY <2>1, <3>1, RecTypes DEF NoFile
    <3>2. ASSUME NEW c \in Texts, NEW st \in {"active", file[s].state},
                 file' = [file EXCEPT ![s].text = c, ![s].state = st]
          PROVE  file' \in [Recurring -> Recs]
      <4>1. file' = [file EXCEPT ![s] = [[file[s] EXCEPT !.text = c] EXCEPT !.state = st]]
        BY <2>1, <3>2
      <4>2. [file[s] EXCEPT !.text = c] \in Existing /\ st \in {"active", "paused", "done"}
        BY <2>1, RecUpdates, RecTypes
      <4>3. [[file[s] EXCEPT !.text = c] EXCEPT !.state = st] \in Recs
        BY <4>2, RecUpdates DEF Existing
      <4> QED  BY <2>1, <4>1, <4>3
    <3> QED  BY <1>2, <3>1, <3>2 DEF EditFile
  <2> QED  BY <1>2, <2>2 DEF EditFile, RecordInv, FileType, TimerType, ApprovalType, SeenType
<1> QED  BY <1>1, <1>2

-----------------------------------------------------------------------------
(* What the steps of each kind leave alone *)

LEMMA LoopLeaves ==
    ASSUME NEW p \in Sessions, LoopStep(p)
    PROVE  UNCHANGED <<now, claims, held, holdGen, unconfirmed, asking, armed, turning, asks, ran>>
  BY DEF LoopStep, LoopReads, LoopSettles, LoopDecides, LoopFires, FireNow, shared, inbox, turning, asks

LEMMA TurnLeaves ==
    ASSUME NEW p \in Sessions, TurnStep(p) \/ Deliver(p)
    PROVE  UNCHANGED <<now, held, holdGen, unconfirmed, asking, looping, asks>>
<1> USE DEF shared, sched
<1>1. CASE DrainItems(p) \/ DrainEvent(p) \/ TakeFiring(p) \/ ReleaseFiring(p) \/ Deliver(p)
  BY <1>1 DEF DrainItems, DrainEvent, TakeFiring, ReleaseFiring, Deliver
<1>2. CASE BeginPauses(p) \/ BeginRefuses(p) \/ BeginFindsClaim(p) \/ BeginAdmits(p) \/ BeginSaves(p)
  BY <1>2 DEF BeginPauses, BeginRefuses, BeginFindsClaim, BeginAdmits, BeginSaves
<1>3. CASE PrepareFiredRun(p) \/ TurnEnds(p) \/ FinishReads(p) \/ \E ok \in BOOLEAN : FinishWrites(p, ok)
  BY <1>3 DEF PrepareFiredRun, TurnEnds, FinishReads, FinishWrites
<1> QED  BY <1>1, <1>2, <1>3 DEF TurnStep

LEMMA PersonLeaves ==
    ASSUME NEW p \in Sessions, PersonStep(p)
    PROVE  /\ UNCHANGED <<now, claims, saved, floor, holdGen, asking, looping, turn, fired, ran>>
           /\ Esc(p) \/ UNCHANGED <<item, armed>>
           /\ (\E yes \in BOOLEAN : GateAnswered(p, yes)) \/ UNCHANGED gate
<1> USE DEF shared, sched, inbox, looping, turning, asks
<1>1. CASE Esc(p)
  <2>1. UNCHANGED <<now, claims, saved, floor, holdGen, asking, looping, turn, fired, ran, gate>>
    BY <1>1 DEF Esc
  <2> QED  BY <1>1, <2>1
<1>2. ASSUME UNCHANGED <<now, claims, saved, floor, holdGen, asking, looping, turning, ran, armed, gate>>
      PROVE  /\ UNCHANGED <<now, claims, saved, floor, holdGen, asking, looping, turn, fired, ran, item, armed>>
             /\ UNCHANGED gate
  BY <1>2
<1>3. CASE LineComes(p) \/ RunFires(p) \/ \E s \in Schedules : DropEvent(p, s) \/ RunAsked(p, s)
  <2>1. UNCHANGED <<now, claims, saved, floor, holdGen, asking, looping, turning, ran, armed, gate>>
    BY <1>3 DEF LineComes, RunFires, FireNow, DropEvent, RunAsked, Reading
  <2> QED  BY <1>2, <2>1
<1>4. CASE \E s \in Schedules : Narrows(p, s) \/ ResumeAsks(p, s) \/ \E c \in Texts : AddAsks(p, s, c)
  <2>1. UNCHANGED <<now, claims, saved, floor, holdGen, asking, looping, turning, ran, armed, gate>>
    BY <1>4 DEF ResumeAsks, AddAsks, Narrows, Reading
  <2> QED  BY <1>2, <2>1
<1>5. CASE CallWrites(p) \/ \E yes \in BOOLEAN : PromptAnswered(p, yes)
  <2>1. UNCHANGED <<now, claims, saved, floor, holdGen, asking, looping, turning, ran, armed, gate>>
    BY <1>5 DEF CallWrites, NarrowWrites, ResumeWrites, AddWrites, Withdraw, PromptAnswered, Reading
  <2> QED  BY <1>2, <2>1
<1>6. ASSUME NEW yes \in BOOLEAN, GateAnswered(p, yes)
      PROVE  UNCHANGED <<now, claims, saved, floor, holdGen, asking, looping, turn, fired, ran, item, armed>>
  BY <1>6 DEF GateAnswered
<1> QED  BY <1>1, <1>3, <1>4, <1>5, <1>6 DEF PersonStep

LEMMA GateLeaves ==
    ASSUME NEW p \in Sessions,
           GateStep(p) \/ GateWithdrawn(p) \/ SwitchSession(p) \/ ConfirmHeldTimers(p)
    PROVE  /\ UNCHANGED <<now, claims, saved, pending, floor, armed, turning, picks, queued, call, ran>>
           /\ SwitchSession(p) \/ UNCHANGED holdGen
  BY DEF GateStep, GateReads, GateShows, GateDecides, GateWithdrawn, SwitchSession, ConfirmHeldTimers,
         shared, sched, inbox, looping, turning, asks

\* Only session p moves.
OthersStay(p) == \A q \in Sessions \ {p} :
    /\ UNCHANGED <<seen[q], pending[q], floor[q], asking[q], armed[q], fired[q]>>
    /\ UNCHANGED <<loop[q], picks[q], turn[q], item[q], call[q], gate[q]>>

LEMMA Domains ==
    ASSUME TypeInv
    PROVE  /\ DOMAIN seen = Sessions /\ DOMAIN pending = Sessions /\ DOMAIN floor = Sessions
           /\ DOMAIN held = Sessions /\ DOMAIN holdGen = Sessions /\ DOMAIN unconfirmed = Sessions
           /\ DOMAIN asking = Sessions /\ DOMAIN gate = Sessions /\ DOMAIN armed = Sessions
           /\ DOMAIN fired = Sessions /\ DOMAIN turn = Sessions /\ DOMAIN item = Sessions
           /\ DOMAIN loop = Sessions /\ DOMAIN picks = Sessions /\ DOMAIN call = Sessions
<1>1. DOMAIN seen = Sessions
  BY DEF TypeInv, RecordInv, SeenType
<1>2. DOMAIN pending = Sessions /\ DOMAIN floor = Sessions
  BY DEF TypeInv, ClockInv
<1>3. DOMAIN held = Sessions /\ DOMAIN holdGen = Sessions
  BY DEF TypeInv, HoldInv
<1>4. DOMAIN unconfirmed = Sessions /\ DOMAIN asking = Sessions /\ DOMAIN gate = Sessions
  BY DEF TypeInv, GateInv
<1>5. DOMAIN armed = Sessions
  BY DEF TypeInv, ArmInv
<1>6. DOMAIN fired = Sessions /\ DOMAIN turn = Sessions /\ DOMAIN item = Sessions
  BY DEF TypeInv, TurnInv
<1>7. DOMAIN loop = Sessions /\ DOMAIN picks = Sessions
  BY DEF TypeInv, LoopInv
<1>8. DOMAIN call = Sessions
  BY DEF TypeInv, CallInv
<1> QED  BY <1>1, <1>2, <1>3, <1>4, <1>5, <1>6, <1>7, <1>8

LEMMA LoopOthers ==
    ASSUME TypeInv, NEW p \in Sessions, LoopStep(p)
    PROVE  OthersStay(p)
<1> USE DEF shared, sched, inbox, looping, turning, asks
<1>1. UNCHANGED <<asking, armed, fired, turn, item, call, gate>>
  BY LoopLeaves
<1>2. ASSUME NEW q \in Sessions \ {p} PROVE UNCHANGED <<seen[q], pending[q], floor[q], loop[q], picks[q]>>
  <2>1. CASE LoopReads(p)
    BY <1>2, <2>1, Domains DEF LoopReads, Reload, Reread
  <2>2. CASE LoopSettles(p)
    <3>1. UNCHANGED seen \/ seen' = [seen EXCEPT ![p].file = file']
      BY <2>2 DEF LoopSettles
    <3>2. UNCHANGED seen[q]
      BY <1>2, <3>1, Domains
    <3>3. UNCHANGED <<pending[q], floor[q], loop[q], picks[q]>>
      BY <1>2, <2>2, Domains DEF LoopSettles
    <3> QED  BY <3>2, <3>3
  <2>3. CASE LoopDecides(p)
    <3>1. UNCHANGED seen[q]
      BY <1>2, <2>3, Domains DEF LoopDecides, Unlock
    <3>2. UNCHANGED <<pending[q], floor[q], loop[q], picks[q]>>
      BY <1>2, <2>3, Domains DEF LoopDecides
    <3> QED  BY <3>1, <3>2
  <2>4. CASE LoopFires(p)
    BY <1>2, <2>4, Domains DEF LoopFires, FireNow
  <2> QED  BY <2>1, <2>2, <2>3, <2>4 DEF LoopStep
<1> QED  BY <1>1, <1>2 DEF OthersStay

LEMMA TurnOthers ==
    ASSUME TypeInv, NEW p \in Sessions, TurnStep(p) \/ Deliver(p)
    PROVE  OthersStay(p)
<1> USE DEF shared, sched, inbox, looping, turning, asks
<1>1. UNCHANGED <<asking, loop, picks, call, gate>>
  BY TurnLeaves
<1>2. ASSUME NEW q \in Sessions \ {p} PROVE UNCHANGED <<seen[q], pending[q], floor[q], armed[q], fired[q], turn[q], item[q]>>
  <2> USE <1>2, Domains
  <2>1. CASE DrainItems(p) \/ DrainEvent(p) \/ Deliver(p)
    BY <2>1 DEF DrainItems, DrainEvent, Deliver, Disarm
  <2>2. CASE TakeFiring(p) \/ ReleaseFiring(p)
    BY <2>2 DEF TakeFiring, ReleaseFiring
  <2>3. CASE BeginPauses(p) \/ BeginRefuses(p) \/ BeginFindsClaim(p)
    BY <2>3 DEF BeginPauses, BeginRefuses, BeginFindsClaim, Taken, Refused
  <2>4. CASE BeginAdmits(p)
    BY <2>4 DEF BeginAdmits, Taken, Reread
  <2>5. CASE BeginSaves(p)
    BY <2>5 DEF BeginSaves, Unlock
  <2>6. CASE PrepareFiredRun(p) \/ TurnEnds(p)
    BY <2>6 DEF PrepareFiredRun, TurnEnds
  <2>7. CASE FinishReads(p) \/ \E ok \in BOOLEAN : FinishWrites(p, ok)
    BY <2>7 DEF FinishReads, FinishWrites, Reload, Reread, Unlock
  <2> QED  BY <2>1, <2>2, <2>3, <2>4, <2>5, <2>6, <2>7 DEF TurnStep
<1> QED  BY <1>1, <1>2 DEF OthersStay

LEMMA PersonOthers ==
    ASSUME TypeInv, NEW p \in Sessions, PersonStep(p)
    PROVE  OthersStay(p)
<1> USE DEF shared, sched, inbox, looping, turning, asks
<1>1. UNCHANGED <<floor, asking, loop, picks, turn, fired>>
  BY PersonLeaves
<1>2. ASSUME NEW q \in Sessions \ {p} PROVE UNCHANGED <<seen[q], pending[q], armed[q], item[q], call[q], gate[q]>>
  <2> USE <1>2, Domains
  <2>1. CASE LineComes(p) \/ Esc(p) \/ \E s \in Schedules : DropEvent(p, s)
    BY <2>1 DEF LineComes, Esc, Disarm, DropEvent
  <2>2. CASE RunFires(p) \/ \E s \in Schedules : RunAsked(p, s)
    BY <2>2 DEF RunFires, FireNow, RunAsked, Reading, Calls
  <2>3. CASE \E s \in Schedules : Narrows(p, s) \/ ResumeAsks(p, s) \/ \E c \in Texts : AddAsks(p, s, c)
    BY <2>3 DEF Narrows, ResumeAsks, AddAsks, Reading, Calls, Reload, Reread
  <2>4. CASE CallWrites(p)
    <3>1. Unlock(p) /\ UNCHANGED <<armed, item, gate>> /\ call' = [call EXCEPT ![p] = NoCall]
      BY <2>4 DEF CallWrites, NarrowWrites, ResumeWrites, AddWrites
    <3>2. UNCHANGED pending \/ Withdraw(p, call[p].id)
      BY <2>4 DEF CallWrites, NarrowWrites, ResumeWrites, AddWrites
    <3>3. UNCHANGED pending[q]
      BY <3>2 DEF Withdraw
    <3> QED  BY <3>1, <3>3 DEF Unlock
  <2>5. ASSUME NEW yes \in BOOLEAN, PromptAnswered(p, yes)
        PROVE  UNCHANGED <<seen[q], pending[q], armed[q], item[q], call[q], gate[q]>>
    BY <2>5 DEF PromptAnswered, Calls, Reading, Reload, Reread
  <2>6. ASSUME NEW yes \in BOOLEAN, GateAnswered(p, yes)
        PROVE  UNCHANGED <<seen[q], pending[q], armed[q], item[q], call[q], gate[q]>>
    BY <2>6 DEF GateAnswered, GateMoves, Reload, Reread
  <2> QED  BY <2>1, <2>2, <2>3, <2>4, <2>5, <2>6 DEF PersonStep
<1> QED  BY <1>1, <1>2 DEF OthersStay

LEMMA GateOthers ==
    ASSUME TypeInv, NEW p \in Sessions,
           GateStep(p) \/ GateWithdrawn(p) \/ SwitchSession(p) \/ ConfirmHeldTimers(p)
    PROVE  OthersStay(p)
<1> USE DEF shared, sched, inbox, looping, turning, asks
<1>1. UNCHANGED <<pending, floor, armed, fired, picks, turn, item, call>>
  BY GateLeaves
<1>2. ASSUME NEW q \in Sessions \ {p} PROVE UNCHANGED <<seen[q], asking[q], loop[q], gate[q]>>
  <2> USE <1>2, Domains
  <2>1. CASE GateReads(p)
    BY <2>1 DEF GateReads, GateMoves, Reload, Reread
  <2>2. CASE GateShows(p)
    <3>1. Unlock(p) /\ (UNCHANGED loop \/ StartLoop(p))
      BY <2>2 DEF GateShows
    <3>2. UNCHANGED asking \/ \E v : asking' = [asking EXCEPT ![p] = v]
      BY <2>2 DEF GateShows
    <3>3. \E v : gate' = [gate EXCEPT ![p] = v]
      BY <2>2 DEF GateShows
    <3> QED  BY <3>1, <3>2, <3>3 DEF Unlock, StartLoop
  <2>3. CASE GateDecides(p)
    <3>1. Unlock(p) /\ StartLoop(p) /\ (\E v : asking' = [asking EXCEPT ![p] = v])
          /\ gate' = [gate EXCEPT ![p] = NoGate]
      BY <2>3 DEF GateDecides
    <3> QED  BY <3>1 DEF Unlock, StartLoop
  <2>4. CASE GateWithdrawn(p) \/ ConfirmHeldTimers(p) \/ SwitchSession(p)
    BY <2>4 DEF GateWithdrawn, ConfirmHeldTimers, SwitchSession, StartLoop
  <2> QED  BY <2>1, <2>2, <2>3, <2>4 DEF GateStep
<1> QED  BY <1>1, <1>2 DEF OthersStay

LEMMA SessionOthers ==
    ASSUME TypeInv, NEW p \in Sessions, SessionStep(p)
    PROVE  OthersStay(p)
<1>1. ASSUME Crash(p), NEW q \in Sessions \ {p}
      PROVE  /\ UNCHANGED <<seen[q], pending[q], floor[q], asking[q], armed[q], fired[q]>>
             /\ UNCHANGED <<loop[q], picks[q], turn[q], item[q], call[q], gate[q]>>
  BY <1>1, Domains DEF Crash, Unlock
<1> QED  BY <1>1, LoopOthers, TurnOthers, PersonOthers, GateOthers DEF SessionStep, OthersStay

-----------------------------------------------------------------------------
(* Clocks *)

PendingType == pending \in [Sessions -> [Schedules -> [at : 0 .. End, manual : BOOLEAN]]]
FloorType == floor \in [Sessions -> [Schedules -> 0 .. End]]
RanType == ran \in [Schedules -> [0 .. End -> Nat]]

LEMMA ClockParts ==
    /\ ClockInv => now \in 1 .. End /\ now \in 0 .. End /\ FloorType /\ PendingType /\ RanType
    /\ now' \in 1 .. End /\ FloorType' /\ PendingType' /\ RanType' => ClockInv'
  BY DEF ClockInv, FloorType, PendingType, RanType

LEMMA ClockFrames ==
    /\ FloorType /\ UNCHANGED floor => FloorType'
    /\ PendingType /\ UNCHANGED pending => PendingType'
    /\ RanType /\ UNCHANGED ran => RanType'
    /\ ClockInv /\ UNCHANGED <<now, floor, pending, ran>> => ClockInv'
  BY DEF ClockInv, FloorType, PendingType, RanType

LEMMA PendingWrites ==
    ASSUME ClockInv, NEW p \in Sessions
    PROVE  /\ \A e : FireNow(p, e, TRUE) \/ FireNow(p, e, FALSE) => PendingType'
           /\ Taken(p) => PendingType'
           /\ \A s : Withdraw(p, s) => PendingType'
<1>1. NoPending \in [at : 0 .. End, manual : BOOLEAN]
  BY Constants DEF NoPending
<1>2. now \in 0 .. End
  BY DEF ClockInv
<1>3. pending \in [Sessions -> [Schedules -> [at : 0 .. End, manual : BOOLEAN]]]
  BY DEF ClockInv
<1>4. ASSUME NEW e, NEW manual, manual \in BOOLEAN, FireNow(p, e, manual) PROVE PendingType'
  <2>1. CASE Pending(p, e.id)
    BY <1>3, <1>4, <2>1 DEF FireNow, PendingType
  <2>2. CASE ~Pending(p, e.id)
    <3>1. pending' = [pending EXCEPT ![p][e.id] = [at |-> now, manual |-> manual]]
      BY <1>4, <2>2 DEF FireNow
    <3> QED  BY <1>2, <1>3, <1>4, <3>1 DEF PendingType
  <2> QED  BY <2>1, <2>2
<1>5. Taken(p) => PendingType'
  BY <1>1, <1>3 DEF Taken, PendingType
<1>6. ASSUME NEW s, Withdraw(p, s) PROVE PendingType'
  BY <1>1, <1>3, <1>6 DEF Withdraw, PendingType
<1> QED  BY <1>4, <1>5, <1>6

LEMMA LoopClock ==
    ASSUME RecordInv, ClockInv, NEW p \in Sessions, LoopStep(p)
    PROVE  ClockInv'
<1> USE DEF shared, sched, inbox, looping, turning, asks
<1>1. CASE LoopReads(p) \/ LoopDecides(p)
  BY <1>1, ClockFrames DEF LoopReads, LoopDecides
<1>2. CASE LoopSettles(p)
  <2>1. UNCHANGED <<now, ran>>
    BY <1>2 DEF LoopSettles
  <2>2. \E T : pending' = [pending EXCEPT ![p] = [s \in Schedules |-> IF s \in T THEN NoPending ELSE @[s]]]
    BY <1>2 DEF LoopSettles
  <2>3. \E T : floor' = [floor EXCEPT ![p] = [s \in Schedules |->
                 IF s \in T /\ pending[p][s].at > Find(p, s).last THEN pending[p][s].at ELSE @[s]]]
    <3> DEFINE dropped == {s \in Schedules : /\ Pending(p, s) /\ s \notin queued[p] /\ armed[p].id # s}
               found == {s \in dropped : Find(p, s) # NoRec}
    <3> WITNESS found \cap Recurring
    <3> QED  BY <1>2 DEF LoopSettles
  <2>4. PendingType'
    <3>1. NoPending \in [at : 0 .. End, manual : BOOLEAN]
      BY Constants DEF NoPending
    <3> QED  BY <2>2, <3>1 DEF ClockInv, PendingType
  <2>5. FloorType'
    BY <2>3 DEF ClockInv, FloorType
  <2> QED  BY <2>1, <2>4, <2>5, ClockParts, ClockFrames DEF ClockInv, RanType
<1>3. CASE LoopFires(p)
  <2>1. PendingType' /\ UNCHANGED <<now, floor, ran>>
    BY <1>3, PendingWrites DEF LoopFires
  <2> QED  BY <2>1, ClockParts, ClockFrames
<1> QED  BY <1>1, <1>2, <1>3 DEF LoopStep

\* What an event queued by the loop is due for has come.
LEMMA AdmittedDue ==
    ASSUME RecordInv, ClockInv, NEW p \in Sessions, item[p].id \in Schedules,
           Admissible(p, item[p].id, Lookup(p, item[p].id)),
           StillDue(p, item[p].id, Lookup(p, item[p].id))
    PROVE  NextDue(item[p].id, Lookup(p, item[p].id)) \in 0 .. End
<1> DEFINE s == item[p].id
<1>1. Lookup(p, s) \in Recs
  BY FindTypes
<1>2. NextDue(s, Lookup(p, s)) \in Nat
  BY <1>1, DueTypes
<1>3. pending[p][s].at \in 0 .. End
  BY DEF ClockInv
<1> QED  BY <1>2, <1>3, Constants DEF StillDue

LEMMA TurnClock ==
    ASSUME RecordInv, ClockInv, TurnInv, NEW p \in Sessions, TurnStep(p) \/ Deliver(p)
    PROVE  ClockInv'
<1> USE DEF shared, sched, inbox, looping, turning, asks
<1>1. CASE DrainItems(p) \/ DrainEvent(p) \/ TakeFiring(p) \/ ReleaseFiring(p) \/ Deliver(p)
  BY <1>1, ClockFrames DEF DrainItems, DrainEvent, TakeFiring, ReleaseFiring, Deliver
<1>2. CASE TurnEnds(p) \/ FinishReads(p) \/ \E ok \in BOOLEAN : FinishWrites(p, ok)
  BY <1>2, ClockFrames DEF TurnEnds, FinishReads, FinishWrites
<1>3. CASE BeginPauses(p) \/ BeginRefuses(p) \/ BeginAdmits(p)
  <2>1. Taken(p) /\ UNCHANGED <<now, floor, ran>>
    BY <1>3 DEF BeginPauses, BeginRefuses, BeginAdmits
  <2> QED  BY <2>1, PendingWrites, ClockParts, ClockFrames
<1>4. CASE BeginFindsClaim(p)
  <2> DEFINE s == item[p].id
             due == NextDue(s, Lookup(p, s))
  <2>1. /\ s \in Schedules /\ Admissible(p, s, Lookup(p, s)) /\ StillDue(p, s, Lookup(p, s))
        /\ floor' = [floor EXCEPT ![p][s] = due] /\ Taken(p) /\ UNCHANGED <<now, ran>>
    BY <1>4 DEF BeginFindsClaim
  <2>2. due \in 0 .. End
    BY <2>1, AdmittedDue
  <2> HIDE DEF s, due
  <2>3. FloorType'
    BY <2>1, <2>2 DEF ClockInv, FloorType
  <2> QED  BY <2>1, <2>3, PendingWrites, ClockParts, ClockFrames
<1>5. CASE BeginSaves(p)
  <2>1. floor' = [floor EXCEPT ![p][item[p].id] = now] /\ UNCHANGED <<now, pending, ran>>
    BY <1>5 DEF BeginSaves
  <2>2. FloorType'
    BY <2>1, ClockParts DEF FloorType
  <2> QED  BY <2>1, <2>2, ClockParts, ClockFrames
<1>6. CASE PrepareFiredRun(p)
  <2>1. /\ turn[p] \in Admitted /\ UNCHANGED <<now, pending, floor>>
        /\ ran' = IF item[p].due = 0 THEN ran ELSE [ran EXCEPT ![item[p].id][item[p].due] = @ + 1]
    BY <1>6 DEF PrepareFiredRun, Admitted
  <2>2. item[p].id \in Schedules /\ item[p].due \in 0 .. End
    BY <2>1, Constants DEF TurnInv, AtEvent, Admitted
  <2>3. RanType'
    <3> DEFINE s == item[p].id
               d == item[p].due
    <3>1. ran \in [Schedules -> [0 .. End -> Nat]] /\ s \in Schedules /\ d \in 0 .. End
      BY <2>2 DEF ClockInv
    <3>2. ran' = ran \/ ran' = [ran EXCEPT ![s] = [ran[s] EXCEPT ![d] = @ + 1]]
      BY <2>1, <3>1
    <3> HIDE DEF s, d
    <3>3. [ran[s] EXCEPT ![d] = @ + 1] \in [0 .. End -> Nat]
      <4> DEFINE f == ran[s]
                 n == f[d] + 1
      <4>1. f \in [0 .. End -> Nat]
        BY <3>1
      <4> HIDE DEF f
      <4>2. n \in Nat
        BY <3>1, <4>1
      <4> HIDE DEF n, f
      <4>3. [f EXCEPT ![d] = n] \in [0 .. End -> Nat]
        BY <4>1, <4>2
      <4> QED  BY <4>3 DEF n, f
    <3> QED  BY <3>1, <3>2, <3>3 DEF RanType
  <2> QED  BY <2>1, <2>3, ClockParts, ClockFrames
<1> QED  BY <1>1, <1>2, <1>3, <1>4, <1>5, <1>6 DEF TurnStep

LEMMA PersonClock ==
    ASSUME ClockInv, NEW p \in Sessions, PersonStep(p)
    PROVE  ClockInv'
<1> USE DEF shared, sched, inbox, looping, turning, asks
<1>1. UNCHANGED <<now, floor, ran>>
  BY PersonLeaves
<1>2. PendingType'
  <2>1. CASE RunFires(p)
    BY <2>1, PendingWrites DEF RunFires
  <2>2. CASE NarrowWrites(p)
    BY <2>2, PendingWrites DEF NarrowWrites
  <2>3. CASE LineComes(p) \/ Esc(p) \/ ResumeWrites(p) \/ AddWrites(p)
    BY <2>3, ClockParts, ClockFrames DEF LineComes, Esc, ResumeWrites, AddWrites
  <2>4. CASE \E yes \in BOOLEAN : PromptAnswered(p, yes) \/ GateAnswered(p, yes)
    BY <2>4, ClockParts, ClockFrames DEF PromptAnswered, GateAnswered, Reading
  <2>5. CASE \E s \in Schedules : \/ DropEvent(p, s) \/ RunAsked(p, s) \/ Narrows(p, s)
                                  \/ ResumeAsks(p, s) \/ \E c \in Texts : AddAsks(p, s, c)
    BY <2>5, ClockParts, ClockFrames DEF DropEvent, RunAsked, Narrows, ResumeAsks, AddAsks, Reading
  <2> QED  BY <2>1, <2>2, <2>3, <2>4, <2>5 DEF PersonStep, CallWrites
<1> QED  BY <1>1, <1>2, ClockParts, ClockFrames

LEMMA SessionClock ==
    ASSUME TypeInv, NEW p \in Sessions, SessionStep(p)
    PROVE  ClockInv'
<1>1. CASE GateStep(p) \/ GateWithdrawn(p) \/ SwitchSession(p) \/ ConfirmHeldTimers(p)
  BY <1>1, GateLeaves, ClockFrames DEF TypeInv
<1>2. CASE Crash(p)
  <2>1. /\ pending' = [pending EXCEPT ![p] = [s \in Schedules |-> NoPending]]
        /\ floor' = [floor EXCEPT ![p] = [s \in Schedules |-> 0]]
        /\ UNCHANGED <<now, ran>>
    BY <1>2 DEF Crash
  <2>2. NoPending \in [at : 0 .. End, manual : BOOLEAN] /\ 0 \in 0 .. End
    BY Constants DEF NoPending
  <2> QED  BY <2>1, <2>2 DEF TypeInv, ClockInv
<1> QED  BY <1>1, <1>2, LoopClock, TurnClock, PersonClock DEF SessionStep, TypeInv

-----------------------------------------------------------------------------
(* What waits for a prompt, the loop, the calls and the prompts *)

LEMMA SessionHold ==
    ASSUME TypeInv, NEW p \in Sessions, SessionStep(p)
    PROVE  HoldInv'
<1> USE DEF shared, sched, inbox, looping, turning, asks
<1>1. held \in [Sessions -> [Schedules -> Nat]] /\ holdGen \in [Sessions -> Nat]
  BY DEF TypeInv, HoldInv
<1>2. UNCHANGED <<held, holdGen>> => HoldInv'
  BY <1>1 DEF HoldInv
<1>3. CASE LoopStep(p) \/ TurnStep(p) \/ Deliver(p)
  BY <1>2, <1>3, LoopLeaves, TurnLeaves
<1>4. CASE PersonStep(p)
  <2>1. UNCHANGED holdGen
    BY <1>4, PersonLeaves
  <2>2. UNCHANGED held \/ held' = [held EXCEPT ![p][call[p].id] = 0]
    <3>1. CASE LineComes(p) \/ Esc(p) \/ RunFires(p) \/ CallWrites(p)
      BY <3>1 DEF LineComes, Esc, RunFires, CallWrites, NarrowWrites, ResumeWrites, AddWrites
    <3>2. CASE \E yes \in BOOLEAN : PromptAnswered(p, yes) \/ GateAnswered(p, yes)
      BY <3>2 DEF PromptAnswered, GateAnswered, Reading
    <3>3. CASE \E s \in Schedules : \/ DropEvent(p, s) \/ RunAsked(p, s) \/ Narrows(p, s)
                                    \/ ResumeAsks(p, s) \/ \E c \in Texts : AddAsks(p, s, c)
      BY <3>3 DEF DropEvent, RunAsked, Narrows, ResumeAsks, AddAsks, Reading
    <3> QED  BY <1>4, <3>1, <3>2, <3>3 DEF PersonStep
  <2> QED  BY <1>1, <2>1, <2>2 DEF HoldInv
<1>5. CASE GateStep(p) \/ GateWithdrawn(p) \/ ConfirmHeldTimers(p)
  <2>1. CASE GateShows(p)
    <3>1. \/ held' = [held EXCEPT ![p] = Release(p, gate[p].gen)]
          \/ \E T : held' = [held EXCEPT ![p] = [s \in Schedules |-> IF s \in T THEN 0 ELSE @[s]]]
      BY <2>1 DEF GateShows
    <3>2. UNCHANGED holdGen
      BY <2>1 DEF GateShows
    <3> QED  BY <1>1, <3>1, <3>2 DEF HoldInv, Release
  <2>2. CASE GateDecides(p)
    BY <1>1, <2>2 DEF GateDecides, HoldInv, Release
  <2>3. CASE GateReads(p) \/ GateWithdrawn(p) \/ ConfirmHeldTimers(p)
    BY <1>2, <2>3 DEF GateReads, GateWithdrawn, ConfirmHeldTimers
  <2> QED  BY <1>5, <2>1, <2>2, <2>3 DEF GateStep
<1>6. CASE SwitchSession(p)
  <2>1. holdGen[p] + 1 \in Nat
    BY <1>1
  <2>2. /\ holdGen' = [holdGen EXCEPT ![p] = holdGen[p] + 1]
        /\ held' = [held EXCEPT ![p] = [s \in Schedules |->
                      IF s \in Timers /\ Home[s] = p /\ saved[s].state = "active" THEN holdGen[p] + 1 ELSE 0]]
    BY <1>6 DEF SwitchSession
  <2> DEFINE n == holdGen[p] + 1
  <2>3. [s \in Schedules |->
            IF s \in Timers /\ Home[s] = p /\ saved[s].state = "active" THEN n ELSE 0] \in [Schedules -> Nat]
    BY <2>1
  <2> HIDE DEF n
  <2> QED  BY <1>1, <2>1, <2>2, <2>3 DEF HoldInv, n
<1>7. CASE Crash(p)
  BY <1>1, <1>7 DEF Crash, HoldInv
<1> QED  BY <1>3, <1>4, <1>5, <1>6, <1>7 DEF SessionStep

LEMMA SessionLoop ==
    ASSUME TypeInv, NEW p \in Sessions, SessionStep(p)
    PROVE  LoopInv'
<1> USE DEF shared, sched, inbox, looping, turning, asks
<1>1. /\ loop \in [Sessions -> {"off", "idle", "settle", "decide", "fire"}]
      /\ picks \in [Sessions -> SUBSET [id : Schedules, text : Texts]]
      /\ \A q \in Sessions : loop[q] # "fire" => picks[q] = {}
  BY DEF TypeInv, LoopInv
<1>2. UNCHANGED <<loop, picks>> \/ (StartLoop(p) /\ UNCHANGED picks) => LoopInv'
  BY <1>1 DEF LoopInv, StartLoop
<1>3. CASE TurnStep(p) \/ Deliver(p) \/ PersonStep(p)
  BY <1>2, <1>3, TurnLeaves, PersonLeaves
<1>4. CASE GateStep(p) \/ GateWithdrawn(p) \/ ConfirmHeldTimers(p) \/ SwitchSession(p)
  <2>1. UNCHANGED loop \/ StartLoop(p)
    BY <1>4 DEF GateStep, GateReads, GateShows, GateDecides, GateWithdrawn, ConfirmHeldTimers, SwitchSession
  <2> QED  BY <1>2, <1>4, <2>1, GateLeaves
<1>5. CASE LoopReads(p) \/ LoopSettles(p)
  <2>1. /\ UNCHANGED picks /\ loop[p] # "fire"
        /\ loop' \in {[loop EXCEPT ![p] = "settle"], [loop EXCEPT ![p] = "decide"]}
    BY <1>5 DEF LoopReads, LoopSettles
  <2> QED  BY <1>1, <2>1 DEF LoopInv
<1>6. CASE LoopDecides(p)
  <2> DEFINE due == {s \in Mine(p) : /\ NextDue(s, Find(p, s)) <= now
                                     /\ ~Barred(p, s) /\ ~Pending(p, s)}
             changed == {s \in due : ~WasApproved(p, s, Find(p, s))}
             fires == {Fire(p, s) : s \in due \ changed}
  <2>1. /\ picks' = [picks EXCEPT ![p] = fires]
        /\ loop' = [loop EXCEPT ![p] = IF due = changed THEN "idle" ELSE "fire"]
    BY <1>6 DEF LoopDecides
  <2>2. ASSUME NEW s \in due PROVE Fire(p, s) \in [id : Schedules, text : Texts]
    <3>1. s \in Schedules /\ NextDue(s, Find(p, s)) <= now /\ now \in 1 .. End
      BY Constants DEF TypeInv, ClockInv
    <3>2. Find(p, s) \in Recs
      BY <3>1, FindTypes DEF TypeInv
    <3>3. NextDue(s, Find(p, s)) \in Nat
      BY <3>1, <3>2, DueTypes
    <3>4. NextDue(s, Find(p, s)) <= End
      BY <3>1, <3>3, Constants
    <3>5. Find(p, s).text \in Texts
      BY <3>1, <3>2, <3>4, DueTypes, RecTypes DEF Existing
    <3> QED  BY <3>1, <3>5 DEF Fire
  <2>3. fires \subseteq [id : Schedules, text : Texts] /\ (due = changed => fires = {})
    BY <2>2
  <2> HIDE DEF due, changed, fires
  <2> QED  BY <1>1, <2>1, <2>3 DEF LoopInv
<1>7. CASE LoopFires(p)
  <2>1. PICK e \in picks[p] : /\ picks' = [picks EXCEPT ![p] = @ \ {e}]
                              /\ loop' = [loop EXCEPT ![p] = IF picks[p] = {e} THEN "idle" ELSE "fire"]
    BY <1>7 DEF LoopFires
  <2> QED  BY <1>1, <2>1 DEF LoopInv
<1>8. CASE Crash(p)
  BY <1>1, <1>8 DEF Crash, LoopInv
<1> QED  BY <1>3, <1>4, <1>5, <1>6, <1>7, <1>8 DEF SessionStep, LoopStep

LEMMA SessionCall ==
    ASSUME TypeInv, NEW p \in Sessions, SessionStep(p)
    PROVE  CallInv'
<1> USE DEF shared, sched, inbox, looping, turning, asks
<1>1. /\ call \in [Sessions -> [op : Ops, id : Schedules \cup {None}, text : Texts \cup {None}]]
      /\ \A q \in Sessions :
          /\ call[q].op # "none" => call[q].id \in Mine(q)
          /\ call[q].op \in {"resume?", "resuming", "add?", "adding"} => call[q].text \in Texts
  BY DEF TypeInv, CallInv
<1>2. UNCHANGED call \/ call' = [call EXCEPT ![p] = NoCall] => CallInv'
  BY <1>1 DEF CallInv, NoCall, Ops
<1>3. CASE LoopStep(p) \/ TurnStep(p) \/ Deliver(p) \/ GateStep(p) \/ GateWithdrawn(p)
           \/ SwitchSession(p) \/ ConfirmHeldTimers(p) \/ Crash(p)
  BY <1>2, <1>3, LoopLeaves, TurnLeaves, GateLeaves DEF Crash
<1>4. CASE LineComes(p) \/ Esc(p) \/ RunFires(p) \/ CallWrites(p)
           \/ (\E s \in Schedules : DropEvent(p, s)) \/ \E yes \in BOOLEAN : GateAnswered(p, yes)
  BY <1>2, <1>4 DEF LineComes, Esc, RunFires, CallWrites, NarrowWrites, ResumeWrites, AddWrites,
                   DropEvent, GateAnswered
<1>5. ASSUME NEW op \in Ops \ {"none"}, NEW s \in Mine(p), NEW c \in Texts \cup {None}, Calls(p, op, s, c),
             op \in {"resume?", "resuming", "add?", "adding"} => c \in Texts
      PROVE  CallInv'
  <2>1. call' = [call EXCEPT ![p] = [op |-> op, id |-> s, text |-> c]] /\ s \in Schedules
    BY <1>5, Constants DEF Calls
  <2> QED  BY <1>1, <1>5, <2>1 DEF CallInv
<1>6. \A s \in Mine(p) : Lookup(p, s) \in Recs /\ (Lookup(p, s) # NoRec => Lookup(p, s).text \in Texts)
  BY FindTypes, RecTypes, Constants DEF TypeInv, Existing
<1>7. ASSUME NEW s \in Schedules, RunAsked(p, s) \/ Narrows(p, s) PROVE CallInv'
  <2>1. s \in Mine(p) /\ Lookup(p, s) # NoRec
    BY <1>7 DEF RunAsked, Narrows
  <2>2. \/ Calls(p, "run", s, Lookup(p, s).text)
        \/ \E op \in {"pausing", "cancelling"} : Calls(p, op, s, None)
    BY <1>7 DEF RunAsked, Narrows
  <2> QED  BY <1>5, <1>6, <2>1, <2>2 DEF Ops
<1>8. ASSUME NEW s \in Schedules, ResumeAsks(p, s) PROVE CallInv'
  <2>1. s \in Mine(p) /\ Lookup(p, s) # NoRec /\ Calls(p, "resume?", s, Lookup(p, s).text)
    BY <1>8, RecTypes DEF ResumeAsks
  <2> QED  BY <1>5, <1>6, <2>1 DEF Ops
<1>9. ASSUME NEW s \in Schedules, NEW c \in Texts, AddAsks(p, s, c) PROVE CallInv'
  <2>1. s \in Mine(p) /\ Calls(p, "add?", s, c)
    BY <1>9 DEF AddAsks
  <2> QED  BY <1>5, <2>1 DEF Ops
<1>10. ASSUME NEW yes \in BOOLEAN, PromptAnswered(p, yes) PROVE CallInv'
  <2>1. call[p].id \in Mine(p) /\ call[p].text \in Texts
    BY <1>1, <1>10 DEF PromptAnswered
  <2>2. \/ call' = [call EXCEPT ![p] = NoCall]
        \/ Calls(p, "adding", call[p].id, call[p].text) \/ Calls(p, "resuming", call[p].id, call[p].text)
    BY <1>10 DEF PromptAnswered
  <2> QED  BY <1>2, <1>5, <2>1, <2>2 DEF Ops
<1> QED  BY <1>3, <1>4, <1>7, <1>8, <1>9, <1>10 DEF SessionStep, PersonStep

GateType == gate \in [Sessions -> [phase : Gates, gen : Nat, shown : SUBSET (Schedules \X Texts)]]
GateOf(p) ==
    /\ gate[p].phase \notin {"open", "yes", "no"} => gate[p].shown = {}
    /\ Shown(p) \subseteq Mine(p) /\ asking[p] \subseteq Shown(p)
    /\ gate[p].gen # 0 => asking[p] = {}

LEMMA GateParts ==
    /\ GateInv => /\ GateType /\ asking \in [Sessions -> SUBSET Schedules]
                  /\ unconfirmed \in [Sessions -> SUBSET Schedules] /\ \A p \in Sessions : GateOf(p)
    /\ /\ GateType' /\ asking' \in [Sessions -> SUBSET Schedules]
       /\ unconfirmed' \in [Sessions -> SUBSET Schedules] /\ \A p \in Sessions : GateOf(p)'
       => GateInv'
  BY DEF GateInv, GateType, GateOf

\* It is enough to look at the session that moves.
LEMMA GateSuffices ==
    ASSUME TypeInv, NEW p \in Sessions, OthersStay(p), GateType', GateOf(p)',
           asking' \in [Sessions -> SUBSET Schedules], unconfirmed' \in [Sessions -> SUBSET Schedules]
    PROVE  GateInv'
<1>1. ASSUME NEW q \in Sessions \ {p} PROVE GateOf(q)'
  <2>1. GateOf(q) /\ UNCHANGED <<gate[q], asking[q]>>
    BY GateParts DEF TypeInv, OthersStay
  <2> QED  BY <2>1 DEF GateOf, Shown
<1> QED  BY <1>1, GateParts

LEMMA ShowsGate ==
    ASSUME TypeInv, NEW p \in Sessions, GateShows(p)
    PROVE  GateType' /\ GateOf(p)' /\ asking' \in [Sessions -> SUBSET Schedules]
<1> DEFINE silent == {s \in Candidates(p) : p \notin Confirming /\ WasApproved(p, s, Find(p, s))}
           shown == Candidates(p) \ silent
           pairs == {<<s, Find(p, s).text>> : s \in shown}
<1>1. /\ gate \in [Sessions -> [phase : Gates, gen : Nat, shown : SUBSET (Schedules \X Texts)]]
      /\ asking \in [Sessions -> SUBSET Schedules] /\ GateOf(p)
  BY GateParts DEF TypeInv, GateType
<1>2. gate[p].phase = "showing" /\ asking[p] = {} /\ gate[p].gen \in Nat
  BY <1>1 DEF GateShows, GateOf, Shown
<1>3. \A s \in shown : s \in Mine(p) /\ s \in Schedules /\ Find(p, s).state = "active"
  BY Constants DEF Candidates, Active
<1>4. shown \subseteq Mine(p) /\ shown \subseteq Schedules /\ pairs \in SUBSET (Schedules \X Texts)
  <2>1. ASSUME NEW s \in shown PROVE Find(p, s).text \in Texts
    <3>1. Find(p, s) \in Existing
      BY <1>3, <2>1, FindTypes, RecTypes DEF TypeInv, Existing
    <3> QED  BY <3>1, RecTypes
  <2> HIDE DEF shown
  <2> QED  BY <1>3, <2>1
<1>5. {e[1] : e \in pairs} = shown
  <2>1. \A s \in shown : <<s, Find(p, s).text>> \in pairs /\ <<s, Find(p, s).text>>[1] = s
    OBVIOUS
  <2>2. \A e \in pairs : e[1] \in shown
    OBVIOUS
  <2> HIDE DEF shown, pairs
  <2> QED  BY <2>1, <2>2
<1>6. \/ gate' = [gate EXCEPT ![p] = NoGate] /\ UNCHANGED asking
      \/ /\ gate' = [gate EXCEPT ![p] = [phase |-> "open", gen |-> gate[p].gen, shown |-> pairs]]
         /\ asking' = [asking EXCEPT ![p] = IF gate[p].gen = 0 THEN @ \cup shown ELSE @]
  BY DEF GateShows
<1> HIDE DEF shown, pairs
<1>7. CASE gate' = [gate EXCEPT ![p] = NoGate] /\ UNCHANGED asking
  <2>1. gate'[p] = NoGate /\ asking'[p] = {}
    BY <1>1, <1>2, <1>7
  <2>2. GateType'
    BY <1>1, <1>7 DEF GateType, NoGate, Gates
  <2> QED  BY <1>1, <1>7, <2>1, <2>2 DEF GateOf, Shown, NoGate
<1>8. CASE /\ gate' = [gate EXCEPT ![p] = [phase |-> "open", gen |-> gate[p].gen, shown |-> pairs]]
           /\ asking' = [asking EXCEPT ![p] = IF gate[p].gen = 0 THEN @ \cup shown ELSE @]
  <2>1. /\ gate'[p] = [phase |-> "open", gen |-> gate[p].gen, shown |-> pairs]
        /\ asking'[p] = IF gate[p].gen = 0 THEN shown ELSE {}
    BY <1>1, <1>2, <1>8
  <2>2. GateType'
    BY <1>1, <1>2, <1>4, <1>8 DEF GateType, Gates
  <2>3. asking' \in [Sessions -> SUBSET Schedules]
    BY <1>1, <1>4, <1>8
  <2>4. Shown(p)' = shown
    BY <1>5, <2>1 DEF Shown
  <2> QED  BY <1>4, <2>1, <2>2, <2>3, <2>4 DEF GateOf
<1> QED  BY <1>6, <1>7, <1>8

LEMMA SessionGate ==
    ASSUME TypeInv, NEW p \in Sessions, SessionStep(p)
    PROVE  GateInv'
<1> USE DEF shared, sched, inbox, looping, turning, asks
<1>1. /\ gate \in [Sessions -> [phase : Gates, gen : Nat, shown : SUBSET (Schedules \X Texts)]]
      /\ asking \in [Sessions -> SUBSET Schedules] /\ unconfirmed \in [Sessions -> SUBSET Schedules]
      /\ GateOf(p)
  BY GateParts DEF TypeInv, GateType
<1>2. OthersStay(p)
  BY SessionOthers
<1>3. ASSUME UNCHANGED <<gate, asking>>, unconfirmed' \in [Sessions -> SUBSET Schedules] PROVE GateInv'
  BY <1>1, <1>2, <1>3, GateSuffices DEF GateType, GateOf, Shown
<1>4. CASE LoopStep(p) \/ TurnStep(p) \/ Deliver(p) \/ SwitchSession(p)
  <2>1. UNCHANGED <<gate, asking, unconfirmed>>
    BY <1>4, LoopLeaves, TurnLeaves DEF SwitchSession
  <2> QED  BY <1>1, <1>3, <2>1
<1>5. ASSUME NEW from \in Gates, NEW to \in Gates, GateMoves(p, from, to), UNCHANGED <<asking, unconfirmed>>,
             to \in {"open", "yes", "no"} \/ from \notin {"open", "yes", "no"}
      PROVE  GateInv'
  <2>1. gate' = [gate EXCEPT ![p].phase = to] /\ gate[p].phase = from
    BY <1>5 DEF GateMoves
  <2>2. GateType'
    BY <1>1, <2>1 DEF GateType
  <2>3. gate'[p].shown = gate[p].shown /\ gate'[p].phase = to /\ gate'[p].gen = gate[p].gen
    BY <1>1, <2>1
  <2>4. GateOf(p)'
    BY <1>1, <1>5, <2>1, <2>3 DEF GateOf, Shown
  <2> QED  BY <1>1, <1>2, <1>5, <2>2, <2>4, GateSuffices
<1>6. ASSUME gate' = [gate EXCEPT ![p] = NoGate], asking' \in [Sessions -> SUBSET Schedules], asking'[p] = {},
             unconfirmed' \in [Sessions -> SUBSET Schedules]
      PROVE  GateInv'
  <2>1. gate'[p] = NoGate
    BY <1>1, <1>6
  <2>2. GateType'
    BY <1>1, <1>6 DEF GateType, NoGate, Gates
  <2> QED  BY <1>2, <1>6, <2>1, <2>2, GateSuffices DEF GateOf, Shown, NoGate
<1>7. ASSUME gate[p].gen = 0 \/ asking[p] = {}
      PROVE  asking[p] \ Shown(p) = {} /\ Shown(p) \subseteq Schedules
  BY <1>1, Constants DEF GateOf
<1>8. CASE PersonStep(p)
  <2>1. UNCHANGED asking
    BY <1>8, PersonLeaves
  <2>2. ASSUME NEW yes \in BOOLEAN, GateAnswered(p, yes) PROVE GateInv'
    <3>1. UNCHANGED unconfirmed /\ (GateMoves(p, "open", "yes") \/ GateMoves(p, "open", "no"))
      BY <2>2 DEF GateAnswered
    <3> QED  BY <1>5, <2>1, <3>1 DEF Gates
  <2>3. UNCHANGED unconfirmed \/ unconfirmed' = [unconfirmed EXCEPT ![p] = @ \ {call[p].id}]
    <3>1. CASE LineComes(p) \/ Esc(p) \/ RunFires(p) \/ CallWrites(p)
      BY <3>1 DEF LineComes, Esc, RunFires, CallWrites, NarrowWrites, ResumeWrites, AddWrites
    <3>2. CASE \E yes \in BOOLEAN : PromptAnswered(p, yes) \/ GateAnswered(p, yes)
      BY <3>2 DEF PromptAnswered, GateAnswered, Reading
    <3>3. CASE \E s \in Schedules : \/ DropEvent(p, s) \/ RunAsked(p, s) \/ Narrows(p, s)
                                    \/ ResumeAsks(p, s) \/ \E c \in Texts : AddAsks(p, s, c)
      BY <3>3 DEF DropEvent, RunAsked, Narrows, ResumeAsks, AddAsks, Reading
    <3> QED  BY <1>8, <3>1, <3>2, <3>3 DEF PersonStep
  <2>4. unconfirmed' \in [Sessions -> SUBSET Schedules]
    BY <1>1, <2>3
  <2>5. (\E yes \in BOOLEAN : GateAnswered(p, yes)) \/ UNCHANGED gate
    BY <1>8, PersonLeaves
  <2> QED  BY <1>3, <2>1, <2>2, <2>4, <2>5
<1>9. CASE GateReads(p)
  <2>1. GateMoves(p, "start", "showing") /\ UNCHANGED <<asking, unconfirmed>>
    BY <1>9 DEF GateReads
  <2> QED  BY <1>5, <2>1 DEF Gates
<1>10. CASE GateShows(p)
  <2>1. UNCHANGED unconfirmed
    BY <1>10 DEF GateShows
  <2> QED  BY <1>1, <1>2, <1>10, <2>1, ShowsGate, GateSuffices
<1>11. CASE GateWithdrawn(p)
  <2>1. /\ gate' = [gate EXCEPT ![p] = NoGate]
        /\ \/ /\ gate[p].gen = 0 /\ asking' = [asking EXCEPT ![p] = @ \ Shown(p)]
              /\ unconfirmed' = [unconfirmed EXCEPT ![p] = @ \cup Shown(p)]
           \/ gate[p].gen # 0 /\ UNCHANGED <<asking, unconfirmed>>
    BY <1>11 DEF GateWithdrawn
  <2>2. asking'[p] = {} /\ asking' \in [Sessions -> SUBSET Schedules]
    BY <1>1, <1>7, <2>1 DEF GateOf
  <2>3. unconfirmed' \in [Sessions -> SUBSET Schedules]
    BY <1>1, <1>7, <2>1
  <2> QED  BY <1>6, <2>1, <2>2, <2>3
<1>12. CASE GateDecides(p)
  <2>1. /\ gate' = [gate EXCEPT ![p] = NoGate] /\ UNCHANGED unconfirmed
        /\ asking' = [asking EXCEPT ![p] = IF gate[p].gen = 0 THEN @ \ Shown(p) ELSE @]
    BY <1>12 DEF GateDecides
  <2>2. asking'[p] = {} /\ asking' \in [Sessions -> SUBSET Schedules]
    BY <1>1, <1>7, <2>1 DEF GateOf
  <2> QED  BY <1>1, <1>6, <2>1, <2>2
<1>13. CASE ConfirmHeldTimers(p)
  <2>1. /\ gate[p] = NoGate /\ UNCHANGED <<asking, unconfirmed>>
        /\ gate' = [gate EXCEPT ![p] = [NoGate EXCEPT !.phase = "start", !.gen = holdGen[p]]]
    BY <1>13 DEF ConfirmHeldTimers
  <2>2. asking[p] = {} /\ holdGen[p] \in Nat
    <3>1. gate[p].shown = {}
      BY <2>1 DEF NoGate
    <3>2. Shown(p) = {}
      BY <3>1 DEF Shown
    <3> QED  BY <1>1, <3>2 DEF GateOf, TypeInv, HoldInv
  <2> DEFINE start == [NoGate EXCEPT !.phase = "start", !.gen = holdGen[p]]
  <2>3. /\ start \in [phase : Gates, gen : Nat, shown : SUBSET (Schedules \X Texts)]
        /\ start.phase = "start" /\ start.shown = {}
    <3>1. NoGate \in [phase : Gates, gen : Nat, shown : SUBSET (Schedules \X Texts)] /\ NoGate.shown = {}
      BY DEF NoGate, Gates
    <3> QED  BY <2>2, <3>1 DEF Gates
  <2> HIDE DEF start
  <2>4. GateType' /\ gate'[p].phase = "start" /\ gate'[p].shown = {}
    BY <1>1, <2>1, <2>3 DEF GateType, start
  <2> QED  BY <1>1, <1>2, <2>1, <2>2, <2>4, GateSuffices DEF GateOf, Shown
<1>14. CASE Crash(p)
  <2>1. /\ gate' = [gate EXCEPT ![p] = [NoGate EXCEPT !.phase = "start"]]
        /\ asking' = [asking EXCEPT ![p] = {}] /\ unconfirmed' = [unconfirmed EXCEPT ![p] = {}]
    BY <1>14 DEF Crash
  <2>2. [NoGate EXCEPT !.phase = "start"] = [phase |-> "start", gen |-> 0, shown |-> {}]
    BY DEF NoGate
  <2>3. GateType' /\ gate'[p] = [phase |-> "start", gen |-> 0, shown |-> {}]
    BY <1>1, <2>1, <2>2 DEF GateType, Gates
  <2>4. asking'[p] = {} /\ asking' \in [Sessions -> SUBSET Schedules] /\ unconfirmed' \in [Sessions -> SUBSET Schedules]
    BY <1>1, <2>1
  <2> QED  BY <1>2, <2>3, <2>4, GateSuffices DEF GateOf, Shown
<1> QED  BY <1>4, <1>8, <1>9, <1>10, <1>11, <1>12, <1>13, <1>14 DEF SessionStep, GateStep

-----------------------------------------------------------------------------
(* The turn, its event and its allowance *)

TurnType == turn \in [Sessions -> Phases] /\ fired \in [Sessions -> BOOLEAN]
ItemType == item = [p \in Sessions |-> [id |-> item[p].id, text |-> item[p].text,
                                        due |-> item[p].due, grants |-> item[p].grants]]
TurnOf(p) ==
    /\ AtEvent(p) => item[p].id \in Mine(p)
    /\ turn[p] \in Admitted => item[p].grants # None /\ item[p].due \in 0 .. End
    /\ turn[p] \in {"request", "begin"} => item[p].grants = None
    /\ fired[p] <=> EventRuns(p)

LEMMA TurnParts ==
    /\ TurnInv /\ OneRule => TurnType /\ ItemType /\ \A p \in Sessions : TurnOf(p)
    /\ TurnType' /\ ItemType' /\ (\A p \in Sessions : TurnOf(p)') => TurnInv' /\ OneRule'
  BY DEF TurnInv, OneRule, TurnType, ItemType, TurnOf

LEMMA TurnSuffices ==
    ASSUME TypeInv, OneRule, NEW p \in Sessions, OthersStay(p), TurnType', ItemType', TurnOf(p)'
    PROVE  TurnInv' /\ OneRule'
<1>1. ASSUME NEW q \in Sessions \ {p} PROVE TurnOf(q)'
  <2>1. TurnOf(q) /\ UNCHANGED <<fired[q], turn[q], item[q]>>
    BY TurnParts DEF TypeInv, OthersStay
  <2> QED  BY <2>1 DEF TurnOf, AtEvent, EventRuns
<1> QED  BY <1>1, TurnParts

ItemIs(p, a, b, c, d) == item' = [item EXCEPT ![p] = [id |-> a, text |-> b, due |-> c, grants |-> d]]
ItemHas(p, c, d) == item' = [item EXCEPT ![p].due = c, ![p].grants = d]

LEMMA ItemWrites ==
    ASSUME ItemType, NEW p \in Sessions
    PROVE  /\ UNCHANGED item => ItemType'
           /\ \A a, b, c, d : ItemIs(p, a, b, c, d) =>
                ItemType' /\ item'[p].id = a /\ item'[p].due = c /\ item'[p].grants = d
           /\ \A c, d : ItemHas(p, c, d) =>
                ItemType' /\ item'[p].id = item[p].id /\ item'[p].due = c /\ item'[p].grants = d
<1>1. DOMAIN item = Sessions
  BY DEF ItemType
<1>2. \A q \in Sessions : item[q] = [id |-> item[q].id, text |-> item[q].text,
                                     due |-> item[q].due, grants |-> item[q].grants]
  BY DEF ItemType
<1>3. ASSUME NEW x, item' = [item EXCEPT ![p] = x],
             x = [id |-> x.id, text |-> x.text, due |-> x.due, grants |-> x.grants]
      PROVE  ItemType' /\ item'[p] = x
  <2>1. item'[p] = x /\ \A q \in Sessions \ {p} : item'[q] = item[q]
    BY <1>1, <1>3
  <2>2. item' = [q \in Sessions |-> item'[q]]
    BY <1>1, <1>3
  <2>3. \A q \in Sessions : item'[q] = [id |-> item'[q].id, text |-> item'[q].text,
                                        due |-> item'[q].due, grants |-> item'[q].grants]
    BY <1>2, <1>3, <2>1
  <2> QED  BY <2>1, <2>2, <2>3 DEF ItemType
<1>4. ASSUME NEW a, NEW b, NEW c, NEW d, ItemIs(p, a, b, c, d)
      PROVE  ItemType' /\ item'[p].id = a /\ item'[p].due = c /\ item'[p].grants = d
  <2> DEFINE x == [id |-> a, text |-> b, due |-> c, grants |-> d]
  <2>1. x = [id |-> x.id, text |-> x.text, due |-> x.due, grants |-> x.grants]
    OBVIOUS
  <2>2. x.id = a /\ x.due = c /\ x.grants = d /\ item' = [item EXCEPT ![p] = x]
    BY <1>4 DEF ItemIs
  <2> HIDE DEF x
  <2> QED  BY <1>3, <2>1, <2>2
<1>5. ASSUME NEW c, NEW d, ItemHas(p, c, d)
      PROVE  ItemType' /\ item'[p].id = item[p].id /\ item'[p].due = c /\ item'[p].grants = d
  <2> DEFINE x == [id |-> item[p].id, text |-> item[p].text, due |-> c, grants |-> d]
  <2>1. [[item[p] EXCEPT !.due = c] EXCEPT !.grants = d] = x
    <3> DEFINE i == item[p]
    <3>1. i = [id |-> i.id, text |-> i.text, due |-> i.due, grants |-> i.grants]
      BY <1>2
    <3> HIDE DEF i
    <3>2. [i EXCEPT !.due = c] \in [id : {i.id}, text : {i.text}, due : {c}, grants : {i.grants}]
      BY <3>1
    <3>3. [[i EXCEPT !.due = c] EXCEPT !.grants = d] \in [id : {i.id}, text : {i.text}, due : {c}, grants : {d}]
      BY <3>2
    <3>4. \A j \in [id : {i.id}, text : {i.text}, due : {c}, grants : {d}] :
            j = [id |-> i.id, text |-> i.text, due |-> c, grants |-> d]
      OBVIOUS
    <3> QED  BY <3>3, <3>4 DEF i
  <2>2. item' = [item EXCEPT ![p] = [[item[p] EXCEPT !.due = c] EXCEPT !.grants = d]]
    BY <1>1, <1>5 DEF ItemHas
  <2>3. ItemIs(p, item[p].id, item[p].text, c, d)
    BY <2>1, <2>2 DEF ItemIs
  <2> QED  BY <1>4, <2>3
<1>6. UNCHANGED item => ItemType'
  BY DEF ItemType
<1> QED  BY <1>4, <1>5, <1>6

\* What begin admits is a schedule of this session.
LEMMA Admits ==
    ASSUME TypeInv, NEW p \in Sessions, BeginAdmits(p)
    PROVE  /\ item[p].id \in Mine(p) /\ Lookup(p, item[p].id) \in Existing
           /\ NextDue(item[p].id, Lookup(p, item[p].id)) \in Nat
           /\ Manual(p) \/ NextDue(item[p].id, Lookup(p, item[p].id)) \in 0 .. End
<1> DEFINE s == item[p].id
<1>1. s \in Schedules /\ Admissible(p, s, Lookup(p, s)) /\ (~Manual(p) => StillDue(p, s, Lookup(p, s)))
  BY DEF BeginAdmits
<1>2. Lookup(p, s) \in Existing /\ s \in Mine(p)
  BY <1>1, FindTypes DEF Admissible, Existing, TypeInv
<1>3. NextDue(s, Lookup(p, s)) \in Nat
  BY <1>1, <1>2, DueTypes DEF Existing
<1> QED  BY <1>1, <1>2, <1>3, AdmittedDue DEF TypeInv

LEMMA StepTurn ==
    ASSUME TypeInv, OneRule, NEW p \in Sessions, TurnStep(p)
    PROVE  TurnInv' /\ OneRule'
<1> USE DEF shared, sched, inbox, looping, turning, asks
<1>1. /\ turn \in [Sessions -> Phases] /\ fired \in [Sessions -> BOOLEAN] /\ ItemType /\ TurnOf(p)
  BY TurnParts DEF TypeInv, TurnType
<1>2. OthersStay(p)
  BY TurnOthers
<1>3. ASSUME NEW to \in Phases, turn' = [turn EXCEPT ![p] = to],
             fired' = [fired EXCEPT ![p] = (to = "running" /\ item'[p].grants # None)],
             ItemType',
             to \in {"save", "begun", "prepare", "finish", "record"} => item'[p].id \in Mine(p),
             to = "running" /\ item'[p].grants # None => item'[p].id \in Mine(p),
             to \in Admitted => item'[p].grants # None /\ item'[p].due \in 0 .. End,
             to \in {"request", "begin"} => item'[p].grants = None
      PROVE  TurnInv' /\ OneRule'
  <2>1. turn'[p] = to /\ (fired'[p] <=> to = "running" /\ item'[p].grants # None)
    BY <1>1, <1>3
  <2>2. TurnType'
    BY <1>1, <1>3 DEF TurnType
  <2>3. TurnOf(p)'
    BY <1>3, <2>1 DEF TurnOf, AtEvent, EventRuns, Mine
  <2> QED  BY <1>2, <1>3, <2>2, <2>3, TurnSuffices
<1>4. ASSUME UNCHANGED fired, ~fired[p] PROVE fired' = [fired EXCEPT ![p] = FALSE]
  BY <1>1, <1>4
<1>5. turn[p] # "running" => ~fired[p]
  BY <1>1 DEF TurnOf, EventRuns
<1>6. CASE DrainItems(p) \/ DrainEvent(p)
  <2>1. UNCHANGED fired /\ ~fired[p]
    BY <1>5, <1>6 DEF DrainItems, DrainEvent
  <2>2. CASE turn' \in {[turn EXCEPT ![p] = "drain"], [turn EXCEPT ![p] = "idle"]} /\ UNCHANGED item
    BY <1>1, <1>3, <1>4, <2>1, <2>2, ItemWrites DEF Phases, Admitted
  <2>3. CASE \E x : turn' = [turn EXCEPT ![p] = "request"] /\ item' = [item EXCEPT ![p] = Request(x)]
    <3>1. PICK x : turn' = [turn EXCEPT ![p] = "request"] /\ item' = [item EXCEPT ![p] = Request(x)]
      BY <2>3
    <3>2. ItemIs(p, x.id, x.text, 0, None)
      BY <3>1 DEF Request, ItemIs
    <3>3. ItemType' /\ item'[p].grants = None
      BY <1>1, <3>2, ItemWrites
    <3> QED  BY <1>3, <1>4, <2>1, <3>1, <3>3 DEF Phases, Admitted
  <2>4. \/ turn' \in {[turn EXCEPT ![p] = "drain"], [turn EXCEPT ![p] = "idle"]} /\ UNCHANGED item
        \/ \E x : turn' = [turn EXCEPT ![p] = "request"] /\ item' = [item EXCEPT ![p] = Request(x)]
    BY <1>6 DEF DrainItems, DrainEvent
  <2> QED  BY <2>2, <2>3, <2>4
<1>7. CASE TakeFiring(p)
  <2>1. /\ turn[p] = "request" /\ UNCHANGED <<item, fired>>
        /\ turn' \in {[turn EXCEPT ![p] = "begin"], [turn EXCEPT ![p] = "running"]}
    BY <1>7 DEF TakeFiring
  <2>2. ItemType' /\ item'[p].grants = None /\ ~fired[p]
    BY <1>1, <1>5, <2>1, ItemWrites DEF TurnOf
  <2> QED  BY <1>3, <1>4, <2>1, <2>2 DEF Phases, Admitted
<1>8. CASE BeginPauses(p) \/ BeginRefuses(p) \/ BeginFindsClaim(p)
  <2>1. turn[p] = "begin" /\ UNCHANGED <<item, fired>> /\ turn' = [turn EXCEPT ![p] = "refused"]
    BY <1>8 DEF BeginPauses, BeginRefuses, BeginFindsClaim, Begins, Refused
  <2>2. ItemType' /\ ~fired[p]
    BY <1>1, <1>5, <2>1, ItemWrites
  <2> QED  BY <1>3, <1>4, <2>1, <2>2 DEF Phases, Admitted
<1>9. CASE BeginAdmits(p)
  <2> DEFINE r == Lookup(p, item[p].id)
             due == NextDue(item[p].id, r)
             d == IF Manual(p) THEN 0 ELSE due
  <2>1. /\ turn[p] = "begin" /\ UNCHANGED fired /\ turn' = [turn EXCEPT ![p] = "save"]
        /\ item' = [item EXCEPT ![p].due = d, ![p].grants = r.text]
    BY <1>9 DEF BeginAdmits, Begins
  <2>2. item[p].id \in Mine(p) /\ r.text \in Texts /\ d \in 0 .. End
    BY <1>9, Admits, RecTypes, Constants
  <2> HIDE DEF r, d
  <2> DEFINE c == r.text
  <2> HIDE DEF c
  <2>3. ItemHas(p, d, c)
    BY <2>1 DEF ItemHas, c
  <2>4. ItemType' /\ item'[p].id = item[p].id /\ item'[p].due = d /\ item'[p].grants = c
    BY <1>1, <2>3, ItemWrites
  <2>5. c # None /\ ~fired[p]
    BY <1>5, <2>1, <2>2, Constants DEF c
  <2> QED  BY <1>3, <1>4, <2>1, <2>2, <2>4, <2>5 DEF Phases
<1>10. CASE BeginSaves(p) \/ ReleaseFiring(p)
  <2>1. CASE turn[p] = "refused"
    <3>1. /\ turn' = [turn EXCEPT ![p] = "idle"] /\ UNCHANGED fired
          /\ item' = [item EXCEPT ![p] = NoItem]
      BY <1>10, <2>1 DEF BeginSaves, ReleaseFiring
    <3>2. ItemType' /\ ~fired[p]
      BY <1>1, <1>5, <2>1, <3>1, ItemWrites DEF NoItem, ItemIs
    <3> QED  BY <1>3, <1>4, <3>1, <3>2 DEF Phases, Admitted
  <2>2. CASE turn[p] # "refused"
    <3>1. /\ turn[p] \in {"save", "begun"} /\ UNCHANGED <<item, fired>>
          /\ turn' \in {[turn EXCEPT ![p] = "begun"], [turn EXCEPT ![p] = "prepare"]}
      BY <1>10, <2>2 DEF BeginSaves, ReleaseFiring
    <3>2. ItemType' /\ ~fired[p] /\ item[p].id \in Mine(p) /\ item[p].grants # None /\ item[p].due \in 0 .. End
      BY <1>1, <1>5, <3>1, ItemWrites DEF TurnOf, AtEvent, Admitted
    <3> QED  BY <1>3, <1>4, <3>1, <3>2 DEF Phases, Admitted
  <2> QED  BY <2>1, <2>2
<1>11. CASE PrepareFiredRun(p)
  <2>1. /\ turn[p] = "prepare" /\ UNCHANGED item /\ turn' = [turn EXCEPT ![p] = "running"]
        /\ fired' = [fired EXCEPT ![p] = TRUE]
    BY <1>11 DEF PrepareFiredRun
  <2>2. ItemType' /\ item[p].id \in Mine(p) /\ item[p].grants # None
    BY <1>1, <2>1, ItemWrites DEF TurnOf, AtEvent, Admitted
  <2> QED  BY <1>3, <2>1, <2>2 DEF Phases, Admitted
<1>12. CASE TurnEnds(p)
  <2>1. CASE fired[p]
    <3>1. /\ turn' = [turn EXCEPT ![p] = "finish"] /\ UNCHANGED item
          /\ fired' = [fired EXCEPT ![p] = FALSE]
      BY <1>12, <2>1 DEF TurnEnds
    <3>2. ItemType' /\ item[p].id \in Mine(p)
      BY <1>1, <2>1, <3>1, ItemWrites DEF TurnOf, AtEvent, EventRuns
    <3> QED  BY <1>3, <3>1, <3>2 DEF Phases, Admitted
  <2>2. CASE ~fired[p]
    <3>1. /\ turn' = [turn EXCEPT ![p] = "idle"] /\ item' = [item EXCEPT ![p] = NoItem]
          /\ fired' = [fired EXCEPT ![p] = FALSE]
      BY <1>12, <2>2 DEF TurnEnds
    <3>2. ItemType'
      BY <1>1, <3>1, ItemWrites DEF NoItem, ItemIs
    <3> QED  BY <1>3, <3>1, <3>2 DEF Phases, Admitted
  <2> QED  BY <2>1, <2>2
<1>13. CASE FinishReads(p)
  <2>1. turn[p] = "finish" /\ UNCHANGED <<item, fired>> /\ turn' = [turn EXCEPT ![p] = "record"]
    BY <1>13 DEF FinishReads
  <2>2. ItemType' /\ ~fired[p] /\ item[p].id \in Mine(p)
    BY <1>1, <1>5, <2>1, ItemWrites DEF TurnOf, AtEvent
  <2> QED  BY <1>3, <1>4, <2>1, <2>2 DEF Phases, Admitted
<1>14. CASE \E ok \in BOOLEAN : FinishWrites(p, ok)
  <2>1. /\ turn[p] = "record" /\ turn' = [turn EXCEPT ![p] = "idle"] /\ UNCHANGED fired
        /\ item' = [item EXCEPT ![p] = NoItem]
    BY <1>14 DEF FinishWrites
  <2>2. ItemType' /\ ~fired[p]
    BY <1>1, <1>5, <2>1, ItemWrites DEF NoItem, ItemIs
  <2> QED  BY <1>3, <1>4, <2>1, <2>2 DEF Phases, Admitted
<1> QED  BY <1>6, <1>7, <1>8, <1>9, <1>10, <1>11, <1>12, <1>13, <1>14 DEF TurnStep

LEMMA SessionTurn ==
    ASSUME TypeInv, OneRule, NEW p \in Sessions, SessionStep(p)
    PROVE  TurnInv' /\ OneRule'
<1> USE DEF shared, sched, inbox, looping, turning, asks
<1>1. TurnType /\ ItemType /\ TurnOf(p) /\ OthersStay(p)
  BY TurnParts, SessionOthers DEF TypeInv
<1>2. ASSUME UNCHANGED <<turn, fired, item>> PROVE TurnInv' /\ OneRule'
  BY <1>1, <1>2, TurnSuffices DEF TurnType, ItemType, TurnOf, AtEvent, EventRuns
<1>3. CASE LoopStep(p) \/ Deliver(p) \/ GateStep(p) \/ GateWithdrawn(p) \/ SwitchSession(p) \/ ConfirmHeldTimers(p)
  BY <1>2, <1>3, LoopLeaves, GateLeaves DEF Deliver
<1>4. CASE PersonStep(p)
  <2>1. UNCHANGED <<turn, fired>> /\ (Esc(p) \/ UNCHANGED item)
    BY <1>4, PersonLeaves
  <2>2. CASE turn[p] = "request" /\ item' = [item EXCEPT ![p] = [NoItem EXCEPT !.id = "void"]]
    <3>1. [NoItem EXCEPT !.id = "void"] = [id |-> "void", text |-> None, due |-> 0, grants |-> None]
      BY DEF NoItem
    <3>2. ItemIs(p, "void", None, 0, None)
      BY <2>2, <3>1 DEF ItemIs
    <3>3. ItemType' /\ item'[p].grants = None
      BY <1>1, <3>2, ItemWrites
    <3>4. TurnType' /\ TurnOf(p)'
      BY <1>1, <2>1, <2>2, <3>3 DEF TurnType, TurnOf, AtEvent, EventRuns, Admitted
    <3> QED  BY <1>1, <3>3, <3>4, TurnSuffices
  <2> QED  BY <1>2, <2>1, <2>2 DEF Esc
<1>5. CASE Crash(p)
  <2>1. /\ turn' = [turn EXCEPT ![p] = "idle"] /\ fired' = [fired EXCEPT ![p] = FALSE]
        /\ item' = [item EXCEPT ![p] = NoItem]
    BY <1>5 DEF Crash
  <2>2. ItemType'
    BY <1>1, <2>1, ItemWrites DEF NoItem, ItemIs
  <2>3. TurnType' /\ turn'[p] = "idle" /\ fired'[p] = FALSE
    BY <1>1, <2>1 DEF TurnType, Phases
  <2>4. TurnOf(p)'
    BY <2>3 DEF TurnOf, AtEvent, EventRuns, Admitted
  <2> QED  BY <1>1, <2>2, <2>3, <2>4, TurnSuffices
<1> QED  BY <1>3, <1>4, <1>5, StepTurn DEF SessionStep

-----------------------------------------------------------------------------
(* The arm *)

ArmType == armed = [p \in Sessions |-> [id |-> armed[p].id, taken |-> armed[p].taken]]
ArmOf(p) ==
    /\ turn[p] \in {"request", "begin"} /\ item[p].id \in Schedules => armed[p].id = item[p].id
    /\ turn[p] = "begin" => armed[p].taken = TRUE

LEMMA ArmSuffices ==
    ASSUME TypeInv, NEW p \in Sessions, OthersStay(p), ArmType', ArmOf(p)'
    PROVE  ArmInv'
<1>1. ASSUME NEW q \in Sessions \ {p} PROVE ArmOf(q)'
  BY DEF TypeInv, ArmInv, ArmOf, OthersStay
<1> QED  BY <1>1 DEF ArmInv, ArmType, ArmOf

ArmIs(p, a, b) == armed' = [armed EXCEPT ![p] = [id |-> a, taken |-> b]]

LEMMA ArmWrites ==
    ASSUME ArmType, NEW p \in Sessions
    PROVE  /\ UNCHANGED armed => ArmType'
           /\ \A a, b : ArmIs(p, a, b) => ArmType' /\ armed'[p].id = a /\ armed'[p].taken = b
           /\ armed' = [armed EXCEPT ![p].taken = TRUE] => ArmIs(p, armed[p].id, TRUE)
           /\ armed' = [armed EXCEPT ![p] = NoArm] => ArmIs(p, None, FALSE)
           /\ Disarm(p) => UNCHANGED armed \/ (armed[p].taken # TRUE /\ ArmIs(p, None, FALSE))
<1>1. DOMAIN armed = Sessions
  BY DEF ArmType
<1>2. \A q \in Sessions : armed[q] = [id |-> armed[q].id, taken |-> armed[q].taken]
  BY DEF ArmType
<1>3. ASSUME NEW a, NEW b, ArmIs(p, a, b) PROVE ArmType' /\ armed'[p].id = a /\ armed'[p].taken = b
  <2> DEFINE x == [id |-> a, taken |-> b]
  <2>1. armed'[p] = x /\ \A q \in Sessions \ {p} : armed'[q] = armed[q]
    BY <1>1, <1>3 DEF ArmIs
  <2>2. armed' = [q \in Sessions |-> armed'[q]]
    BY <1>1, <1>3 DEF ArmIs
  <2>3. x = [id |-> x.id, taken |-> x.taken] /\ x.id = a /\ x.taken = b
    OBVIOUS
  <2> HIDE DEF x
  <2>4. \A q \in Sessions : armed'[q] = [id |-> armed'[q].id, taken |-> armed'[q].taken]
    BY <1>2, <2>1, <2>3
  <2> QED  BY <2>1, <2>2, <2>3, <2>4 DEF ArmType
<1>4. ASSUME armed' = [armed EXCEPT ![p].taken = TRUE] PROVE ArmIs(p, armed[p].id, TRUE)
  <2> DEFINE x == armed[p]
             b == TRUE
  <2>1. x = [id |-> x.id, taken |-> x.taken]
    BY <1>2
  <2>2. armed' = [armed EXCEPT ![p] = [x EXCEPT !.taken = b]]
    BY <1>1, <1>4
  <2> HIDE DEF x, b
  <2>3. [x EXCEPT !.taken = b] \in [id : {x.id}, taken : {b}]
    BY <2>1
  <2>4. \A j \in [id : {x.id}, taken : {b}] : j = [id |-> x.id, taken |-> b]
    OBVIOUS
  <2>5. armed' = [armed EXCEPT ![p] = [id |-> x.id, taken |-> b]]
    BY <2>2, <2>3, <2>4
  <2> QED  BY <2>5 DEF ArmIs, x, b
<1>5. armed' = [armed EXCEPT ![p] = NoArm] => ArmIs(p, None, FALSE)
  BY DEF ArmIs, NoArm
<1>6. ASSUME Disarm(p) PROVE UNCHANGED armed \/ (armed[p].taken # TRUE /\ ArmIs(p, None, FALSE))
  <2>1. CASE armed[p].taken
    <3>1. armed' = [armed EXCEPT ![p] = armed[p]]
      BY <1>1, <1>6, <2>1 DEF Disarm
    <3>2. armed = [q \in Sessions |-> armed[q]]
      BY DEF ArmType
    <3> QED  BY <3>1, <3>2
  <2>2. CASE ~armed[p].taken
    <3>1. armed' = [armed EXCEPT ![p] = NoArm]
      BY <1>1, <1>6, <2>2 DEF Disarm
    <3> QED  BY <1>5, <2>2, <3>1
  <2> QED  BY <2>1, <2>2
<1>7. UNCHANGED armed => ArmType'
  BY DEF ArmType
<1> QED  BY <1>3, <1>4, <1>5, <1>6, <1>7

LEMMA SessionArm ==
    ASSUME TypeInv, NEW p \in Sessions, SessionStep(p)
    PROVE  ArmInv'
<1> USE DEF shared, sched, inbox, looping, turning, asks
<1>1. /\ ArmType /\ ArmOf(p) /\ OthersStay(p) /\ ItemType /\ turn \in [Sessions -> Phases]
  BY SessionOthers DEF TypeInv, ArmInv, ArmType, ArmOf, TurnInv, ItemType
<1>2. ASSUME UNCHANGED <<turn, item, armed>> PROVE ArmInv'
  BY <1>1, <1>2, ArmWrites, ArmSuffices DEF ArmOf
<1>3. ASSUME ArmType', turn'[p] \notin {"request", "begin"} PROVE ArmInv'
  BY <1>1, <1>3, ArmSuffices DEF ArmOf
<1>4. Disarm(p) \/ UNCHANGED armed \/ armed' = [armed EXCEPT ![p] = NoArm] => ArmType'
  BY <1>1, ArmWrites
<1>5. CASE LoopStep(p) \/ GateStep(p) \/ GateWithdrawn(p) \/ SwitchSession(p) \/ ConfirmHeldTimers(p)
  BY <1>2, <1>5, LoopLeaves, GateLeaves
<1>6. CASE PersonStep(p)
  <2>1. UNCHANGED turn /\ (Esc(p) \/ UNCHANGED <<item, armed>>)
    BY <1>6, PersonLeaves
  <2>2. CASE Esc(p)
    <3>1. Disarm(p) /\ (turn[p] # "request" => UNCHANGED item)
      BY <2>2 DEF Esc
    <3>2. CASE turn[p] = "request"
      <4>1. item' = [item EXCEPT ![p] = [NoItem EXCEPT !.id = "void"]]
        BY <2>2, <3>2 DEF Esc
      <4>2. [NoItem EXCEPT !.id = "void"] = [id |-> "void", text |-> None, due |-> 0, grants |-> None]
        BY DEF NoItem
      <4>3. ItemIs(p, "void", None, 0, None)
        BY <4>1, <4>2 DEF ItemIs
      <4>4. item'[p].id \notin Schedules
        BY <1>1, <4>3, ItemWrites, Constants
      <4> QED  BY <1>1, <1>4, <2>1, <3>1, <3>2, <4>4, ArmSuffices DEF ArmOf
    <3>3. CASE turn[p] = "begin"
      <4>1. UNCHANGED armed
        BY <1>1, <3>1, <3>3, ArmWrites DEF ArmOf
      <4> QED  BY <1>2, <2>1, <3>1, <3>3, <4>1
    <3>4. CASE turn[p] \notin {"request", "begin"}
      BY <1>3, <1>4, <2>1, <3>1, <3>4
    <3> QED  BY <3>2, <3>3, <3>4
  <2> QED  BY <1>2, <2>1, <2>2
<1>7. CASE Deliver(p)
  <2>1. turn[p] = "running" /\ UNCHANGED turn /\ Disarm(p)
    BY <1>7 DEF Deliver
  <2> QED  BY <1>3, <1>4, <2>1
<1>8. CASE DrainItems(p)
  <2>1. Disarm(p)
    BY <1>8 DEF DrainItems
  <2>2. CASE turn' = [turn EXCEPT ![p] = "drain"]
    BY <1>1, <1>3, <1>4, <2>1, <2>2
  <2>3. CASE turn' = [turn EXCEPT ![p] = "request"] /\ item' = [item EXCEPT ![p] = Request(Line)]
    <3>1. ItemIs(p, "line", None, 0, None)
      BY <2>3 DEF ItemIs, Request, Line
    <3>2. item'[p].id \notin Schedules /\ turn'[p] = "request"
      BY <1>1, <2>3, <3>1, ItemWrites, Constants
    <3> QED  BY <1>1, <1>4, <2>1, <3>2, ArmSuffices DEF ArmOf
  <2> QED  BY <1>8, <2>2, <2>3 DEF DrainItems
<1>9. CASE DrainEvent(p)
  <2>1. CASE queue[p] = <<>>
    <3>1. turn' = [turn EXCEPT ![p] = "idle"] /\ UNCHANGED armed
      BY <1>9, <2>1 DEF DrainEvent
    <3> QED  BY <1>1, <1>3, <1>4, <3>1
  <2>2. CASE queue[p] # <<>>
    <3> DEFINE x == Head(queue[p])
    <3>1. /\ turn' = [turn EXCEPT ![p] = "request"] /\ item' = [item EXCEPT ![p] = Request(x)]
          /\ armed' = [armed EXCEPT ![p] = [id |-> x.id, taken |-> FALSE]]
      BY <1>9, <2>2 DEF DrainEvent
    <3> HIDE DEF x
    <3>2. ItemIs(p, x.id, x.text, 0, None) /\ ArmIs(p, x.id, FALSE)
      BY <3>1 DEF ItemIs, ArmIs, Request
    <3>3. ArmType' /\ armed'[p].id = item'[p].id /\ turn'[p] = "request"
      <4>1. item'[p].id = x.id
        BY <1>1, <3>2, ItemWrites
      <4>2. ArmType' /\ armed'[p].id = x.id
        BY <1>1, <3>2, ArmWrites
      <4> QED  BY <1>1, <3>1, <4>1, <4>2
    <3> QED  BY <1>1, <3>3, ArmSuffices DEF ArmOf
  <2> QED  BY <2>1, <2>2
<1>10. CASE TakeFiring(p)
  <2>1. CASE turn' = [turn EXCEPT ![p] = "running"] /\ armed' = [armed EXCEPT ![p] = NoArm]
    BY <1>1, <1>3, <1>4, <2>1
  <2>2. CASE /\ armed[p].id = item[p].id /\ armed' = [armed EXCEPT ![p].taken = TRUE]
             /\ turn' = [turn EXCEPT ![p] = "begin"] /\ UNCHANGED item
    <3>1. ArmType' /\ armed'[p].id = item[p].id /\ armed'[p].taken = TRUE
      BY <1>1, <2>2, ArmWrites
    <3> QED  BY <1>1, <2>2, <3>1, ArmSuffices DEF ArmOf
  <2> QED  BY <1>10, <2>1, <2>2 DEF TakeFiring
<1>11. CASE BeginPauses(p) \/ BeginRefuses(p) \/ BeginFindsClaim(p)
  <2>1. turn' = [turn EXCEPT ![p] = "refused"] /\ UNCHANGED armed
    BY <1>11 DEF BeginPauses, BeginRefuses, BeginFindsClaim, Refused
  <2> QED  BY <1>1, <1>3, <1>4, <2>1
<1>12. CASE BeginAdmits(p) \/ BeginSaves(p)
  <2>1. turn' \in {[turn EXCEPT ![p] = "save"], [turn EXCEPT ![p] = "begun"]} /\ UNCHANGED armed
    BY <1>12 DEF BeginAdmits, BeginSaves
  <2> QED  BY <1>1, <1>3, <1>4, <2>1
<1>13. CASE ReleaseFiring(p)
  <2>1. /\ turn' \in {[turn EXCEPT ![p] = "prepare"], [turn EXCEPT ![p] = "idle"]}
        /\ armed' = [armed EXCEPT ![p] = NoArm]
    BY <1>1, <1>13 DEF ReleaseFiring
  <2> QED  BY <1>1, <1>3, <1>4, <2>1
<1>14. CASE PrepareFiredRun(p) \/ TurnEnds(p) \/ FinishReads(p) \/ \E ok \in BOOLEAN : FinishWrites(p, ok)
  <2>1. /\ turn' \in {[turn EXCEPT ![p] = v] : v \in {"running", "finish", "idle", "record"}}
        /\ UNCHANGED armed
    BY <1>1, <1>14 DEF PrepareFiredRun, TurnEnds, FinishReads, FinishWrites
  <2> QED  BY <1>1, <1>3, <1>4, <2>1
<1>15. CASE Crash(p)
  <2>1. turn' = [turn EXCEPT ![p] = "idle"] /\ armed' = [armed EXCEPT ![p] = NoArm]
    BY <1>15 DEF Crash
  <2> QED  BY <1>1, <1>3, <1>4, <2>1
<1> QED  BY <1>5, <1>6, <1>7, <1>8, <1>9, <1>10, <1>11, <1>12, <1>13, <1>14, <1>15 DEF SessionStep, TurnStep

-----------------------------------------------------------------------------
(* mu *)

MuOf(p) ==
    /\ LoopHolds(p) => ~TurnHolds(p) /\ ~CallHolds(p) /\ ~GateHolds(p)
    /\ TurnHolds(p) => ~CallHolds(p) /\ ~GateHolds(p)
    /\ CallHolds(p) => ~GateHolds(p)
    /\ ~Locked(p) => seen[p] = NoSeen

LEMMA Locks ==
    ASSUME NEW p
    PROVE  /\ Locked(p) <=> LoopHolds(p) \/ TurnHolds(p) \/ CallHolds(p) \/ GateHolds(p)
           /\ Locked(p)' <=> LoopHolds(p)' \/ TurnHolds(p)' \/ CallHolds(p)' \/ GateHolds(p)'
           /\ UNCHANGED loop[p] => (LoopHolds(p)' <=> LoopHolds(p))
           /\ UNCHANGED turn[p] => (TurnHolds(p)' <=> TurnHolds(p))
           /\ UNCHANGED call[p] => (CallHolds(p)' <=> CallHolds(p))
           /\ UNCHANGED gate[p] => (GateHolds(p)' <=> GateHolds(p))
  BY DEF Locked, LoopHolds, TurnHolds, CallHolds, GateHolds

LEMMA MuSuffices ==
    ASSUME TypeInv, NEW p \in Sessions, OthersStay(p), MuOf(p)'
    PROVE  Exclusive' /\ SeenLocked'
<1>1. ASSUME NEW q \in Sessions \ {p} PROVE MuOf(q)'
  <2>1. MuOf(q) /\ UNCHANGED <<seen[q], loop[q], turn[q], call[q], gate[q]>>
    BY DEF TypeInv, Exclusive, SeenLocked, MuOf, OthersStay
  <2> QED  BY <2>1 DEF MuOf, Locked, LoopHolds, TurnHolds, CallHolds, GateHolds
<1>2. \A q \in Sessions : MuOf(q)'
  BY <1>1
<1>3. Exclusive'
  BY <1>2 DEF MuOf, Exclusive
<1>4. SeenLocked'
  BY <1>2 DEF MuOf, SeenLocked
<1> QED  BY <1>3, <1>4

\* Nobody takes mu.
LEMMA MuKept ==
    ASSUME NEW p \in Sessions, MuOf(p),
           LoopHolds(p)' => LoopHolds(p), TurnHolds(p)' => TurnHolds(p),
           CallHolds(p)' => CallHolds(p), GateHolds(p)' => GateHolds(p),
           seen'[p] = NoSeen \/ Locked(p)' \/ (UNCHANGED seen[p] /\ ~Locked(p))
    PROVE  MuOf(p)'
  BY Locks DEF MuOf

\* One takes it that was free.
LEMMA MuTaken ==
    ASSUME NEW p \in Sessions, Free(p), Locked(p)',
           \/ UNCHANGED <<turn[p], call[p], gate[p]>> \/ UNCHANGED <<loop[p], call[p], gate[p]>>
           \/ UNCHANGED <<loop[p], turn[p], gate[p]>> \/ UNCHANGED <<loop[p], turn[p], call[p]>>
    PROVE  MuOf(p)'
  BY Locks DEF MuOf, Free

LEMMA MuSame ==
    ASSUME NEW p \in Sessions, MuOf(p), UNCHANGED seen[p],
           LoopHolds(p)' <=> LoopHolds(p), TurnHolds(p)' <=> TurnHolds(p),
           CallHolds(p)' <=> CallHolds(p), GateHolds(p)' <=> GateHolds(p)
    PROVE  MuOf(p)'
  BY Locks DEF MuOf

LEMMA LoopMu ==
    ASSUME TypeInv, NEW p \in Sessions, LoopStep(p), MuOf(p)
    PROVE  MuOf(p)'
<1> USE Locks, Domains
<1>1. UNCHANGED <<turn[p], call[p], gate[p]>>
  BY LoopLeaves DEF turning, asks
<1>2. CASE LoopReads(p)
  <2>1. Free(p) /\ loop'[p] = "settle"
    BY <1>2 DEF LoopReads, Reload
  <2>2. Locked(p)'
    BY <2>1 DEF LoopHolds
  <2> QED  BY <1>1, <2>1, <2>2, MuTaken
<1>3. CASE LoopSettles(p)
  <2>1. loop[p] = "settle" /\ loop'[p] = "decide"
    BY <1>3 DEF LoopSettles
  <2>2. LoopHolds(p) /\ LoopHolds(p)'
    BY <2>1 DEF LoopHolds
  <2> QED  BY <1>1, <2>2, MuKept
<1>4. CASE LoopDecides(p)
  <2>1. loop'[p] \in {"idle", "fire"} /\ seen'[p] = NoSeen
    BY <1>4 DEF LoopDecides, Unlock
  <2>2. ~LoopHolds(p)'
    BY <2>1 DEF LoopHolds
  <2> QED  BY <1>1, <2>1, <2>2, MuKept
<1>5. CASE LoopFires(p)
  <2>1. Free(p) /\ loop'[p] \in {"idle", "fire"} /\ UNCHANGED seen
    BY <1>5 DEF LoopFires, FireNow
  <2>2. ~LoopHolds(p)'
    BY <2>1 DEF LoopHolds
  <2> QED  BY <1>1, <2>1, <2>2, MuKept DEF Free
<1> QED  BY <1>2, <1>3, <1>4, <1>5 DEF LoopStep

LEMMA TurnMu ==
    ASSUME TypeInv, NEW p \in Sessions, TurnStep(p) \/ Deliver(p), MuOf(p)
    PROVE  MuOf(p)'
<1> USE Locks, Domains DEF sched, turning
<1>1. UNCHANGED <<loop[p], call[p], gate[p]>>
  BY TurnLeaves DEF looping, asks
<1>2. CASE BeginAdmits(p) \/ FinishReads(p)
  <2>1. Free(p) /\ turn'[p] \in {"save", "record"}
    BY <1>2 DEF BeginAdmits, Begins, FinishReads, Reload
  <2>2. Locked(p)'
    BY <2>1 DEF TurnHolds
  <2> QED  BY <1>1, <2>1, <2>2, MuTaken
<1>3. CASE BeginSaves(p) \/ \E ok \in BOOLEAN : FinishWrites(p, ok)
  <2>1. turn'[p] \in {"begun", "idle"} /\ seen'[p] = NoSeen
    BY <1>3 DEF BeginSaves, FinishWrites, Unlock
  <2>2. ~TurnHolds(p)'
    BY <2>1 DEF TurnHolds
  <2> QED  BY <1>1, <2>1, <2>2, MuKept
<1>4. ASSUME turn[p] \notin {"save", "record"}, turn'[p] \notin {"save", "record"}, UNCHANGED seen
      PROVE  MuOf(p)'
  <2>1. ~TurnHolds(p) /\ ~TurnHolds(p)'
    BY <1>4 DEF TurnHolds
  <2> QED  BY <1>1, <1>4, <2>1, MuSame
<1>5. CASE DrainItems(p) \/ DrainEvent(p) \/ TakeFiring(p) \/ Deliver(p)
  BY <1>4, <1>5 DEF DrainItems, DrainEvent, TakeFiring, Deliver
<1>6. CASE BeginPauses(p) \/ BeginRefuses(p) \/ BeginFindsClaim(p)
  BY <1>4, <1>6 DEF BeginPauses, BeginRefuses, BeginFindsClaim, Begins, Refused
<1>7. CASE ReleaseFiring(p) \/ PrepareFiredRun(p) \/ TurnEnds(p)
  BY <1>4, <1>7 DEF ReleaseFiring, PrepareFiredRun, TurnEnds
<1> QED  BY <1>2, <1>3, <1>5, <1>6, <1>7 DEF TurnStep

LEMMA PersonMu ==
    ASSUME TypeInv, NEW p \in Sessions, PersonStep(p), MuOf(p)
    PROVE  MuOf(p)'
<1> USE Locks, Domains DEF sched, asks
<1>1. UNCHANGED <<loop[p], turn[p]>>
  BY PersonLeaves DEF looping
<1>2. CASE LineComes(p) \/ Esc(p) \/ \E s \in Schedules : DropEvent(p, s)
  BY <1>1, <1>2, MuSame DEF LineComes, Esc, DropEvent
<1>3. ASSUME UNCHANGED <<seen, gate>>, call[p].op \in {"none", "run", "resume?", "add?"},
             call'[p].op \in {"none", "run", "resume?", "add?"}
      PROVE  MuOf(p)'
  <2>1. ~CallHolds(p) /\ ~CallHolds(p)'
    BY <1>3 DEF CallHolds
  <2> QED  BY <1>1, <1>3, <2>1, MuSame
<1>4. NoCall.op = "none" /\ (call' = [call EXCEPT ![p] = NoCall] => call'[p] = NoCall)
      /\ \A op, s, c : Calls(p, op, s, c) => call'[p].op = op
  BY DEF NoCall, Calls
<1>5. CASE RunFires(p) \/ \E s \in Schedules : \/ RunAsked(p, s) \/ ResumeAsks(p, s)
                                              \/ \E c \in Texts : AddAsks(p, s, c)
  <2>1. UNCHANGED <<seen, gate>> /\ call[p].op \in {"none", "run"}
    BY <1>4, <1>5 DEF RunFires, RunAsked, ResumeAsks, AddAsks, Reading
  <2>2. call'[p].op \in {"none", "run", "resume?", "add?"}
    BY <1>4, <1>5 DEF RunFires, RunAsked, ResumeAsks, AddAsks
  <2> QED  BY <1>3, <2>1, <2>2
<1>6. ASSUME Free(p), call'[p].op \in {"pausing", "cancelling", "resuming", "adding"}, UNCHANGED gate
      PROVE  MuOf(p)'
  <2>1. Locked(p)'
    BY <1>6 DEF CallHolds
  <2> QED  BY <1>1, <1>6, <2>1, MuTaken
<1>7. CASE \E s \in Schedules : Narrows(p, s)
  <2>1. Free(p) /\ UNCHANGED gate /\ call'[p].op \in {"pausing", "cancelling"}
    BY <1>4, <1>7 DEF Narrows, Reload, Reading
  <2> QED  BY <1>6, <2>1
<1>8. ASSUME NEW yes \in BOOLEAN, PromptAnswered(p, yes) PROVE MuOf(p)'
  <2>1. call[p].op \in {"resume?", "add?"} /\ UNCHANGED gate
    BY <1>8 DEF PromptAnswered, Reading
  <2>2. CASE yes
    <3>1. Free(p) /\ call'[p].op \in {"resuming", "adding"}
      BY <1>4, <1>8, <2>2 DEF PromptAnswered, Reload
    <3> QED  BY <1>6, <2>1, <3>1
  <2>3. CASE ~yes
    <3>1. UNCHANGED seen /\ call'[p].op = "none"
      BY <1>4, <1>8, <2>3 DEF PromptAnswered
    <3> QED  BY <1>3, <2>1, <3>1
  <2> QED  BY <2>2, <2>3
<1>9. CASE CallWrites(p)
  <2>1. seen'[p] = NoSeen /\ call'[p] = NoCall /\ UNCHANGED gate
    BY <1>4, <1>9 DEF CallWrites, NarrowWrites, ResumeWrites, AddWrites, Unlock
  <2>2. ~CallHolds(p)'
    BY <1>4, <2>1 DEF CallHolds
  <2> QED  BY <1>1, <2>1, <2>2, MuKept
<1>10. ASSUME NEW yes \in BOOLEAN, GateAnswered(p, yes) PROVE MuOf(p)'
  <2>1. Free(p) /\ UNCHANGED call /\ gate' = [gate EXCEPT ![p].phase = IF yes THEN "yes" ELSE "no"]
    BY <1>10 DEF GateAnswered, GateMoves, Reload
  <2>2. gate'[p].phase \in {"yes", "no"}
    BY <2>1 DEF TypeInv, GateInv
  <2>3. Locked(p)'
    BY <2>2 DEF GateHolds
  <2> QED  BY <1>1, <2>1, <2>3, MuTaken
<1> QED  BY <1>2, <1>5, <1>7, <1>8, <1>9, <1>10 DEF PersonStep

LEMMA GateMu ==
    ASSUME TypeInv, NEW p \in Sessions, MuOf(p),
           GateStep(p) \/ GateWithdrawn(p) \/ SwitchSession(p) \/ ConfirmHeldTimers(p) \/ Crash(p)
    PROVE  MuOf(p)'
<1> USE Locks, Domains DEF sched, looping, turning, asks
<1>1. ASSUME UNCHANGED loop \/ StartLoop(p) PROVE LoopHolds(p)' => LoopHolds(p)
  BY <1>1 DEF LoopHolds, StartLoop
<1>2. ASSUME gate' = [gate EXCEPT ![p] = NoGate] PROVE ~GateHolds(p)'
  BY <1>2 DEF GateHolds, NoGate
<1>3. CASE GateReads(p)
  <2>1. Free(p) /\ UNCHANGED <<loop, turn, call>> /\ gate' = [gate EXCEPT ![p].phase = "showing"]
    BY <1>3 DEF GateReads, GateMoves, Reload
  <2>2. gate'[p].phase = "showing"
    BY <2>1 DEF TypeInv, GateInv
  <2>3. Locked(p)'
    BY <2>2 DEF GateHolds
  <2> QED  BY <2>1, <2>3, MuTaken
<1>4. CASE GateShows(p) \/ GateDecides(p)
  <2>1. /\ UNCHANGED <<turn, call>> /\ seen'[p] = NoSeen
        /\ UNCHANGED loop \/ StartLoop(p)
        /\ \/ gate' = [gate EXCEPT ![p] = NoGate]
           \/ \E T : gate' = [gate EXCEPT ![p] = [phase |-> "open", gen |-> gate[p].gen, shown |-> T]]
    BY <1>4 DEF GateShows, GateDecides, Unlock
  <2>2. ~GateHolds(p)'
    BY <1>2, <2>1 DEF GateHolds
  <2> QED  BY <1>1, <2>1, <2>2, MuKept
<1>5. CASE GateWithdrawn(p)
  <2>1. /\ Free(p) /\ UNCHANGED <<turn, call, seen>> /\ (UNCHANGED loop \/ StartLoop(p))
        /\ gate' = [gate EXCEPT ![p] = NoGate]
    BY <1>5 DEF GateWithdrawn
  <2> QED  BY <1>1, <1>2, <2>1, MuKept DEF Free
<1>6. CASE SwitchSession(p)
  BY <1>6, MuSame DEF SwitchSession
<1>7. CASE ConfirmHeldTimers(p)
  <2>1. /\ UNCHANGED <<loop, turn, call, seen>> /\ gate[p] = NoGate
        /\ gate' = [gate EXCEPT ![p] = [NoGate EXCEPT !.phase = "start", !.gen = holdGen[p]]]
    BY <1>7 DEF ConfirmHeldTimers
  <2>2. ~GateHolds(p) /\ ~GateHolds(p)'
    <3>1. gate'[p].phase = "start"
      BY <2>1 DEF NoGate
    <3> QED  BY <2>1, <3>1 DEF GateHolds, NoGate
  <2> QED  BY <2>1, <2>2, MuSame
<1>8. CASE Crash(p)
  <2>1. /\ loop'[p] = "off" /\ turn'[p] = "idle" /\ call'[p] = NoCall /\ seen'[p] = NoSeen
        /\ gate'[p] = [NoGate EXCEPT !.phase = "start"]
    BY <1>8 DEF Crash, Unlock
  <2>2. ~LoopHolds(p)' /\ ~TurnHolds(p)' /\ ~CallHolds(p)' /\ ~GateHolds(p)'
    BY <2>1 DEF LoopHolds, TurnHolds, CallHolds, GateHolds, NoCall, NoGate
  <2> QED  BY <2>1, <2>2, MuKept
<1> QED  BY <1>3, <1>4, <1>5, <1>6, <1>7, <1>8 DEF GateStep

LEMMA SessionMu ==
    ASSUME TypeInv, NEW p \in Sessions, SessionStep(p)
    PROVE  Exclusive' /\ SeenLocked'
<1>1. MuOf(p) /\ OthersStay(p)
  BY SessionOthers DEF TypeInv, Exclusive, SeenLocked, MuOf
<1>2. MuOf(p)'
  BY <1>1, LoopMu, TurnMu, PersonMu, GateMu DEF SessionStep
<1> QED  BY <1>1, <1>2, MuSuffices

\* While the turn holds mu to write, nobody else of the session touches what
\* begin read.
LEMMA TurnHeld ==
    ASSUME TypeInv, NEW p \in Sessions, TurnHolds(p)
    PROVE  /\ ~LoopHolds(p) /\ ~CallHolds(p) /\ ~GateHolds(p) /\ ~Free(p)
           /\ LoopStep(p) => FALSE
           /\ PersonStep(p) => UNCHANGED <<seen, timers, item>>
           /\ GateStep(p) \/ GateWithdrawn(p) \/ SwitchSession(p) => FALSE
<1> USE DEF shared, sched, inbox, looping, turning, asks
<1>1. ~LoopHolds(p) /\ ~CallHolds(p) /\ ~GateHolds(p) /\ ~Free(p)
  BY Locks DEF TypeInv, Exclusive, Free
<1>2. ~LoopStep(p)
  BY <1>1 DEF LoopStep, LoopReads, LoopSettles, LoopDecides, LoopFires, FireNow, Reload, LoopHolds
<1>3. turn[p] # "request"
  BY DEF TurnHolds
<1>4. ASSUME PersonStep(p) PROVE UNCHANGED <<seen, timers, item>>
  <2>1. CASE LineComes(p) \/ Esc(p) \/ \E s \in Schedules : DropEvent(p, s)
    BY <1>3, <2>1 DEF LineComes, Esc, DropEvent
  <2>2. ~RunFires(p) /\ ~CallWrites(p)
    BY <1>1 DEF RunFires, FireNow, CallWrites, NarrowWrites, ResumeWrites, AddWrites, CallHolds
  <2>3. ASSUME NEW s \in Schedules
        PROVE  ~RunAsked(p, s) /\ ~Narrows(p, s) /\ ~ResumeAsks(p, s) /\ \A c \in Texts : ~AddAsks(p, s, c)
    BY <1>1 DEF RunAsked, Narrows, ResumeAsks, AddAsks, Reload
  <2>4. ASSUME NEW yes \in BOOLEAN PROVE ~GateAnswered(p, yes)
    BY <1>1 DEF GateAnswered, Reload
  <2>5. ASSUME NEW yes \in BOOLEAN, PromptAnswered(p, yes) PROVE UNCHANGED <<seen, timers, item>>
    BY <1>1, <2>5 DEF PromptAnswered, Reading, Reload
  <2> QED  BY <1>4, <2>1, <2>2, <2>3, <2>4, <2>5 DEF PersonStep
<1>5. ~GateStep(p) /\ ~GateWithdrawn(p) /\ ~SwitchSession(p)
  BY <1>1 DEF GateStep, GateReads, GateShows, GateDecides, GateWithdrawn, SwitchSession, Reload, GateHolds
<1> QED  BY <1>1, <1>2, <1>4, <1>5

SaveOf(p) == turn[p] = "save" =>
    /\ item[p].id \in Recurring => seen[p].file[item[p].id] # NoRec
    /\ item[p].id \in Timers => timers[item[p].id] # NoRec

LEMMA SaveSuffices ==
    ASSUME TypeInv, NEW p \in Sessions, OthersStay(p), TimersApart(p), SaveOf(p)'
    PROVE  SaveInv'
<1>1. ASSUME NEW q \in Sessions \ {p} PROVE SaveOf(q)'
  <2>1. SaveOf(q) /\ UNCHANGED <<turn[q], item[q], seen[q]>>
    BY DEF TypeInv, SaveInv, SaveOf, OthersStay
  <2>2. turn[q] = "save" => item[q].id \in Mine(q)
    BY DEF TypeInv, TurnInv, AtEvent
  <2>3. turn[q] = "save" /\ item[q].id \in Timers => timers'[item[q].id] = timers[item[q].id]
    BY <2>2, Constants DEF Mine, TimersApart
  <2> QED  BY <2>1, <2>3 DEF SaveOf
<1> QED  BY <1>1 DEF SaveInv, SaveOf

LEMMA SessionSave ==
    ASSUME TypeInv, NEW p \in Sessions, SessionStep(p)
    PROVE  SaveInv'
<1> USE DEF shared, sched, inbox, looping, turning, asks
<1>1. OthersStay(p) /\ TimersApart(p) /\ SaveOf(p)
  BY SessionOthers, SessionRecords DEF TypeInv, SaveInv, SaveOf, Records
<1>2. CASE turn'[p] # "save"
  BY <1>1, <1>2, SaveSuffices DEF SaveOf
<1>3. CASE turn[p] = "save" /\ turn'[p] = "save"
  <2>1. TurnHolds(p)
    BY <1>3 DEF TurnHolds
  <2>2. ~TurnStep(p) /\ ~Deliver(p) /\ ~Crash(p)
    BY <1>3, Domains DEF TurnStep, DrainItems, DrainEvent, TakeFiring, BeginPauses, BeginRefuses, BeginFindsClaim,
          BeginAdmits, Begins, BeginSaves, ReleaseFiring, PrepareFiredRun, TurnEnds, FinishReads, FinishWrites,
          Deliver, Crash
  <2>3. UNCHANGED <<seen, timers, item>>
    BY <2>1, <2>2, TurnHeld DEF SessionStep, ConfirmHeldTimers
  <2> QED  BY <1>1, <1>3, <2>3, SaveSuffices DEF SaveOf
<1>4. CASE turn[p] # "save" /\ turn'[p] = "save"
  <2>1. UNCHANGED turn => FALSE
    BY <1>4
  <2>2. TurnStep(p)
    BY <2>1, LoopLeaves, PersonLeaves, GateLeaves, <1>4, Domains DEF SessionStep, Deliver, Crash
  <2>3. BeginAdmits(p)
    <3>1. ~DrainItems(p) /\ ~DrainEvent(p) /\ ~TakeFiring(p)
      BY <1>4, Domains DEF DrainItems, DrainEvent, TakeFiring
    <3>2. ~BeginPauses(p) /\ ~BeginRefuses(p) /\ ~BeginFindsClaim(p) /\ ~BeginSaves(p)
      BY <1>4, Domains DEF BeginPauses, BeginRefuses, BeginFindsClaim, Refused, BeginSaves
    <3>3. ~ReleaseFiring(p) /\ ~PrepareFiredRun(p) /\ ~TurnEnds(p) /\ ~FinishReads(p)
          /\ \A ok \in BOOLEAN : ~FinishWrites(p, ok)
      BY <1>4, Domains DEF ReleaseFiring, PrepareFiredRun, TurnEnds, FinishReads, FinishWrites
    <3> QED  BY <2>2, <3>1, <3>2, <3>3 DEF TurnStep
  <2>4. seen'[p].file = file /\ UNCHANGED timers
    BY <2>3, Domains DEF BeginAdmits, Reread
  <2>5. item'[p].id = item[p].id
    <3> DEFINE due == IF Manual(p) THEN 0 ELSE NextDue(item[p].id, Lookup(p, item[p].id))
               text == Lookup(p, item[p].id).text
    <3>1. ItemHas(p, due, text)
      BY <2>3 DEF BeginAdmits, ItemHas
    <3> HIDE DEF due, text
    <3> QED  BY <3>1, ItemWrites DEF TypeInv, TurnInv, ItemType
  <2>6. /\ item[p].id \in Recurring => file[item[p].id] # NoRec
        /\ item[p].id \in Timers => timers[item[p].id] # NoRec
    <3>1. item[p].id \in Mine(p) /\ item[p].id \in Schedules /\ Lookup(p, item[p].id) # NoRec
      BY <2>3, Admits, Constants DEF Existing
    <3> QED  BY <3>1, FindTypes DEF TypeInv
  <2> QED  BY <1>1, <2>4, <2>5, <2>6, SaveSuffices DEF SaveOf
<1> QED  BY <1>2, <1>3, <1>4

-----------------------------------------------------------------------------
(* The invariant *)

LEMMA SessionType ==
    ASSUME TypeInv, OneRule, NEW p \in Sessions, SessionStep(p)
    PROVE  TypeInv' /\ OneRule'
  BY SessionRecords, SessionClock, SessionHold, SessionLoop, SessionCall, SessionGate, SessionTurn, SessionArm,
     SessionMu, SessionSave DEF TypeInv, Records

\* What the clock and a person's editor leave alone.
LEMMA OutsideType ==
    ASSUME TypeInv, OneRule, Tick \/ (\E s \in Recurring : EditFile(s)) \/ UNCHANGED vars
    PROVE  TypeInv' /\ OneRule'
<1> USE DEF shared, sched, inbox, looping, turning, asks
<1>1. UNCHANGED <<sched, inbox, online, looping, turning, asks, ran, timers>>
  BY DEF Tick, EditFile, vars
<1>2. RecordInv'
  BY OutsideRecords DEF TypeInv
<1>3. ClockInv'
  <2>1. now' \in 1 .. End
    <3>1. now' = now \/ (now < End /\ now' = now + 1)
      BY DEF Tick, EditFile, vars
    <3> QED  BY <3>1, Constants DEF TypeInv, ClockInv
  <2> QED  BY <1>1, <2>1, ClockParts, ClockFrames DEF TypeInv
<1>4. HoldInv' /\ LoopInv' /\ CallInv' /\ GateInv'
  BY <1>1 DEF TypeInv, HoldInv, LoopInv, CallInv, GateInv, Shown
<1>5. TurnInv' /\ OneRule'
  BY <1>1 DEF TypeInv, TurnInv, OneRule, AtEvent, EventRuns
<1>6. ArmInv' /\ SaveInv'
  BY <1>1 DEF TypeInv, ArmInv, SaveInv
<1>7. Exclusive' /\ SeenLocked'
  BY <1>1 DEF TypeInv, Exclusive, SeenLocked, Locked, LoopHolds, TurnHolds, CallHolds, GateHolds
<1> QED  BY <1>2, <1>3, <1>4, <1>5, <1>6, <1>7 DEF TypeInv

LEMMA StartGate == [NoGate EXCEPT !.phase = "start"] = [phase |-> "start", gen |-> 0, shown |-> {}]
  BY DEF NoGate

LEMMA TypeInit == Init => TypeInv /\ OneRule /\ OnceInv
<1> SUFFICES ASSUME Init PROVE TypeInv /\ OneRule /\ OnceInv
  OBVIOUS
<1> USE DEF Init, Begin
<1>1. \A s \in Schedules : Record(s, Begun) \in Recs
  <2>1. (CHOOSE c \in Texts \ Frequent : TRUE) \in Texts
    BY FiringAssumption
  <2> DEFINE c == CHOOSE c \in Texts \ Frequent : TRUE
  <2>2. [NoRec EXCEPT !.state = "active", !.text = c] \in Existing
    <3>1. c \in Texts
      BY <2>1
    <3> HIDE DEF c
    <3> QED  BY <3>1, RecUpdates
  <2>3. NoRec \in Recs /\ [NoRec EXCEPT !.state = "active", !.text = c] \in Recs
    BY <2>2, RecTypes DEF Existing
  <2> QED  BY <2>3 DEF Record
<1>2. NoSeen \in Sights
  BY RecTypes DEF NoSeen, NoFile, Sights
<1>3. RecordInv
  <2>1. FileType /\ TimerType
    <3>1. \A s \in Recurring : Record(s, Begun) \in Recs
      BY <1>1, Constants
    <3>2. \A t \in Timers : Record(t, Begun) \in Recs
      BY <1>1, Constants
    <3> QED  BY <3>1, <3>2 DEF FileType, TimerType
  <2>2. ApprovalType
    <3>1. \A s \in Schedules : Record(s, Begun).text \in Texts \cup {None}
      BY <1>1, RecTypes
    <3> QED  BY <3>1 DEF ApprovalType
  <2>3. SeenType
    BY <1>2 DEF SeenType
  <2> QED  BY <2>1, <2>2, <2>3 DEF RecordInv
<1>4. ClockInv
  <2>1. now \in 1 .. End /\ 0 \in 0 .. End /\ NoPending \in [at : 0 .. End, manual : BOOLEAN]
    BY FiringAssumption, Constants DEF NoPending
  <2> QED  BY <2>1 DEF ClockInv
<1>5. HoldInv /\ LoopInv
  BY DEF HoldInv, LoopInv
<1>6. CallInv
  BY DEF CallInv, NoCall, Ops
<1>7. \A p \in Sessions : gate[p] = [phase |-> "start", gen |-> 0, shown |-> {}]
  BY StartGate
<1>8. GateInv
  <2>1. /\ gate = [p \in Sessions |-> [phase |-> "start", gen |-> 0, shown |-> {}]]
        /\ asking = [p \in Sessions |-> {}] /\ unconfirmed = [p \in Sessions |-> {}]
    BY StartGate
  <2>2. \A p \in Sessions : Shown(p) = {}
    BY <1>7 DEF Shown
  <2> QED  BY ONLY <2>1, <2>2 DEF GateInv, Gates
<1>9. TurnInv /\ ArmInv /\ OneRule
  BY DEF TurnInv, Phases, NoItem, AtEvent, Admitted, ArmInv, NoArm, OneRule, EventRuns
<1>10. \A p \in Sessions : ~LoopHolds(p) /\ ~TurnHolds(p) /\ ~CallHolds(p) /\ ~GateHolds(p)
  BY <1>7 DEF LoopHolds, TurnHolds, CallHolds, GateHolds, NoCall
<1>11. Exclusive /\ SeenLocked /\ SaveInv
  BY <1>10 DEF Exclusive, SeenLocked, SaveInv
<1>12. OnceInv
  BY DEF OnceInv, Claims, Admitted, RunsOnce
<1> QED  BY <1>3, <1>4, <1>5, <1>6, <1>8, <1>9, <1>11, <1>12 DEF TypeInv

\* Who claims an occurrence, and who runs one.
LEMMA ClaimSteps ==
    ASSUME TypeInv, NEW p \in Sessions, SessionStep(p), ~BeginAdmits(p), ~PrepareFiredRun(p)
    PROVE  /\ UNCHANGED <<claims, ran>>
           /\ Claims(p)' => Claims(p) /\ UNCHANGED <<item[p].id, item[p].due>>
<1> USE DEF shared, sched, inbox, looping, turning, asks
<1>1. CASE LoopStep(p) \/ GateStep(p) \/ GateWithdrawn(p) \/ SwitchSession(p) \/ ConfirmHeldTimers(p) \/ Deliver(p)
  <2>1. UNCHANGED <<claims, ran, turn, item>>
    BY <1>1, LoopLeaves, GateLeaves DEF Deliver
  <2> QED  BY <2>1 DEF Claims
<1>2. CASE PersonStep(p)
  <2>1. UNCHANGED <<claims, ran, turn>> /\ (Esc(p) \/ UNCHANGED item)
    BY <1>2, PersonLeaves
  <2>2. turn[p] \in Admitted => UNCHANGED item
    BY <2>1 DEF Esc, Admitted
  <2> QED  BY <2>1, <2>2 DEF Claims
<1>3. CASE Crash(p)
  BY <1>3, Domains DEF Crash, Claims, Admitted
<1>4. CASE TurnStep(p)
  <2>1. CASE BeginSaves(p) \/ (ReleaseFiring(p) /\ turn[p] = "begun")
    <3>1. UNCHANGED <<claims, ran, item>> /\ turn[p] \in Admitted
      BY <2>1 DEF BeginSaves, ReleaseFiring, Admitted
    <3> QED  BY <3>1 DEF Claims
  <2>2. CASE ~BeginSaves(p) /\ ~(ReleaseFiring(p) /\ turn[p] = "begun")
    <3>1. CASE DrainItems(p) \/ DrainEvent(p) \/ TakeFiring(p) \/ ReleaseFiring(p)
      BY <2>2, <3>1, Domains DEF DrainItems, DrainEvent, TakeFiring, ReleaseFiring, Claims, Admitted
    <3>2. CASE BeginPauses(p) \/ BeginRefuses(p) \/ BeginFindsClaim(p)
      BY <3>2, Domains DEF BeginPauses, BeginRefuses, BeginFindsClaim, Refused, Claims, Admitted
    <3>3. CASE TurnEnds(p) \/ FinishReads(p) \/ \E ok \in BOOLEAN : FinishWrites(p, ok)
      BY <3>3, Domains DEF TurnEnds, FinishReads, FinishWrites, Claims, Admitted
    <3> QED  BY <1>4, <2>2, <3>1, <3>2, <3>3 DEF TurnStep
  <2> QED  BY <2>1, <2>2
<1> QED  BY <1>1, <1>2, <1>3, <1>4 DEF SessionStep

LEMMA SessionOnce ==
    ASSUME TypeInv, OnceInv, NEW p \in Sessions, SessionStep(p)
    PROVE  OnceInv'
<1>1. OthersStay(p)
  BY SessionOthers
<1>2. \A q \in Sessions \ {p} : (Claims(q)' <=> Claims(q)) /\ UNCHANGED item[q]
  BY <1>1 DEF OthersStay, Claims
<1>3. \A q \in Sessions : Claims(q) => item[q].id \in Schedules /\ item[q].due \in 0 .. End
  BY Constants DEF TypeInv, TurnInv, AtEvent, Admitted, Claims
<1>4. ran \in [Schedules -> [0 .. End -> Nat]]
  BY DEF TypeInv, ClockInv
<1>5. CASE ~BeginAdmits(p) /\ ~PrepareFiredRun(p)
  <2>1. /\ UNCHANGED <<claims, ran>>
        /\ \A q \in Sessions : Claims(q)' => Claims(q) /\ UNCHANGED <<item[q].id, item[q].due>>
    BY <1>2, <1>5, ClaimSteps
  <2> QED  BY <2>1 DEF OnceInv, RunsOnce
<1>6. CASE BeginAdmits(p)
  <2> DEFINE s == item[p].id
             due == NextDue(s, Lookup(p, s))
             d == IF Manual(p) THEN 0 ELSE due
             c == Lookup(p, s).text
  <2>1. /\ UNCHANGED ran
        /\ claims' = IF Manual(p) THEN claims ELSE claims \cup {<<s, due>>}
        /\ ~Manual(p) => <<s, due>> \notin claims
    BY <1>6 DEF BeginAdmits
  <2>2. s \in Schedules /\ (~Manual(p) => due \in 0 .. End)
    BY <1>6, Admits, Constants
  <2>3. item'[p].id = s /\ item'[p].due = d
    <3>1. ItemHas(p, d, c)
      BY <1>6 DEF BeginAdmits, ItemHas
    <3> HIDE DEF d, c
    <3> QED  BY <3>1, ItemWrites DEF TypeInv, TurnInv, ItemType
  <2>4. Claims(p)' => ~Manual(p) /\ item'[p].due = due
    BY <2>3 DEF Claims
  <2> HIDE DEF s, due, d, c
  <2>5. ~Manual(p) => ran[s][due] = 0
    BY <2>1, <2>2 DEF OnceInv
  <2>6. ASSUME NEW q \in Sessions, Claims(q)'
        PROVE  <<item'[q].id, item'[q].due>> \in claims' /\ ran'[item'[q].id][item'[q].due] = 0
    <3>1. CASE q = p
      BY <2>1, <2>3, <2>4, <2>5, <2>6, <3>1
    <3>2. CASE q # p
      BY <1>2, <2>1, <2>6, <3>2 DEF OnceInv
    <3> QED  BY <3>1, <3>2
  <2>7. ASSUME NEW q \in Sessions \ {p}, Claims(q)', Claims(p)', item'[q].id = item'[p].id, item'[q].due = item'[p].due
        PROVE  FALSE
    <3>1. <<item[q].id, item[q].due>> \in claims
      BY <1>2, <2>7 DEF OnceInv
    <3>2. item[q].id = s /\ item[q].due = due
      BY <1>2, <2>3, <2>4, <2>7
    <3> QED  BY <2>1, <2>4, <2>7, <3>1, <3>2
  <2>8. ASSUME NEW q \in Sessions, NEW r \in Sessions, Claims(q)', Claims(r)',
               item'[q].id = item'[r].id, item'[q].due = item'[r].due
        PROVE  q = r
    <3>1. CASE q # p /\ r # p
      BY <1>2, <2>8, <3>1 DEF OnceInv
    <3> QED  BY <2>7, <2>8, <3>1
  <2>9. \A t \in Schedules, e \in 0 .. End : ran'[t][e] # 0 => <<t, e>> \in claims'
    BY <2>1 DEF OnceInv
  <2>10. RunsOnce'
    BY <2>1 DEF OnceInv, RunsOnce
  <2> QED  BY <2>6, <2>8, <2>9, <2>10 DEF OnceInv
<1>7. CASE PrepareFiredRun(p)
  <2> DEFINE s == item[p].id
             d == item[p].due
  <2>1. /\ turn[p] = "prepare" /\ turn' = [turn EXCEPT ![p] = "running"]
        /\ UNCHANGED <<claims, item>>
        /\ ran' = IF d = 0 THEN ran ELSE [ran EXCEPT ![s][d] = @ + 1]
    BY <1>7 DEF PrepareFiredRun, shared, sched, inbox, looping, asks
  <2>2. ~Claims(p)' /\ (d # 0 => Claims(p))
    BY <2>1, Domains DEF Claims, Admitted
  <2>3. CASE d = 0
    <3>1. /\ UNCHANGED <<claims, ran>>
          /\ \A q \in Sessions : Claims(q)' => Claims(q) /\ UNCHANGED <<item[q].id, item[q].due>>
      BY <1>2, <2>1, <2>2, <2>3
    <3> QED  BY <3>1 DEF OnceInv, RunsOnce
  <2>4. CASE d # 0
    <3>1. s \in Schedules /\ d \in 0 .. End /\ <<s, d>> \in claims /\ ran[s][d] = 0
      BY <1>3, <2>2, <2>4 DEF OnceInv
    <3>2. ran'[s][d] = 1 /\ \A t \in Schedules, e \in 0 .. End : t # s \/ e # d => ran'[t][e] = ran[t][e]
      <4> HIDE DEF s, d
      <4> DEFINE f == ran[s]
                 n == f[d] + 1
      <4>1. f \in [0 .. End -> Nat] /\ f[d] = 0
        BY <1>4, <3>1
      <4>2. ran' = [ran EXCEPT ![s] = [f EXCEPT ![d] = n]]
        BY <1>4, <2>1, <2>4, <3>1
      <4> HIDE DEF f
      <4>3. n = 1
        BY <4>1
      <4> HIDE DEF n
      <4>4. ran'[s] = [f EXCEPT ![d] = n] /\ \A t \in Schedules : t # s => ran'[t] = ran[t]
        BY <1>4, <3>1, <4>2
      <4>5. ran'[s][d] = 1 /\ \A e \in 0 .. End : e # d => ran'[s][e] = f[e]
        BY <3>1, <4>1, <4>3, <4>4
      <4> QED  BY <4>4, <4>5 DEF f
    <3>3. \A q \in Sessions : Claims(q)' => q # p /\ Claims(q)
      BY <1>2, <2>2
    <3>4. \A q \in Sessions : Claims(q)' => item[q].id # s \/ item[q].due # d
      BY <2>2, <2>4, <3>3 DEF OnceInv
    <3> HIDE DEF s, d
    <3>5. \A q \in Sessions : Claims(q)' =>
            <<item'[q].id, item'[q].due>> \in claims' /\ ran'[item'[q].id][item'[q].due] = 0
      BY <1>3, <2>1, <3>2, <3>3, <3>4 DEF OnceInv
    <3>6. \A q, r \in Sessions :
            Claims(q)' /\ Claims(r)' /\ item'[q].id = item'[r].id /\ item'[q].due = item'[r].due => q = r
      BY <2>1, <3>3 DEF OnceInv
    <3>7. \A t \in Schedules, e \in 0 .. End : ran'[t][e] # 0 => <<t, e>> \in claims'
      BY <2>1, <3>1, <3>2 DEF OnceInv
    <3>8. RunsOnce'
      BY <3>1, <3>2 DEF OnceInv, RunsOnce
    <3> QED  BY <3>5, <3>6, <3>7, <3>8 DEF OnceInv
  <2> QED  BY <2>3, <2>4
<1> QED  BY <1>5, <1>6, <1>7

LEMMA InvStep == Inv /\ [Next]_vars => Inv'
<1> SUFFICES ASSUME Inv, [Next]_vars PROVE Inv'
  OBVIOUS
<1>1. TypeInv /\ OneRule /\ OnceInv
  BY DEF Inv
<1>2. ASSUME NEW p \in Sessions, SessionStep(p) PROVE Inv'
  BY <1>1, <1>2, SessionType, SessionOnce DEF Inv
<1>3. CASE Tick \/ (\E s \in Recurring : EditFile(s)) \/ UNCHANGED vars
  <2>1. UNCHANGED <<claims, ran, turn, item>>
    BY <1>3 DEF Tick, EditFile, vars, shared, turning
  <2>2. OnceInv'
    BY <1>1, <2>1 DEF OnceInv, Claims, RunsOnce
  <2> QED  BY <1>1, <1>3, <2>2, OutsideType DEF Inv
<1> QED  BY <1>2, <1>3 DEF Next, SessionStep

-----------------------------------------------------------------------------
(* What follows of a state *)

LEMMA OneHolder == ASSUME TypeInv, NEW p \in Sessions
    PROVE  Cardinality({x \in {"loop", "turn", "call", "gate"} :
             \/ x = "loop" /\ loop[p] \in {"settle", "decide"}
             \/ x = "turn" /\ turn[p] \in {"save", "record"}
             \/ x = "call" /\ call[p].op \in {"pausing", "cancelling", "resuming", "adding"}
             \/ x = "gate" /\ gate[p].phase \in {"showing", "yes", "no"}}) <= 1
<1> DEFINE H == {x \in {"loop", "turn", "call", "gate"} :
             \/ x = "loop" /\ loop[p] \in {"settle", "decide"}
             \/ x = "turn" /\ turn[p] \in {"save", "record"}
             \/ x = "call" /\ call[p].op \in {"pausing", "cancelling", "resuming", "adding"}
             \/ x = "gate" /\ gate[p].phase \in {"showing", "yes", "no"}}
<1>1. /\ LoopHolds(p) => ~TurnHolds(p) /\ ~CallHolds(p) /\ ~GateHolds(p)
      /\ TurnHolds(p) => ~CallHolds(p) /\ ~GateHolds(p)
      /\ CallHolds(p) => ~GateHolds(p)
  BY DEF TypeInv, Exclusive
<1>2. \A x, y \in H : x = y
  BY <1>1 DEF LoopHolds, TurnHolds, CallHolds, GateHolds
<1> HIDE DEF H
<1>3. CASE H = {}
  <2>1. Cardinality(H) = 0
    BY <1>3, FS_EmptySet
  <2> QED  BY <2>1 DEF H
<1>4. CASE H # {}
  <2>1. PICK x : x \in H
    BY <1>4
  <2>2. H = {x}
    BY <1>2, <2>1
  <2>3. Cardinality(H) = 1
    BY <2>2, FS_Singleton
  <2> QED  BY <2>3 DEF H
<1> QED  BY <1>3, <1>4

LEMMA TypeGives == TypeInv => TypeOK
<1> SUFFICES ASSUME TypeInv PROVE TypeOK
  OBVIOUS
<1>1. now \in 1 .. End /\ file \in [Recurring -> Recs] /\ timers \in [Timers -> Recs] /\ saved \in [Timers -> Recs]
      /\ approvals \in [Schedules -> Texts \cup {None}]
  BY DEF TypeInv, ClockInv, RecordInv, FileType, TimerType, ApprovalType
<1>2. loop \in [Sessions -> {"off", "idle", "settle", "decide", "fire"}] /\ turn \in [Sessions -> Phases]
  BY DEF TypeInv, LoopInv, TurnInv
<1>3. ASSUME NEW p \in Sessions
      PROVE  /\ seen[p].file \in [Recurring -> Recs]
             /\ ~Locked(p) => seen[p] = NoSeen
             /\ loop[p] # "fire" => picks[p] = {}
             /\ asking[p] \subseteq Shown(p)
  <2>1. seen[p].file \in [Recurring -> Recs]
    BY DEF TypeInv, RecordInv, SeenType, Sights
  <2> QED  BY <2>1 DEF TypeInv, SeenLocked, LoopInv, GateInv
<1> QED  BY <1>1, <1>2, <1>3, OneHolder DEF TypeOK

\* The pass takes no event on its way to its turn for a dropped one: it is
\* armed.
LEMMA SettlesSpare ==
    ASSUME Inv, NEW p \in Sessions, LoopSettles(p), turn[p] \in {"request", "begin"}, item[p].id \in Schedules
    PROVE  pending'[p][item[p].id] = pending[p][item[p].id]
<1> DEFINE s == item[p].id
           dropped == {t \in Schedules : Pending(p, t) /\ t \notin queued[p] /\ armed[p].id # t}
<1>1. s \in Schedules /\ s \notin dropped
  BY DEF Inv, TypeInv, ArmInv
<1>2. pending' = [pending EXCEPT ![p] = [t \in Schedules |-> IF t \in dropped THEN NoPending ELSE @[t]]]
  BY DEF LoopSettles
<1> HIDE DEF s, dropped
<1> QED  BY <1>1, <1>2, Domains DEF Inv, s

-----------------------------------------------------------------------------
(* Firing keeps EventPromise *)

Shows == [q \in Sessions |-> Showing(q)]
Runs == [q \in Sessions |-> Unattended(q)]

LEMMA ShowsTyped == Inv' => \A p \in Sessions : Showing(p)' \in SUBSET (Schedules \X Texts)
<1> SUFFICES ASSUME Inv', NEW p \in Sessions PROVE Showing(p)' \in SUBSET (Schedules \X Texts)
  OBVIOUS
<1>1. gate'[p].shown \in SUBSET (Schedules \X Texts)
  BY DEF Inv, TypeInv, GateInv
<1>2. call'[p].op \in {"resume?", "resuming", "add?", "adding"} => call'[p].id \in Schedules /\ call'[p].text \in Texts
  BY Constants DEF Inv, TypeInv, CallInv
<1> QED  BY <1>1, <1>2 DEF Showing

LEMMA OthersMap ==
    ASSUME NEW p \in Sessions, OthersStay(p)
    PROVE  /\ Shows' = [Shows EXCEPT ![p] = Showing(p)'] /\ Runs' = [Runs EXCEPT ![p] = Unattended(p)']
           /\ UNCHANGED Showing(p) => UNCHANGED Shows
           /\ UNCHANGED Unattended(p) => UNCHANGED Runs
<1>1. \A q \in Sessions \ {p} : Showing(q)' = Showing(q)
  BY DEF OthersStay, Showing
<1>2. \A q \in Sessions \ {p} : Unattended(q)' = Unattended(q)
  BY DEF OthersStay, Unattended
<1> QED  BY <1>1, <1>2 DEF Shows, Runs

\* A step that admits nothing, ends no turn and gives no consent is a
\* question, perhaps the same as before.
LEMMA Asks ==
    ASSUME NEW p \in Sessions, OthersStay(p), ApprovalType', Showing(p)' \in SUBSET (Schedules \X Texts),
           \A s \in Schedules : approvals'[s] \in {approvals[s], None}, UNCHANGED Unattended(p)
    PROVE  Promise!Next
<1>1. Shows' = [Shows EXCEPT ![p] = Showing(p)'] /\ UNCHANGED Runs
  BY OthersMap
<1>2. Promise!Ask(p)
  BY <1>1 DEF Promise!Ask, Promise!Narrows, ApprovalType, Shows, Runs
<1> QED  BY <1>2 DEF Promise!Next

LEMMA Answers ==
    ASSUME NEW p \in Sessions, OthersStay(p), ApprovalType', Showing(p)' \subseteq Showing(p),
           \A s \in Schedules : approvals'[s] \in {approvals[s], None} \cup {c \in Texts : <<s, c>> \in Showing(p)},
           UNCHANGED Unattended(p)
    PROVE  Promise!Next
<1>1. Shows' = [Shows EXCEPT ![p] = Showing(p)'] /\ UNCHANGED Runs /\ Shows[p] = Showing(p)
  BY OthersMap DEF Shows
<1>2. Promise!Answer(p)
  BY <1>1 DEF Promise!Answer, ApprovalType, Shows, Runs
<1> QED  BY <1>2 DEF Promise!Next

LEMMA AdmitsOne ==
    ASSUME NEW p \in Sessions, OthersStay(p), NEW s \in Schedules, approvals[s] # None,
           Unattended(p) = None, Unattended(p)' = [id |-> s, text |-> approvals[s]],
           UNCHANGED approvals, UNCHANGED Showing(p)
    PROVE  Promise!Next
<1>1. UNCHANGED Shows /\ Runs[p] = None /\ Runs' = [Runs EXCEPT ![p] = [id |-> s, text |-> approvals[s]]]
  BY OthersMap DEF Runs
<1>2. Promise!Admit(p)
  BY <1>1 DEF Promise!Admit, Shows, Runs
<1> QED  BY <1>2 DEF Promise!Next

LEMMA Leaves ==
    ASSUME NEW p \in Sessions, OthersStay(p), Unattended(p)' = None, Showing(p)' \in {Showing(p), {}},
           UNCHANGED approvals
    PROVE  Promise!Next
<1>1. Runs' = [Runs EXCEPT ![p] = None] /\ Shows' \in {Shows, [Shows EXCEPT ![p] = {}]}
  <2>1. Shows' = [Shows EXCEPT ![p] = Showing(p)'] /\ Runs' = [Runs EXCEPT ![p] = Unattended(p)']
        /\ (UNCHANGED Showing(p) => UNCHANGED Shows)
    BY OthersMap
  <2> QED  BY <2>1
<1>2. Promise!Leave(p)
  BY <1>1 DEF Promise!Leave, Shows, Runs
<1> QED  BY <1>2 DEF Promise!Next

Narrowed == \A s \in Schedules : approvals'[s] \in {approvals[s], None}

LEMMA Revoked ==
    ASSUME ApprovalType
    PROVE  /\ UNCHANGED approvals => Narrowed
           /\ \A T : Revoke(T) => Narrowed
  BY RevokeTypes DEF Narrowed

LEMMA TurnPromise ==
    ASSUME Inv, Inv', NEW p \in Sessions, TurnStep(p)
    PROVE  Promise!Next
<1> USE DEF shared, sched, inbox, looping, turning, asks
<1>1. /\ OthersStay(p) /\ ApprovalType /\ ApprovalType' /\ TurnOf(p)
      /\ Showing(p)' \in SUBSET (Schedules \X Texts)
  BY TurnOthers, TurnParts, ShowsTyped DEF Inv, TypeInv, RecordInv
<1>2. UNCHANGED Showing(p)
  BY TurnLeaves DEF Showing
<1>3. ASSUME Narrowed, UNCHANGED Unattended(p) PROVE Promise!Next
  BY <1>1, <1>3, Asks DEF Narrowed
<1>4. ASSUME turn[p] \in {"idle", "drain", "request", "begin", "refused", "finish", "record"},
             \/ turn'[p] \in {"idle", "drain", "request", "begin", "refused", "finish", "record"}
             \/ turn'[p] = "running" /\ item'[p].grants = None
      PROVE  UNCHANGED Unattended(p)
  BY <1>4 DEF Unattended
<1>5. CASE DrainItems(p) \/ DrainEvent(p)
  BY <1>1, <1>3, <1>4, <1>5, Revoked, Domains DEF DrainItems, DrainEvent, Inv
<1>6. CASE TakeFiring(p)
  BY <1>1, <1>3, <1>4, <1>6, Revoked, Domains DEF TakeFiring, TurnOf, Inv
<1>7. CASE BeginPauses(p) \/ BeginRefuses(p) \/ BeginFindsClaim(p)
  <2>1. turn[p] = "begin" /\ turn'[p] = "refused"
    BY <1>7, Domains DEF BeginPauses, BeginRefuses, BeginFindsClaim, Begins, Refused, Inv
  <2>2. Revoke({item[p].id}) \/ UNCHANGED approvals
    BY <1>7 DEF BeginPauses, BeginRefuses, BeginFindsClaim
  <2> QED  BY <1>1, <1>3, <1>4, <2>1, <2>2, Revoked
<1>8. CASE BeginAdmits(p)
  <2> DEFINE s == item[p].id
             due == IF Manual(p) THEN 0 ELSE NextDue(s, Lookup(p, s))
             c == Lookup(p, s).text
  <2>1. /\ turn[p] = "begin" /\ turn'[p] = "save" /\ ItemHas(p, due, c) /\ s \in Schedules
        /\ approvals[s] = c /\ UNCHANGED approvals
    BY <1>8, Domains DEF BeginAdmits, Begins, Admissible, Approved, ItemHas, Inv
  <2>2. c # None
    BY <1>8, Admits, RecTypes, Constants DEF Inv
  <2> HIDE DEF s, due, c
  <2>3. item'[p].id = s /\ item'[p].grants = c
    BY <2>1, ItemWrites DEF Inv, TypeInv, TurnInv, ItemType, s
  <2>4. Unattended(p) = None /\ Unattended(p)' = [id |-> s, text |-> approvals[s]]
    BY <2>1, <2>2, <2>3 DEF Unattended
  <2> QED  BY <1>1, <1>2, <2>1, <2>2, <2>4, AdmitsOne
<1>9. CASE BeginSaves(p) \/ PrepareFiredRun(p) \/ (ReleaseFiring(p) /\ turn[p] = "begun")
  <2>1. /\ turn[p] \in Admitted /\ turn'[p] \in {"begun", "prepare", "running"} /\ UNCHANGED <<item, approvals>>
    BY <1>9, Domains DEF BeginSaves, PrepareFiredRun, ReleaseFiring, Admitted, Inv
  <2>2. UNCHANGED Unattended(p)
    BY <2>1 DEF Unattended, Admitted
  <2> QED  BY <1>1, <1>3, <2>1, <2>2, Revoked
<1>10. CASE FinishReads(p) \/ (ReleaseFiring(p) /\ turn[p] # "begun")
  BY <1>1, <1>3, <1>4, <1>10, Revoked, Domains DEF FinishReads, ReleaseFiring, Inv
<1>11. CASE TurnEnds(p)
  <2>1. turn'[p] \in {"finish", "idle"} /\ UNCHANGED approvals
    BY <1>11, Domains DEF TurnEnds, Inv
  <2>2. Unattended(p)' = None
    BY <2>1 DEF Unattended
  <2> QED  BY <1>1, <1>2, <2>1, <2>2, Leaves
<1>12. CASE \E ok \in BOOLEAN : FinishWrites(p, ok)
  <2>1. turn[p] = "record" /\ turn'[p] = "idle"
    BY <1>12, Domains DEF FinishWrites, Inv
  <2>2. UNCHANGED approvals \/ \E T : Revoke(T)
    BY <1>12 DEF FinishWrites
  <2> QED  BY <1>1, <1>3, <1>4, <2>1, <2>2, Revoked
<1> QED  BY <1>5, <1>6, <1>7, <1>8, <1>9, <1>10, <1>11, <1>12 DEF TurnStep

\* A yes to a resume or an addition covers what was shown.
LEMMA CallPromise ==
    ASSUME Inv, Inv', NEW p \in Sessions, ResumeWrites(p) \/ AddWrites(p)
    PROVE  Promise!Next
<1> USE DEF shared, sched, inbox, looping, turning, asks
<1> DEFINE s == call[p].id
           c == call[p].text
<1>1. OthersStay(p) /\ ApprovalType /\ ApprovalType'
  BY PersonOthers DEF Inv, TypeInv, RecordInv, PersonStep, CallWrites
<1>2. /\ call[p].op \in {"resuming", "adding"} /\ call'[p] = NoCall
      /\ UNCHANGED <<gate, turn, item>>
  BY Domains DEF ResumeWrites, AddWrites, Inv
<1>3. s \in Schedules /\ c \in Texts
  BY <1>2, Constants DEF Inv, TypeInv, CallInv
<1>4. <<s, c>> \in Showing(p) /\ Showing(p)' \subseteq Showing(p) /\ UNCHANGED Unattended(p)
  BY <1>2 DEF Showing, Unattended, NoCall
<1>5. UNCHANGED approvals \/ approvals' = [approvals EXCEPT ![s] = c]
  <2>1. CASE ResumeWrites(p)
    BY <2>1 DEF ResumeWrites
  <2>2. CASE AddWrites(p)
    BY <2>2 DEF AddWrites
  <2> QED  BY <2>1, <2>2
<1> HIDE DEF s, c
<1>6. \A t \in Schedules : approvals'[t] \in {approvals[t], None} \cup {k \in Texts : <<t, k>> \in Showing(p)}
  BY <1>1, <1>3, <1>4, <1>5 DEF ApprovalType
<1> QED  BY <1>1, <1>4, <1>6, Answers

LEMMA PersonPromise ==
    ASSUME Inv, Inv', NEW p \in Sessions, PersonStep(p)
    PROVE  Promise!Next
<1> USE DEF shared, sched, inbox, looping, turning, asks
<1>1. /\ OthersStay(p) /\ ApprovalType /\ ApprovalType' /\ Showing(p)' \in SUBSET (Schedules \X Texts)
  BY PersonOthers, ShowsTyped DEF Inv, TypeInv, RecordInv
<1>2. UNCHANGED Unattended(p)
  <2>1. UNCHANGED turn /\ (Esc(p) \/ UNCHANGED item)
    BY PersonLeaves
  <2>2. turn[p] = "request" \/ UNCHANGED item
    BY <2>1 DEF Esc
  <2> QED  BY <2>1, <2>2 DEF Unattended
<1>3. Narrowed => Promise!Next
  BY <1>1, <1>2, Asks DEF Narrowed
<1>4. CASE ResumeWrites(p) \/ AddWrites(p)
  BY <1>4, CallPromise
<1>5. CASE NarrowWrites(p)
  <2>1. UNCHANGED approvals \/ \E T : Revoke(T)
    BY <1>5 DEF NarrowWrites
  <2> QED  BY <1>1, <1>3, <2>1, Revoked
<1>6. CASE LineComes(p) \/ Esc(p) \/ RunFires(p) \/ \E yes \in BOOLEAN : PromptAnswered(p, yes) \/ GateAnswered(p, yes)
  <2>1. UNCHANGED approvals
    BY <1>6 DEF LineComes, Esc, RunFires, PromptAnswered, GateAnswered, Reading
  <2> QED  BY <1>1, <1>3, <2>1, Revoked
<1>7. CASE \E s \in Schedules : \/ DropEvent(p, s) \/ RunAsked(p, s) \/ Narrows(p, s)
                                \/ ResumeAsks(p, s) \/ \E c \in Texts : AddAsks(p, s, c)
  <2>1. UNCHANGED approvals
    BY <1>7 DEF DropEvent, RunAsked, Narrows, ResumeAsks, AddAsks, Reading
  <2> QED  BY <1>1, <1>3, <2>1, Revoked
<1> QED  BY <1>4, <1>5, <1>6, <1>7 DEF PersonStep, CallWrites

\* What the startup prompt approves is what it showed.
LEMMA DecidesPromise ==
    ASSUME Inv, Inv', NEW p \in Sessions, GateDecides(p)
    PROVE  Promise!Next
<1> USE DEF shared, sched, inbox, looping, turning, asks
<1> DEFINE live == {s \in Shown(p) : /\ Find(p, s).state = "active"
                                     /\ gate[p].gen # 0 => held[p][s] = gate[p].gen}
           fit == {s \in live : gate[p].phase = "yes" /\ Find(p, s).text \notin Frequent}
           same == {s \in fit : <<s, Find(p, s).text>> \in gate[p].shown}
<1>1. /\ OthersStay(p) /\ ApprovalType /\ ApprovalType'
      /\ gate[p].shown \in SUBSET (Schedules \X Texts)
  BY GateOthers DEF Inv, TypeInv, RecordInv, GateInv, GateStep
<1>2. gate'[p] = NoGate /\ UNCHANGED <<call, turn, item>>
  BY Domains DEF GateDecides, Inv
<1>3. Showing(p)' \subseteq Showing(p) /\ gate[p].shown \subseteq Showing(p) /\ UNCHANGED Unattended(p)
  BY <1>2 DEF Showing, Unattended, NoGate
<1>4. PICK kept \in SUBSET same :
        approvals' = [s \in Schedules |-> IF s \in live \ (kept \cup (fit \ same)) THEN None
                                          ELSE IF s \in kept THEN Find(p, s).text ELSE approvals[s]]
  BY DEF GateDecides
<1>5. \A s \in kept : <<s, Find(p, s).text>> \in gate[p].shown
  BY <1>4
<1> HIDE DEF live, fit, same
<1>6. \A s \in kept : <<s, Find(p, s).text>> \in Showing(p) /\ Find(p, s).text \in Texts
  BY <1>1, <1>3, <1>5
<1>7. \A s \in Schedules : approvals'[s] \in {approvals[s], None} \cup {c \in Texts : <<s, c>> \in Showing(p)}
  BY <1>4, <1>6
<1> QED  BY <1>1, <1>3, <1>7, Answers

LEMMA OtherPromise ==
    ASSUME Inv, Inv', NEW p \in Sessions,
           \/ LoopStep(p) \/ Deliver(p) \/ GateReads(p) \/ GateShows(p) \/ GateWithdrawn(p)
           \/ SwitchSession(p) \/ ConfirmHeldTimers(p)
    PROVE  Promise!Next
<1> USE DEF shared, sched, inbox, looping, turning, asks
<1>1. /\ OthersStay(p) /\ ApprovalType /\ ApprovalType' /\ Showing(p)' \in SUBSET (Schedules \X Texts)
  BY SessionOthers, ShowsTyped DEF Inv, TypeInv, RecordInv, SessionStep, GateStep
<1>2. UNCHANGED <<turn, item>>
  BY LoopLeaves, GateLeaves DEF Deliver, GateStep
<1>3. UNCHANGED Unattended(p)
  BY <1>2 DEF Unattended
<1>4. UNCHANGED approvals \/ \E T : Revoke(T)
  BY DEF LoopStep, LoopReads, LoopSettles, LoopDecides, LoopFires, Deliver, GateReads, GateShows, GateWithdrawn,
         SwitchSession, ConfirmHeldTimers
<1>5. Narrowed
  BY <1>1, <1>4, Revoked
<1> QED  BY <1>1, <1>3, <1>5, Asks DEF Narrowed

LEMMA CrashPromise ==
    ASSUME Inv, NEW p \in Sessions, Crash(p)
    PROVE  Promise!Next
<1>1. OthersStay(p)
  BY SessionOthers DEF Inv, SessionStep
<1>2. /\ turn'[p] = "idle" /\ call'[p] = NoCall /\ gate'[p] = [phase |-> "start", gen |-> 0, shown |-> {}]
      /\ UNCHANGED approvals
  <2>1. turn'[p] = "idle" /\ call'[p] = NoCall /\ gate'[p] = [NoGate EXCEPT !.phase = "start"] /\ UNCHANGED approvals
    BY Domains DEF Crash, Inv, shared
  <2> QED  BY <2>1, StartGate
<1>3. Unattended(p)' = None /\ Showing(p)' = {}
  BY <1>2 DEF Unattended, Showing, NoCall
<1> QED  BY <1>1, <1>2, <1>3, Leaves

LEMMA PromiseStep == Inv /\ Inv' /\ [Next]_vars => [Promise!Next]_(Promise!promised)
<1> SUFFICES ASSUME Inv, Inv', [Next]_vars PROVE Promise!Next \/ UNCHANGED <<approvals, Shows, Runs>>
  BY DEF Promise!promised, Shows, Runs
<1>1. ASSUME NEW p \in Sessions, SessionStep(p) PROVE Promise!Next
  BY <1>1, TurnPromise, PersonPromise, DecidesPromise, OtherPromise, CrashPromise DEF SessionStep, GateStep
<1>2. CASE Tick \/ (\E s \in Recurring : EditFile(s)) \/ UNCHANGED vars
  <2>1. UNCHANGED <<approvals, gate, call, turn, item>>
    BY <1>2 DEF Tick, EditFile, vars, shared, turning, asks
  <2> QED  BY <2>1 DEF Shows, Runs, Showing, Unattended
<1> QED  BY <1>1, <1>2 DEF Next, SessionStep

LEMMA PromiseInit == Init => Promise!Init
<1> SUFFICES ASSUME Init PROVE Promise!Init
  OBVIOUS
<1>1. approvals \in [Schedules -> Texts \cup {None}]
  BY TypeInit DEF TypeInv, RecordInv, ApprovalType
<1>2. \A p \in Sessions : Showing(p) = {} /\ Unattended(p) = None
  <2> SUFFICES ASSUME NEW p \in Sessions PROVE Showing(p) = {} /\ Unattended(p) = None
    OBVIOUS
  <2>1. gate[p] = [NoGate EXCEPT !.phase = "start"] /\ call[p] = NoCall /\ turn[p] = "idle"
    BY DEF Init, Begin
  <2>2. gate[p].shown = {}
    BY <2>1, StartGate
  <2> QED  BY <2>1, <2>2 DEF Showing, Unattended, NoCall
<1> QED  BY <1>1, <1>2 DEF Promise!Init

-----------------------------------------------------------------------------
(* What holds throughout *)

LEMMA InvHolds == Spec => []Inv
<1>1. Init => Inv
  BY TypeInit DEF Inv
<1> QED  BY <1>1, InvStep, PTL DEF Spec

\* mu has one holder at a time in each session, what a section has read is
\* forgotten when it lets go, and what a prompt keeps out of the loop is what
\* it shows (scheduler.mu in schedules.go).
THEOREM TypeCorrect == Spec => []TypeOK
<1>1. Inv => TypeOK
  BY TypeGives DEF Inv
<1> QED  BY <1>1, InvHolds, PTL

\* An occurrence runs unasked at most once, whichever sessions find it due and
\* whoever is killed on the way (claimLocked in schedules.go).
THEOREM OccurrenceRunsOnce == Spec => []RunsOnce
<1>1. Inv => RunsOnce
  BY DEF Inv, OnceInv
<1> QED  BY <1>1, InvHolds, PTL

\* The allowance of an event is in force exactly while its request runs
\* (Tools.Fired in agent.go).
THEOREM AllowanceIsForEvents == Spec => []OneRule
<1>1. Inv => OneRule
  BY DEF Inv
<1> QED  BY <1>1, InvHolds, PTL

\* A pass of the loop never settles as dropped an event that is on its way to
\* its turn (settleDroppedLocked in schedules.go, takeFiring in inbox.go).
THEOREM ArmedEventIsKept == Spec => EventKept
<1> DEFINE A == \A p \in Sessions :
                  LoopSettles(p) /\ turn[p] \in {"request", "begin"} /\ item[p].id \in Schedules
                    => pending'[p][item[p].id] = pending[p][item[p].id]
<1>1. Inv /\ [Next]_vars => [A]_vars
  BY SettlesSpare
<1>2. Spec => [][A]_vars
  BY <1>1, InvHolds, PTL DEF Spec
<1> QED  BY <1>2 DEF EventKept

\* Firing implements EventPromise: whatever runs unattended runs the content
\* somebody was shown and agreed to, and a yes covers what was shown.
THEOREM PromiseIsKept == Spec => KeepsPromise
  BY InvHolds, PromiseInit, PromiseStep, PTL DEF Spec, KeepsPromise, Promise!Spec
=============================================================================
