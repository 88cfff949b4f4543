------------------------------ MODULE MCFiring ------------------------------
(* Instances of Firing for TLC. *)
EXTENDS Firing, TLC

HomeA  == [t \in Timers |-> CHOOSE p \in Confirming : TRUE]
Every1 == [s \in Recurring |-> 1]
At1    == [t \in Timers |-> 1]

\* Several situations in one run: a behaviour of MCSpec is one of Firing in
\* which only the sessions, schedules and events of its scenario take part.
VARIABLE scenario
Scenarios ==
    {[who |-> Sessions, callers |-> {}, begun |-> Recurring, add |-> {},
      may |-> {"crash"}, lines |-> 0, end |-> 1],
     [who |-> Sessions, callers |-> {}, begun |-> Recurring, add |-> {},
      may |-> {}, lines |-> 0, end |-> 2],
     [who |-> Sessions \ Confirming, callers |-> {}, begun |-> Recurring, add |-> {},
      may |-> {"crash"}, lines |-> 0, end |-> 2],
     [who |-> Sessions, callers |-> Sessions \ Confirming, begun |-> Recurring, add |-> {},
      may |-> {"pause", "resume"}, lines |-> 0, end |-> 1],
     [who |-> Confirming, callers |-> Confirming, begun |-> Recurring, add |-> {},
      may |-> {"edit", "resume", "fail"}, lines |-> 0, end |-> 2],
     [who |-> Confirming, callers |-> {}, begun |-> Timers, add |-> {},
      may |-> {"switch", "crash", "withdraw", "esc", "run"}, lines |-> 0, end |-> 2],
     [who |-> Sessions \ Confirming, callers |-> Sessions, begun |-> Recurring, add |-> Schedules,
      may |-> {"cancel", "pause", "delete"}, lines |-> 0, end |-> 1],
     [who |-> Confirming, callers |-> {}, begun |-> Recurring, add |-> {},
      may |-> {"drop", "esc", "offline"}, lines |-> 1, end |-> 2]}

MCInit ==
    /\ scenario \in Scenarios
    /\ Begin(scenario.begun)
    /\ "offline" \in scenario.may \/ online = [p \in Sessions |-> TRUE]
Only(e, A) == e \notin scenario.may => ~A
MCNext ==
    /\ Next
    /\ \A p \in Sessions \ scenario.who : gate[p] = gate'[p] /\ queue'[p] = <<>> /\ turn'[p] = "idle"
    /\ \A p \in Sessions \ scenario.callers : call'[p].op \in {"none", "run"}
    /\ \A p \in Sessions : call'[p].op = "add?" => call'[p].id \in scenario.add
    /\ \A p \in Sessions : Cardinality({k \in DOMAIN queue'[p] : IsLine(queue'[p][k])}) <= scenario.lines
    /\ now' <= scenario.end
    /\ Only("crash", \E p \in Sessions : Crash(p))
    /\ Only("edit", file' # file /\ \E s \in Recurring : file'[s] # NoRec /\ EditFile(s))
    /\ Only("delete", file' # file /\ \E s \in Recurring : file'[s] = NoRec /\ EditFile(s))
    /\ Only("switch", \E p \in Sessions : SwitchSession(p))
    /\ Only("drop", \E p \in Sessions, s \in Schedules : DropEvent(p, s))
    /\ Only("esc", \E p \in Sessions : Esc(p))
    /\ Only("withdraw", \E p \in Sessions : GateWithdrawn(p))
    /\ Only("fail", \E p \in Sessions : ~FinishWrites(p, TRUE) /\ FinishWrites(p, FALSE))
    /\ \A p \in Sessions : /\ Only("pause", call'[p].op = "pausing")
                          /\ Only("cancel", call'[p].op = "cancelling")
                          /\ Only("resume", call'[p].op = "resume?")
                          /\ Only("run", call'[p].op = "run")
                          /\ Only("offline", ~online'[p])
    /\ UNCHANGED scenario
MCSpec == MCInit /\ [][MCNext]_<<vars, scenario>>
=============================================================================
