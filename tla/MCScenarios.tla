---------------------------- MODULE MCScenarios ----------------------------
(* Several situations of SubAgents in one run of TLC. *)
EXTENDS MCSubAgents

\* A behaviour of MCSpec is one of SubAgents in which only the steps, callers
\* and events of its scenario take part, on at most so many goroutines at a
\* time.  A step left out was done before; a caller left out makes no call but
\* the one of first.
VARIABLE scenario
Calls(todo, first, gated, who, may, runners) ==
    [todo |-> todo, first |-> first, gated |-> gated, who |-> who, may |-> may, runners |-> runners]
Scenarios ==
    {Calls({1, 2}, Schedulers, {}, Schedulers \cup Firers, {}, 2),
     Calls({1}, Schedulers, {}, Scopers, {"ask"}, 1),
     Calls({1}, Schedulers, {}, {3} \cup Stoppers, {"stop"}, 2),
     Calls({1}, Schedulers, {}, Assigners, {"ask"}, 2),
     Calls({1}, {}, Gates, Assigners \cup Gates \cup Starters, {}, 1),
     Calls({1}, Schedulers, {}, Jobs, {"edit"}, 1),
     Calls({1}, {}, {}, Jobs, {"panic", "crash", "edit"}, 2),
     Calls({1}, {}, Gates, Jobs \cup Gates, {"panic", "crash"}, 2),
     Calls({1}, {}, Gates, {4} \cup Gates, {"crash", "edit"}, 2)}

MCInit ==
    /\ scenario \in Scenarios
    /\ Begin(scenario.todo, scenario.first, scenario.gated)
MCNext ==
    /\ Next
    /\ \A p \in Procs \ (Runners \cup scenario.who) : pc[p] = "idle" => pc'[p] = "idle"
    /\ \A i \in Steps \ scenario.todo : \A p \in Callers : arg'[p].id # i
    /\ "ask" \notin scenario.may => \A g \in Runners : ~run'[g].question
    /\ "stop" \notin scenario.may => \A g \in Runners : ~run'[g].stopped
    /\ "crash" \notin scenario.may => ~Crash
    /\ step' # step => \A i \in IF "edit" \in scenario.may THEN Steps \ scenario.todo ELSE Steps :
                           \A status \in Statuses : ~SetStatus(i, status)
    /\ "panic" \notin scenario.may /\ ~stopping /\ ~fired
          => \A p \in Procs, i \in pending \ (pending' \cup hold) : ~GiveBack(p, i)
    /\ Cardinality({g \in Runners : pc'[g] # "free"}) <= scenario.runners
    /\ UNCHANGED scenario
MCSpec == MCInit /\ [][MCNext]_<<vars, scenario>>

\* NoneForgotten where nothing is ever stopped: EnableSubAgents leaves the
\* next schedule to its caller.
NoneForgottenUnstopped == scenario.may \subseteq {"ask"} => NoneForgotten
=============================================================================
