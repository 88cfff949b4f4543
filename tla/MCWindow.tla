------------------------------ MODULE MCWindow ------------------------------
(* Instances of Window for TLC. *)
EXTENDS Window, TLC

\* a is configured, b is not: its window is the server's, or its Modelfile's.
MCConf == [m \in Models |-> IF m = "a" THEN 2 ELSE 0]
MCOwn == [m \in Models |-> IF m = "a" THEN 0 ELSE 1]
MCSituations ==
    {[mode |-> "ask", gens |-> 3, may |-> {}],
     [mode |-> "ask", gens |-> 2, may |-> {"request", "panic"}],
     [mode |-> "ask", gens |-> 2, may |-> {"late", "blind", "panic"}],
     [mode |-> "ask", gens |-> 1, may |-> {"request", "long", "late", "prefill"}],
     [mode |-> "ask", gens |-> 0, may |-> {"request", "long", "meddle", "blind"}],
     [mode |-> "always", gens |-> 1, may |-> {"request", "long", "meddle"}],
     [mode |-> "never", gens |-> 1, may |-> {"request", "long"}]}

\* Where there are several switches, somebody else holds a at another size.
MCInit == Init /\ (now.gens > 1 => server = [m \in Models |-> IF m = "a" THEN 1 ELSE 0])
MCSpec == MCInit /\ [][Next]_vars /\ Fairness
=============================================================================
