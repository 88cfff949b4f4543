------------------------------ MODULE MCRecord ------------------------------
(* Instances of Record for TLC. *)
EXTENDS Record, TLC

CONSTANTS sessA, sessB, t1, s1, t2, s2, t3, s3, Situations
MCTexts == {t1, s1, t2, s2, t3, s3}

\* One task with one step and one line, which the sessions have read.
MCInit ==
    Begin([f \in Files |-> IF f # 1 THEN NoDoc ELSE
              Doc(<<[id |-> 1, text |-> t1, kids |-> <<[id |-> 1, text |-> s1, st |-> "todo", ev |-> {1}]>>]>>)],
          Sessions, {t1, s1}, 1)
MCSpec == MCInit /\ [][Next]_vars

\* What happens together, in two sessions or in one.
MCBounds == LET of == <<
    [who |-> {sessA, sessB}, may |-> {"note", "status", "mark"}, calls |-> 2, edits |-> 2],
    [who |-> {sessA, sessB}, may |-> {"note", "line", "cut"}, calls |-> 2, edits |-> 2],
    [who |-> {sessA}, may |-> {"note", "task", "mark", "crash"}, calls |-> 2, edits |-> 2],
    [who |-> {sessA}, may |-> {"note", "cut", "line", "fail", "delete"}, calls |-> 3, edits |-> 2],
    [who |-> {sessA}, may |-> {"note", "break", "empty", "drop", "step"}, calls |-> 2, edits |-> 3],
    [who |-> {sessA, sessB}, may |-> {"note", "plan"}, calls |-> 3, edits |-> 0],
    [who |-> {sessA, sessB}, may |-> {"add", "status"}, calls |-> 3, edits |-> 0],
    [who |-> {sessA}, may |-> {"add", "step"}, calls |-> 1, edits |-> 1] >>
    IN  {of[k] : k \in Situations}
Twins == Permutations({sessA, sessB}) \cup Permutations({t2, s2, t3, s3})
=============================================================================
