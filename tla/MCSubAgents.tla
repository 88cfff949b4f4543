---------------------------- MODULE MCSubAgents ----------------------------
(* Instances of SubAgents for TLC. *)
EXTENDS SubAgents, TLC

\* Scopes, owners and order of the steps and jobs of the instances.
ScopesAB  == [i \in Ids |-> IF i = 3 THEN {"b"} ELSE {"a"}]
OwnersAll == [i \in Ids |-> "big"]
NoAfter   == [i \in Steps |-> {}]
RunnerSymmetry == Permutations(Runners)
=============================================================================
