---------------------------- MODULE EventPromise ----------------------------
(***************************************************************************)
(* What a person is promised about scheduled events (internal/schedule,    *)
(* internal/agent/schedules.go): a schedule runs unattended only with the   *)
(* content somebody was shown and said yes to, and that yes was not taken   *)
(* back before its turn was admitted.                                       *)
(***************************************************************************)
CONSTANTS Sessions, Schedules, Texts, None

VARIABLES
    consent,    \* the content of each schedule a person agreed to, or None
    shown,      \* the contents each session's open questions show
    turn        \* the event each session runs, with its content, or None
promised == <<consent, shown, turn>>

Init ==
    /\ consent \in [Schedules -> Texts \cup {None}]
    /\ shown = [p \in Sessions |-> {}]
    /\ turn = [p \in Sessions |-> None]

Narrows == \A s \in Schedules : consent'[s] \in {consent[s], None}

\* What is not asked about may be stopped at the same time.
Ask(p) ==
    /\ \E q \in SUBSET (Schedules \X Texts) : shown' = [shown EXCEPT ![p] = q]
    /\ Narrows /\ DOMAIN consent' = Schedules
    /\ UNCHANGED turn

\* A yes covers what was shown, a no or a pause takes consent back; a program
\* that is killed takes its questions and its turn with it.
Answer(p) ==
    /\ \E open \in SUBSET shown[p] : shown' = [shown EXCEPT ![p] = open]
    /\ DOMAIN consent' = Schedules
    /\ \A s \in Schedules : consent'[s] \in {consent[s], None} \cup {c \in Texts : <<s, c>> \in shown[p]}
    /\ UNCHANGED turn
Withdraw ==
    /\ Narrows /\ DOMAIN consent' = Schedules
    /\ UNCHANGED <<shown, turn>>

Admit(p) ==
    /\ turn[p] = None
    /\ \E s \in Schedules :
        consent[s] # None /\ turn' = [turn EXCEPT ![p] = [id |-> s, text |-> consent[s]]]
    /\ UNCHANGED <<consent, shown>>
Leave(p) ==
    /\ turn' = [turn EXCEPT ![p] = None]
    /\ shown' \in {shown, [shown EXCEPT ![p] = {}]}
    /\ UNCHANGED consent

Next == Withdraw \/ \E p \in Sessions : Ask(p) \/ Answer(p) \/ Admit(p) \/ Leave(p)
Spec == Init /\ [][Next]_promised
=============================================================================
