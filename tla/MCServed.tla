------------------------------ MODULE MCServed ------------------------------
(* Instances of Served for TLC. *)
EXTENDS Served, TLC

CONSTANTS ta, tb

One(what) == [who |-> {ta}, what |-> {"leave"} \cup what]
Two(what) == [who |-> {ta, tb}, what |-> {"leave"} \cup what]
MCSituations == {One({"type"}), One({"resize"}), [who |-> {ta}, what |-> {"resize", "evict"}], One({"panic", "idle"}),
                 Two({"panic"}), Two({"switch"})}

\* With two terminals: RunServed waits and both are attached, or one is.
Settled(in) ==
    LET one == [t \in Terminals |-> IF t \in in THEN 1 ELSE 0] IN
    /\ main = "waiting" /\ registered = {"size", "clients", "quit", "input"}
    /\ conn = [t \in Terminals |-> IF t \in in THEN "here" ELSE "away"] /\ closing = FALSE /\ quitPending = FALSE
    /\ news = {} /\ calls = [w \in {"host", "seed"} |-> NoCall] /\ byes = {}
    /\ cols = [t \in Terminals |-> 1] /\ sizing = {} /\ repaint = [t \in Terminals |-> 0]
    /\ shown = one /\ overtaken = {}
    /\ known = in /\ quitting = FALSE /\ switchPending = FALSE /\ switching = {} /\ views = in
    /\ onQuit = {} /\ idle = FALSE
    /\ table = one /\ gen = one
    /\ prog = [i \in Programs |-> IF i[1] \in in /\ i[2] = 1 THEN "running" ELSE "none"]
    /\ told = {} /\ stops = {} /\ toStop = {} /\ quitClosed = FALSE
    /\ typed = [t \in Terminals |-> 0] /\ pendingIn = typed /\ replay = typed /\ pumped = typed
    /\ early = typed /\ got = typed /\ dropped = {}
    /\ met = "no"
MCInit ==
    \/ Init /\ Cardinality(may.who) = 1
    \/ /\ may \in Situations /\ Cardinality(may.who) = 2
       /\ \E in \in {{ta}, {ta, tb}} : ("switch" \in may.what => in = may.who) /\ Settled(in)
MCSpec == MCInit /\ [][Next]_vars /\ Fairness
=============================================================================
