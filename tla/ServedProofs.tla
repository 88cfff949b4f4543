---------------------------- MODULE ServedProofs ----------------------------
(* What holds of a shared session, for any set of terminals, sizes and keys:
   nothing renders once RunServed has returned, a host that has closed has
   nobody attached, and until the session quits its programs, views and sizes
   follow the roster and every key is kept. *)
EXTENDS Served, TLAPS

Lives == {"none", "running", "panicked", "dropping", "returned", "over"}
Places == {"away", "here", "refused", "out", "shut", "gone"}

Ending == main \in {"stopping", "returned", "byes", "closed"}
Over == main \in {"returned", "byes", "closed"}

-----------------------------------------------------------------------------
(* The programs.  A program that may still draw is in the table, being stopped
   for a terminal that left, or being stopped by stopAll; and the table stays
   empty from stopAll on, because the session is quitting by then and onClients
   starts nothing. *)

ProgTypes ==
    /\ table \in [Terminals -> Nat] /\ gen \in [Terminals -> Nat]
    /\ prog \in [Programs -> Lives] /\ quitting \in BOOLEAN
Held ==
    \A i \in Programs : prog[i] \in {"running", "panicked", "dropping"} => i \in Current \cup stops \cup toStop
CountedOut == quitClosed => quitting
TableEmpty == Ending => quitting /\ Tabled = {}
NoStops == (main # "stopping" => toStop = {}) /\ (Over => stops = {})
PInv == ProgTypes /\ Held /\ CountedOut /\ TableEmpty /\ NoStops

LEMMA PInvInit == Init => PInv
<1>1. SUFFICES ASSUME Init PROVE PInv
  OBVIOUS
<1>2. /\ main = "start" /\ quitting = FALSE /\ quitClosed = FALSE /\ toStop = {}
      /\ table = [t \in Terminals |-> 0] /\ gen = [t \in Terminals |-> 0]
      /\ prog = [i \in Programs |-> "none"]
  BY <1>1 DEF Init
<1>3. ProgTypes
  BY <1>2 DEF ProgTypes, Lives
<1>4. Held
  BY <1>2 DEF Held
<1>. QED BY <1>2, <1>3, <1>4 DEF PInv, CountedOut, TableEmpty, NoStops, Ending, Over

\* What PInv reads, but for the session's end and the place of RunServed.
pvars == <<table, gen, prog, stops, toStop, quitClosed>>

\* A step that leaves the programs alone may end the session, and may move
\* RunServed on as long as it does not reach the end.
LEMMA Quiescent ==
    ASSUME PInv, UNCHANGED pvars, quitting' \in BOOLEAN, quitting => quitting',
           \/ main' = main
           \/ main' \notin {"stopping", "returned", "byes", "closed"} /\ main # "stopping"
           \/ main' \in {"byes", "closed"} /\ Over
    PROVE  PInv'
<1>1. ProgTypes' /\ CountedOut' /\ Held'
  BY DEF PInv, ProgTypes, Held, CountedOut, pvars, Current, Tabled
<1>2. TableEmpty' /\ NoStops'
  BY DEF PInv, TableEmpty, NoStops, Ending, Over, pvars, Tabled
<1>. QED BY <1>1, <1>2 DEF PInv

\* onClients: what leaves the table goes to stops, what starts is in the table.
LEMMA OnClientsKeeps ==
    ASSUME PInv, NEW w \in {"host", "seed"}, OnClients(w)
    PROVE  PInv'
<1>. DEFINE c == calls[w]
            new == Newcomers(c)
            gone == Leavers(c)
<1>1. /\ gen' = [t \in Terminals |-> IF t \in new THEN gen[t] + 1 ELSE gen[t]]
      /\ table' = [t \in Terminals |-> IF t \in new THEN gen'[t] ELSE IF t \in gone THEN 0 ELSE table[t]]
      /\ prog' = [i \in Programs |-> IF i[1] \in new /\ i[2] = gen'[i[1]] THEN "running" ELSE prog[i]]
      /\ stops' = stops \cup {<<t, table[t]>> : t \in gone}
      /\ quitting' = (quitting \/ LeftBehind(c))
      /\ main' = main /\ toStop' = toStop /\ quitClosed' = quitClosed
  BY DEF OnClients, c, new, gone
<1>2. /\ \A t \in new : table[t] = 0
      /\ quitting => new = {}
      /\ gone \subseteq Tabled
  BY DEF Newcomers, Leavers
<1>. HIDE DEF c, new, gone
<1>3. ProgTypes' /\ (quitting => quitting')
  <2>1. gen' \in [Terminals -> Nat] /\ table' \in [Terminals -> Nat]
    BY <1>1 DEF PInv, ProgTypes
  <2>2. prog' \in [Programs -> Lives]
    BY <1>1 DEF PInv, ProgTypes, Lives
  <2>3. quitting' \in BOOLEAN /\ (quitting => quitting')
    BY <1>1 DEF PInv, ProgTypes
  <2>. QED BY <2>1, <2>2, <2>3 DEF ProgTypes
<1>4. Held'
  <2>1. SUFFICES ASSUME NEW i \in Programs, prog'[i] \in {"running", "panicked", "dropping"}
                 PROVE  i \in Current' \cup stops' \cup toStop'
    BY DEF Held
  <2>2. i = <<i[1], i[2]>> /\ i[1] \in Terminals
    BY DEF Programs
  <2>3. CASE i[1] \in new /\ i[2] = gen'[i[1]]
    <3>1. table'[i[1]] = i[2] /\ i[2] # 0
      BY <1>1, <2>2, <2>3 DEF PInv, ProgTypes
    <3>. QED BY <2>2, <3>1 DEF Current, Tabled
  <2>4. CASE ~(i[1] \in new /\ i[2] = gen'[i[1]])
    <3>1. prog[i] \in {"running", "panicked", "dropping"}
      BY <1>1, <2>1, <2>4
    <3>2. i \in Current \cup stops \cup toStop
      BY <3>1 DEF PInv, Held
    <3>3. CASE i \in Current
      <4>1. i[2] = table[i[1]] /\ table[i[1]] # 0
        BY <2>2, <3>3 DEF Current, Tabled
      <4>2. CASE i[1] \in gone
        BY <1>1, <2>2, <4>1, <4>2
      <4>3. CASE i[1] \notin gone
        <5>1. table'[i[1]] = table[i[1]]
          BY <1>1, <1>2, <2>2, <4>1, <4>3
        <5>. QED BY <2>2, <4>1, <5>1 DEF Current, Tabled
      <4>. QED BY <4>2, <4>3
    <3>4. CASE i \in stops \cup toStop
      BY <1>1, <3>4
    <3>. QED BY <3>2, <3>3, <3>4
  <2>. QED BY <2>3, <2>4
<1>5. CountedOut'
  BY <1>1, <1>3 DEF PInv, CountedOut
<1>6. ASSUME Ending PROVE quitting /\ Tabled' = {} /\ stops' = stops
  <2>1. quitting /\ Tabled = {} /\ new = {} /\ gone = {}
    BY <1>2, <1>6 DEF PInv, TableEmpty
  <2>2. \A t \in Terminals : table'[t] = table[t]
    BY <1>1, <2>1
  <2>. QED BY <1>1, <2>1, <2>2 DEF Tabled
<1>7. TableEmpty' /\ NoStops'
  BY <1>1, <1>3, <1>6 DEF PInv, TableEmpty, NoStops, Ending, Over
<1>. QED BY <1>3, <1>4, <1>5, <1>7 DEF PInv

\* A program goes through its life; whatever is not over was not over before.
LEMMA LifeKeeps ==
    ASSUME PInv, NEW i \in Programs,
           prog[i] \in {"running", "panicked", "dropping", "returned"},
           NEW life \in {"panicked", "dropping", "returned", "over"},
           prog[i] = "returned" => life = "over",
           prog' = [prog EXCEPT ![i] = life],
           UNCHANGED <<table, gen, stops, toStop, quitting, main>>,
           quitClosed' => quitting \/ quitClosed
    PROVE  PInv'
<1>1. ProgTypes'
  BY DEF PInv, ProgTypes, Lives
<1>2. Held'
  BY DEF PInv, ProgTypes, Held, Current, Tabled
<1>3. CountedOut' /\ TableEmpty' /\ NoStops'
  BY DEF PInv, CountedOut, TableEmpty, NoStops, Ending, Over, Tabled
<1>. QED BY <1>1, <1>2, <1>3 DEF PInv

\* A stop is over when its program is.
LEMMA StopKeeps ==
    ASSUME PInv, NEW i, Done(i), UNCHANGED <<table, gen, prog, quitClosed, quitting, main>>,
           \/ stops' = stops \ {i} /\ toStop' = toStop
           \/ toStop' = toStop \ {i} /\ stops' = stops
    PROVE  PInv'
<1>1. Held'
  <2>1. ASSUME NEW k \in Programs, prog[k] \in {"running", "panicked", "dropping"} PROVE k # i
    BY <2>1 DEF Done
  <2>. QED BY <2>1 DEF PInv, Held, Current, Tabled
<1>2. ProgTypes' /\ CountedOut' /\ TableEmpty' /\ NoStops'
  BY DEF PInv, ProgTypes, CountedOut, TableEmpty, NoStops, Ending, Over, Tabled
<1>. QED BY <1>1, <1>2 DEF PInv

\* stopAll takes the whole table.
LEMMA StopAllKeeps ==
    ASSUME PInv, StopAll
    PROVE  PInv'
<1>1. /\ main = "waiting" /\ main' = "stopping" /\ quitClosed /\ toStop' = Current
      /\ table' = [t \in Terminals |-> 0]
      /\ UNCHANGED <<gen, prog, stops, quitClosed, quitting>>
  BY DEF StopAll, sessVars
<1>2. ProgTypes' /\ CountedOut'
  BY <1>1 DEF PInv, ProgTypes, CountedOut
<1>3. Held'
  BY <1>1 DEF PInv, Held, NoStops
<1>4. TableEmpty' /\ NoStops'
  BY <1>1 DEF PInv, CountedOut, TableEmpty, NoStops, Over, Tabled
<1>. QED BY <1>2, <1>3, <1>4 DEF PInv

LEMMA ReturnKeeps ==
    ASSUME PInv, RunServedReturns
    PROVE  PInv'
<1>1. /\ main = "stopping" /\ main' = "returned" /\ toStop = {} /\ stops = {}
      /\ UNCHANGED <<table, gen, prog, stops, toStop, quitClosed, quitting>>
  BY DEF RunServedReturns, AllStopped, sessVars, progVars
<1>. QED BY <1>1 DEF PInv, ProgTypes, Held, CountedOut, TableEmpty, NoStops, Ending, Over, Tabled, Current

\* Every step keeps PInv.
LEMMA PInvStep == PInv /\ [Next]_vars => PInv'
<1>. SUFFICES ASSUME PInv, [Next]_vars PROVE PInv'
  OBVIOUS
<1>. USE DEF pvars, hostVars, sizeVars, sessVars, progVars, keyVars
<1>q. quitting \in BOOLEAN
  BY DEF PInv, ProgTypes
<1>1. CASE UNCHANGED vars
  BY <1>1, <1>q, Quiescent DEF vars
<1>2. CASE RequestQuit \/ IdleExpires \/ IdleQuits
  <2>1. UNCHANGED pvars /\ main' = main /\ (quitting' = TRUE \/ quitting' = quitting)
    BY <1>2 DEF RequestQuit, IdleExpires, IdleQuits, Quits
  <2>2. quitting' \in BOOLEAN /\ (quitting => quitting')
    <3>1. CASE quitting' = TRUE
      BY <3>1
    <3>2. CASE quitting' = quitting
      BY <3>2, <1>q
    <3>. QED BY <2>1, <3>1, <3>2
  <2>. QED BY <2>1, <2>2, Quiescent
<1>3. CASE \E t \in Terminals : Attach(t) \/ Leave(t) \/ Resize(t) \/ Evicts(t) \/ Type(t) \/ AsksSwitch(t)
  <2>1. UNCHANGED pvars /\ main' = main /\ quitting' = quitting
    BY <1>3 DEF Attach, Leave, Resize, Evicts, Type, AsksSwitch
  <2>. QED BY <2>1, <1>q, Quiescent
<1>4. CASE OfRoster
  <2>1. UNCHANGED pvars /\ main' = main /\ quitting' = quitting
    BY <1>4 DEF OfRoster, JoinSize, RecomputeEnds, Recompute
  <2>. QED BY <2>1, <1>q, Quiescent
<1>5. CASE \E w \in {"host", "seed"} : OfCall(w)
  <2>1. PICK w \in {"host", "seed"} : OfCall(w)
    BY <1>5
  <2>2. CASE SetClients(w)
    <3>1. UNCHANGED pvars /\ main' = main /\ quitting' = quitting
      BY <2>2 DEF SetClients
    <3>. QED BY <3>1, <1>q, Quiescent
  <2>3. CASE OnClients(w)
    BY <2>3, OnClientsKeeps
  <2>. QED BY <2>1, <2>2, <2>3 DEF OfCall
<1>6. CASE Registers \/ RegistersQuit \/ ReplaysQuit \/ RegistersInput \/ Seeds \/ SeedEnds
  <2>1. UNCHANGED pvars /\ (quitting' = TRUE \/ quitting' = quitting)
    BY <1>6 DEF Registers, RegistersQuit, ReplaysQuit, Quits, RegistersInput, Seeds, SeedEnds
  <2>2. main' \notin {"stopping", "returned", "byes", "closed"} /\ main # "stopping"
    BY <1>6 DEF Registers, RegistersQuit, ReplaysQuit, RegistersInput, Seeds, SeedEnds
  <2>3. quitting' \in BOOLEAN /\ (quitting => quitting')
    <3>1. CASE quitting' = TRUE
      BY <3>1
    <3>2. CASE quitting' = quitting
      BY <3>2, <1>q
    <3>. QED BY <2>1, <3>1, <3>2
  <2>. QED BY <2>1, <2>2, <2>3, Quiescent
<1>7. CASE Closes \/ Ends
  <2>1. UNCHANGED pvars /\ quitting' = quitting /\ main' \in {"byes", "closed"} /\ Over
    BY <1>7 DEF Closes, Ends, Over
  <2>. QED BY <2>1, <1>q, Quiescent
<1>8. CASE \E t \in Terminals : FeedsEarly(t) \/ Goodbye(t) \/ GoodbyeEnds(t)
  <2>1. UNCHANGED pvars /\ main' = main /\ quitting' = quitting
    BY <1>8 DEF FeedsEarly, Goodbye, GoodbyeEnds
  <2>. QED BY <2>1, <1>q, Quiescent
<1>9. CASE StopAll
  BY <1>9, StopAllKeeps
<1>10. CASE RunServedReturns
  BY <1>10, ReturnKeeps
<1>11. CASE \E i \in toStop : StopsOne(i)
  <2>1. PICK i \in toStop : StopsOne(i)
    BY <1>11
  <2>. QED BY <2>1, StopKeeps DEF StopsOne
<1>12. CASE \E t \in Terminals : OfTerminal(t)
  <2>1. UNCHANGED pvars /\ main' = main /\ quitting' = quitting
    BY <1>12 DEF OfTerminal, Hangup, ResizeSent, Repaints, Route, Switches
  <2>. QED BY <2>1, <1>q, Quiescent
<1>13. CASE TellsAll
  <2>1. UNCHANGED pvars /\ main' = main /\ quitting' = quitting
    BY <1>13 DEF TellsAll
  <2>. QED BY <2>1, <1>q, Quiescent
<1>14. CASE CountsAll
  <2>1. /\ UNCHANGED <<table, gen, prog, stops, toStop, quitting, main>>
        /\ quitClosed' => quitting \/ quitClosed
    BY <1>14 DEF CountsAll, Exited
  <2>. QED BY <2>1 DEF PInv, ProgTypes, Held, CountedOut, TableEmpty, NoStops, Ending, Over, Tabled, Current
<1>15. CASE \E i \in Programs : Panics(i) \/ Returns(i) \/ OfProgram(i)
  <2>1. PICK i \in Programs : Panics(i) \/ Returns(i) \/ OfProgram(i)
    BY <1>15
  <2>2. CASE Stops(i)
    BY <2>2, StopKeeps DEF Stops
  <2>3. CASE Panics(i) \/ Returns(i) \/ Dropped(i)
    BY <2>3, LifeKeeps DEF Panics, Returns, Dropped
  <2>4. CASE Drops(i)
    BY <2>4, LifeKeeps DEF Drops
  <2>5. CASE Exits(i)
    BY <2>5, LifeKeeps DEF Exits, Exited
  <2>. QED BY <2>1, <2>2, <2>3, <2>4, <2>5 DEF OfProgram
<1>. QED
  BY <1>1, <1>2, <1>3, <1>4, <1>5, <1>6, <1>7, <1>8, <1>9, <1>10, <1>11, <1>12, <1>13, <1>14, <1>15
  DEF Next, Environment, System, OfMain, OfSession, Finished

\* "After this returns, nothing renders any more" (stopAll), for any terminals,
\* whoever attaches, leaves, panics or asks to quit meanwhile.
THEOREM NothingRenders == Spec => []NothingRendersAfter
<1>1. PInv => NothingRendersAfter
  <2>1. SUFFICES ASSUME PInv, Over PROVE Tabled = {} /\ stops = {} /\ toStop = {}
    BY DEF PInv, ProgTypes, Held, NothingRendersAfter, Over, Current, Lives
  <2>. QED BY <2>1 DEF PInv, TableEmpty, NoStops, Ending, Over
<1>. QED BY <1>1, PInvInit, PInvStep, PTL DEF Spec

-----------------------------------------------------------------------------
(* The clients.  Close takes the roster in the section that makes every later
   hello be refused, so the roster only shrinks from then on. *)

CInv ==
    /\ conn \in [Terminals -> Places]
    /\ main \in {"byes", "closed"} => closing
    /\ main = "byes" => Roster \subseteq byes
    /\ main = "closed" => Roster = {}

LEMMA CInvInit == Init => CInv
<1>1. ASSUME Init PROVE conn = [t \in Terminals |-> "away"] /\ main = "start"
  BY <1>1 DEF Init
<1>. QED BY <1>1 DEF CInv, Places

\* A step that lets nobody in keeps CInv, as long as RunServed's goroutine
\* stays where it is or has not come to Close.
LEMMA RosterShrinks ==
    ASSUME CInv, conn' \in [Terminals -> Places], Roster' \subseteq Roster, closing' = closing,
           \/ main' = main /\ byes' = byes
           \/ main' \notin {"byes", "closed"}
    PROVE  CInv'
BY DEF CInv

\* Out and the rest of a detach only take a terminal out of the roster.
LEMMA OutShrinks ==
    ASSUME CInv, NEW t \in Terminals, NEW place \in Places \ {"here"},
           conn' = conn \/ conn' = [conn EXCEPT ![t] = place]
    PROVE  conn' \in [Terminals -> Places] /\ Roster' \subseteq Roster
BY DEF CInv, Roster, Places

LEMMA CInvStep == CInv /\ [Next]_vars => CInv'
<1>. SUFFICES ASSUME CInv, [Next]_vars PROVE CInv'
  OBVIOUS
<1>. USE DEF hostVars, sizeVars, sessVars, progVars, keyVars
<1>c. conn \in [Terminals -> Places] /\ {"out", "shut", "gone", "refused"} \subseteq Places \ {"here"}
  BY DEF CInv, Places
<1>1. ASSUME UNCHANGED <<conn, closing>>, \/ UNCHANGED <<main, byes>>
                                         \/ main' \notin {"byes", "closed"}
      PROVE  CInv'
  BY <1>1, <1>c, RosterShrinks DEF Roster
<1>2. CASE UNCHANGED vars
  BY <1>1, <1>2 DEF vars
<1>3. CASE RequestQuit \/ IdleExpires \/ IdleQuits \/ TellsAll \/ CountsAll
  BY <1>1, <1>3 DEF RequestQuit, IdleExpires, IdleQuits, TellsAll, CountsAll
<1>4. CASE \E t \in Terminals : Resize(t) \/ Evicts(t) \/ Type(t) \/ AsksSwitch(t)
  BY <1>1, <1>4 DEF Resize, Evicts, Type, AsksSwitch
<1>5. CASE \E t \in Terminals : ResizeSent(t) \/ Repaints(t) \/ Route(t) \/ FeedsEarly(t)
  BY <1>1, <1>5 DEF ResizeSent, Repaints, Route, FeedsEarly
<1>6. CASE JoinSize \/ \E n \in news : Recompute(n)
  BY <1>1, <1>6 DEF JoinSize, Recompute
<1>7. CASE \E w \in {"host", "seed"} : OfCall(w)
  BY <1>1, <1>7 DEF OfCall, SetClients, OnClients
<1>8. CASE Registers \/ RegistersQuit \/ ReplaysQuit \/ RegistersInput \/ Seeds \/ SeedEnds \/ StopAll \/ RunServedReturns
  BY <1>1, <1>8 DEF Registers, RegistersQuit, ReplaysQuit, RegistersInput, Seeds, SeedEnds, StopAll, RunServedReturns
<1>9. CASE \/ \E i \in toStop : StopsOne(i)
           \/ \E i \in Programs : Panics(i) \/ Returns(i) \/ Dropped(i) \/ Exits(i) \/ Stops(i)
  BY <1>1, <1>9 DEF StopsOne, Panics, Returns, Dropped, Exits, Stops
<1>10. CASE \E t \in Terminals : Attach(t)
  <2>1. PICK t \in Terminals : Attach(t)
    BY <1>10
  <2>2. CASE closing
    <3>1. conn' = [conn EXCEPT ![t] = "refused"] /\ UNCHANGED <<closing, main, byes>>
      BY <2>1, <2>2 DEF Attach
    <3>. QED BY <3>1, <1>c, OutShrinks, RosterShrinks
  <2>3. CASE ~closing
    <3>1. conn' = [conn EXCEPT ![t] = "here"] /\ UNCHANGED <<closing, main, byes>>
      BY <2>1, <2>3 DEF Attach
    <3>. QED BY <2>3, <3>1, <1>c DEF CInv, Places
  <2>. QED BY <2>2, <2>3
<1>11. CASE \E t \in Terminals : Leave(t) \/ Goodbye(t) \/ Switches(t) \/ Hangup(t)
  <2>1. PICK t \in Terminals : Leave(t) \/ Goodbye(t) \/ Switches(t) \/ Hangup(t)
    BY <1>11
  <2>2. /\ \/ conn' = conn \/ conn' = [conn EXCEPT ![t] = "out"]
           \/ conn' = [conn EXCEPT ![t] = "shut"]
        /\ UNCHANGED <<closing, main, byes>>
    BY <2>1 DEF Leave, Goodbye, Switches, Hangup, Out
  <2>. QED BY <2>2, <1>c, OutShrinks, RosterShrinks
<1>12. CASE \E i \in Programs : Drops(i)
  <2>1. PICK i \in Programs : Drops(i)
    BY <1>12
  <2>2. /\ i[1] \in Terminals
        /\ conn' = conn \/ conn' = [conn EXCEPT ![i[1]] = "out"]
        /\ UNCHANGED <<closing, main, byes>>
    BY <2>1 DEF Drops, Out, Programs
  <2>. QED BY <2>2, <1>c, OutShrinks, RosterShrinks
<1>13. CASE RecomputeEnds
  <2>1. /\ \/ conn' = conn \/ conn' = [conn EXCEPT ![calls.host.by[2]] = "gone"]
        /\ UNCHANGED <<closing, main, byes>>
    BY <1>13 DEF RecomputeEnds
  <2>2. conn' \in [Terminals -> Places] /\ Roster' \subseteq Roster
    BY <2>1, <1>c DEF Roster
  <2>. QED BY <2>1, <2>2, RosterShrinks
<1>14. CASE Closes
  <2>1. main' = "byes" /\ closing' = TRUE /\ byes' = Roster /\ conn' = conn
    BY <1>14 DEF Closes
  <2>. QED BY <2>1, <1>c DEF CInv, Roster
<1>15. CASE \E t \in Terminals : GoodbyeEnds(t)
  <2>1. PICK t \in Terminals : GoodbyeEnds(t)
    BY <1>15
  <2>2. main = "byes" /\ conn[t] = "gone" /\ byes' = byes \ {t} /\ UNCHANGED <<main, conn, closing>>
    BY <2>1 DEF GoodbyeEnds
  <2>. QED BY <2>2, <1>c DEF CInv, Roster
<1>16. CASE Ends
  <2>1. main = "byes" /\ byes = {} /\ main' = "closed" /\ UNCHANGED <<conn, closing>>
    BY <1>16 DEF Ends
  <2>. QED BY <2>1, <1>c DEF CInv, Roster
<1>. QED
  BY <1>2, <1>3, <1>4, <1>5, <1>6, <1>7, <1>8, <1>9, <1>10, <1>11, <1>12, <1>13, <1>14, <1>15, <1>16
  DEF Next, Environment, System, OfRoster, OfMain, OfTerminal, OfProgram, OfSession, Finished

\* Nobody is left attached to a host that has closed (Close), for any terminals
\* and however many attach while it says goodbye.
THEOREM NobodyLeft == Spec => []ClosedIsEmpty
<1>1. CInv => ClosedIsEmpty
  BY DEF CInv, ClosedIsEmpty
<1>. QED BY <1>1, CInvInit, CInvStep, PTL DEF Spec

-----------------------------------------------------------------------------
(* The roster on its way.  What follows is about a session that is not
   quitting: RunServed is registering its callbacks, in its own call of
   onClients, or waiting.  A change of a terminal that nobody has read yet is
   pending; a call that has not come to its end carries the roster it read, and
   every call but RunServed's own one reads it under notifyMu. *)

Before == {"start", "size", "clients", "quit", "replay", "input", "feed"}
HostCall == calls["host"]
SeedCall == calls["seed"]
Left(t) == conn[t] \in {"out", "shut", "gone"}
Pending(t) == conn[t] = "out" \/ <<"join", t>> \in news \/ <<"gone", t>> \in news
Carries(c) == c # NoCall /\ "clients" \in c.on /\ c.at # "end"
ToSession(c) == Carries(c) /\ c.at # "runner"
\* What a call has brought about by where it is.
Passed(c) ==
    /\ c.at \in {"runner", "end"} => known = c.roster
    /\ c.at = "end" => Tabled = c.roster

RosterTypes ==
    /\ conn \in [Terminals -> Places] /\ news \subseteq Changes
    /\ calls \in [{"host", "seed"} -> Calls \cup {NoCall}]
    /\ cols \in [Terminals -> 1..MaxSize] /\ known \subseteq Terminals
    /\ registered \subseteq {"size", "clients", "quit", "input"}
    /\ met \in {"no", "yes", "mended"} /\ main \in Before \cup {"seed", "waiting"}
Order ==
    /\ main # "start" => "size" \in registered
    /\ main \notin {"start", "size"} => "clients" \in registered
    /\ "clients" \in registered => "size" \in registered
    /\ main \in {"feed", "seed", "waiting"} => "input" \in registered
    /\ SeedCall # NoCall <=> main = "seed"
    /\ main \in Before => met = "no"
    /\ main = "seed" => met # "mended"
CallShape ==
    /\ HostCall # NoCall =>
           /\ HostCall.by \in Changes /\ HostCall.on \subseteq registered
           /\ HostCall.whole => main = "waiting" /\ "clients" \in HostCall.on
           /\ HostCall.at = "size" => HostCall.by[1] = "join"
           /\ HostCall.at \in {"session", "runner"} => "clients" \in HostCall.on
    /\ SeedCall # NoCall => SeedCall.on \subseteq registered /\ "clients" \in SeedCall.on /\ SeedCall.at # "size"
Gone == \A t \in Terminals :
    /\ <<"gone", t>> \in news => conn[t] = "shut" /\ (HostCall # NoCall => HostCall.by # <<"gone", t>>)
    /\ HostCall # NoCall /\ HostCall.by = <<"gone", t>> => conn[t] = "shut"
Shape == RosterTypes /\ Order /\ CallShape /\ Gone

\* What a call of the host has read is the roster, but for what is pending.
Read == HostCall # NoCall => \A t \in Terminals : (t \in HostCall.roster <=> t \in Roster) \/ Pending(t)
\* As long as RunServed's own call has met no change of the roster, it is alone.
Alone == SeedCall # NoCall /\ met = "no" => SeedCall.roster = Roster /\ ~Carries(HostCall) /\ Passed(SeedCall)
Whole == HostCall # NoCall /\ HostCall.whole => Passed(HostCall)
InTouch == main = "waiting" /\ met # "yes" => \A t \in Terminals :
    /\ (t \in known <=> t \in Roster) \/ Pending(t) \/ ToSession(HostCall)
    /\ (t \in Tabled <=> t \in Roster) \/ Pending(t) \/ Carries(HostCall)
\* A terminal that has not come is in no roster.
Came == \A t \in Terminals : conn[t] \in {"away", "refused"} =>
    /\ t \notin known /\ t \notin Tabled
    /\ \A w \in {"host", "seed"} : calls[w] # NoCall => t \notin calls[w].roster
Drift == Shape /\ Read /\ Alone /\ Whole /\ InTouch /\ Came

\* A terminal is out of a roster that is carried because it has left, and comes
\* back to none; so it is stopped once, and its view let go when it has no program.
Once(c) ==
    /\ Carries(c) => (\A t \in Tabled \ c.roster : Left(t)) /\ (\A i \in stops : i[1] \notin c.roster)
    /\ ToSession(c) => \A t \in known \ c.roster : Left(t)
Viewed == met = "no" =>
    /\ Once(HostCall) /\ Once(SeedCall)
    /\ \A i \in stops : Left(i[1]) /\ i[1] \notin Tabled
    /\ \A i, k \in stops : i[1] = k[1] => i = k
    /\ views = Tabled \cup {i[1] : i \in stops}
    /\ \A t \in dropped : Left(t)
ViewTypes == stops \subseteq Terminals \X Nat /\ dropped \subseteq Terminals
Views == ViewTypes /\ Viewed

\* Who will bring a terminal its size: a resize that is pending, or the call it made.
Resized(t) == <<"size", t>> \in news
Brings(t) == HostCall # NoCall /\ HostCall.by = <<"size", t>>
SizesRead == \A t \in Terminals : HostCall # NoCall =>
    HostCall.cols[t] = cols[t] \/ (Resized(t) /\ HostCall.by # <<"join", t>>)
SeedSizes == \A t \in Terminals :
    Carries(SeedCall) /\ t \in SeedCall.roster /\ conn[t] = "here" /\ SeedCall.cols[t] # cols[t] =>
        /\ <<"join", t>> \notin news
        /\ Resized(t) \/ (Carries(HostCall) /\ HostCall.by = <<"size", t>>) \/ t \in Tabled
Sized == \A t \in Tabled :
    /\ "size" \in registered
    /\ conn[t] = "here" /\ t \notin sizing \cup overtaken /\ repaint[t] = 0 =>
           shown[t] = cols[t] \/ Resized(t) \/ Brings(t)
SizeTypes == repaint \in [Terminals -> Nat] /\ shown \in [Terminals -> Nat]
Sizes == SizeTypes /\ SizesRead /\ SeedSizes /\ Sized

KeyTypes ==
    /\ typed \in [Terminals -> Nat] /\ pendingIn \in [Terminals -> Nat] /\ replay \in [Terminals -> Nat]
    /\ pumped \in [Terminals -> Nat] /\ early \in [Terminals -> Nat] /\ got \in [Terminals -> Nat]
Kept == \A t \in Terminals :
    /\ main # "feed" => replay[t] = 0
    /\ t \in Tabled => early[t] = 0
    /\ conn[t] \in {"away", "refused"} => typed[t] = 0
    /\ met = "no" /\ ~Left(t) =>
           /\ typed[t] = pendingIn[t] + replay[t] + pumped[t] + early[t] + got[t]
           /\ "input" \in registered => pendingIn[t] = 0
Keys == KeyTypes /\ Kept

SInv == ~quitting => Drift /\ Views /\ Sizes /\ Keys

-----------------------------------------------------------------------------
(* The steps of a session that is not quitting, and does not quit by them. *)

svars == <<main, registered, conn, news, calls, met, sizeVars, known, table, gen, stops, views, keyVars>>

\* A detach, wherever it comes from.
Outs(t) ==
    /\ Out(t)
    /\ UNCHANGED <<main, registered, news, calls, sizeVars, known, table, gen, stops, views, keyVars>>

Moves ==
    \/ UNCHANGED svars
    \/ \E t \in Terminals : Outs(t) \/ Attach(t) \/ Hangup(t)
    \/ \E t \in Terminals : Resize(t) \/ ResizeSent(t) \/ Evicts(t) \/ Repaints(t)
    \/ \E t \in Terminals : Type(t) \/ Route(t) \/ FeedsEarly(t)
    \/ OfRoster
    \/ \E w \in {"host", "seed"} : OfCall(w)
    \/ Registers \/ RegistersQuit \/ RegistersInput \/ Seeds \/ SeedEnds
    \/ \E i \in stops : Stops(i)

LEMMA LiveStep ==
    ASSUME PInv, ~quitting, ~quitting', [Next]_vars
    PROVE  Moves
<1>. USE DEF hostVars, sizeVars, sessVars, progVars, keyVars
<1>a. ~Ending /\ ~quitClosed /\ toStop = {}
  BY DEF PInv, CountedOut, TableEmpty, NoStops, Ending
<1>1. CASE UNCHANGED vars \/ Finished
  BY <1>1 DEF vars, svars, Moves, Finished
<1>2. CASE RequestQuit \/ IdleExpires \/ IdleQuits \/ TellsAll \/ CountsAll
  <2>1. UNCHANGED svars
    BY <1>2 DEF RequestQuit, IdleExpires, IdleQuits, TellsAll, CountsAll, Quits, svars
  <2>. QED BY <2>1 DEF Moves
<1>3. CASE \E t \in Terminals : Attach(t) \/ Resize(t) \/ Evicts(t) \/ Type(t)
  BY <1>3 DEF Moves
<1>4. CASE \E t \in Terminals : Leave(t) \/ AsksSwitch(t) \/ Switches(t)
  <2>1. PICK t \in Terminals : Leave(t) \/ AsksSwitch(t) \/ Switches(t)
    BY <1>4
  <2>2. Outs(t) \/ UNCHANGED svars
    BY <2>1 DEF Leave, AsksSwitch, Switches, Outs, svars
  <2>. QED BY <2>2 DEF Moves
<1>5. CASE OfRoster \/ \E w \in {"host", "seed"} : OfCall(w)
  BY <1>5 DEF Moves
<1>6. CASE Registers \/ RegistersQuit \/ RegistersInput \/ Seeds \/ SeedEnds
  BY <1>6 DEF Moves
<1>7. CASE ReplaysQuit \/ StopAll \/ RunServedReturns \/ Closes \/ Ends
  BY <1>7, <1>a DEF ReplaysQuit, Quits, StopAll, RunServedReturns, Closes, Ends, Ending
<1>8. CASE \E t \in Terminals : FeedsEarly(t) \/ Goodbye(t) \/ GoodbyeEnds(t)
  BY <1>8, <1>a DEF Goodbye, GoodbyeEnds, Ending, Moves
<1>9. CASE \E i \in toStop : StopsOne(i)
  BY <1>9, <1>a
<1>10. CASE \E t \in Terminals : Hangup(t) \/ ResizeSent(t) \/ Repaints(t) \/ Route(t)
  BY <1>10 DEF Moves
<1>11. CASE \E i \in Programs : Panics(i) \/ Returns(i) \/ OfProgram(i)
  <2>1. PICK i \in Programs : Panics(i) \/ Returns(i) \/ OfProgram(i)
    BY <1>11
  <2>2. CASE Stops(i)
    BY <2>2 DEF Stops, Moves
  <2>3. CASE Panics(i) \/ Returns(i) \/ Dropped(i) \/ Exits(i)
    BY <2>3 DEF Panics, Returns, Dropped, Exits, svars, Moves
  <2>4. CASE Drops(i)
    <3>1. i[1] \in Terminals
      BY DEF Programs
    <3>2. Outs(i[1]) \/ UNCHANGED svars
      BY <2>4 DEF Drops, Outs, svars
    <3>. QED BY <3>1, <3>2 DEF Moves
  <2>. QED BY <2>1, <2>2, <2>3, <2>4 DEF OfProgram
<1>. QED
  BY <1>1, <1>2, <1>3, <1>4, <1>5, <1>6, <1>7, <1>8, <1>9, <1>10, <1>11
  DEF Next, Environment, System, OfMain, OfTerminal, OfSession

\* A call that goes on is the same call, and leaves the other alone.
LEMMA GoesOn ==
    ASSUME RosterTypes, NEW w \in {"host", "seed"}, calls[w] # NoCall, NEW at \in {"session", "runner", "end"},
           calls' = [calls EXCEPT ![w].at = at]
    PROVE  /\ calls' \in [{"host", "seed"} -> Calls \cup {NoCall}]
           /\ \A u \in {"host", "seed"} \ {w} : calls'[u] = calls[u]
           /\ calls'[w] # NoCall /\ calls'[w].at = at
           /\ calls'[w].by = calls[w].by /\ calls'[w].roster = calls[w].roster /\ calls'[w].cols = calls[w].cols
           /\ calls'[w].on = calls[w].on /\ calls'[w].whole = calls[w].whole
<1>1. calls[w] \in Calls
  BY DEF RosterTypes
<1>2. calls'[w] = [calls[w] EXCEPT !.at = at] /\ calls'[w] \in Calls
  BY <1>1 DEF RosterTypes, Calls
<1>3. calls' \in [{"host", "seed"} -> Calls \cup {NoCall}] /\ \A u \in {"host", "seed"} \ {w} : calls'[u] = calls[u]
  BY <1>2 DEF RosterTypes
<1>. QED BY <1>1, <1>2, <1>3, ServedAssumption DEF Calls

LEMMA RecomputeDoes ==
    ASSUME RosterTypes, NEW n \in news, Recompute(n)
    PROVE  /\ HostCall = NoCall /\ HostCall' # NoCall /\ SeedCall' = SeedCall
           /\ HostCall'.by = n /\ HostCall'.roster = Roster /\ HostCall'.cols = cols
           /\ HostCall'.on = registered /\ HostCall'.whole = Seeded
           /\ HostCall'.at = IF n[1] = "join" /\ "size" \in registered THEN "size"
                             ELSE IF "clients" \in registered THEN "session" ELSE "end"
           /\ calls' \in [{"host", "seed"} -> Calls \cup {NoCall}]
           /\ news' = news \ {n} /\ n \in Changes
<1>1. /\ calls' = [calls EXCEPT !["host"] = HostCall'] /\ SeedCall' = SeedCall
      /\ HostCall' =  [by |-> n, roster |-> Roster, cols |-> cols, on |-> registered, whole |-> Seeded,
            at |-> IF n[1] = "join" /\ "size" \in registered THEN "size"
                   ELSE IF "clients" \in registered THEN "session" ELSE "end"]
  BY DEF Recompute, HostCall, SeedCall, RosterTypes
<1>2. n \in Changes /\ Roster \subseteq Terminals /\ Seeded \in BOOLEAN
  BY DEF RosterTypes, Roster, Seeded
<1>3. HostCall' \in Calls
  BY <1>1, <1>2 DEF RosterTypes, Calls
<1>4. calls' \in [{"host", "seed"} -> Calls \cup {NoCall}]
  BY <1>1, <1>3 DEF RosterTypes
<1>. QED BY <1>1, <1>2, <1>3, <1>4, ServedAssumption DEF Recompute, HostCall

LEMMA EndsDoes ==
    ASSUME RosterTypes, RecomputeEnds
    PROVE  /\ HostCall # NoCall /\ HostCall.at = "end" /\ HostCall' = NoCall /\ SeedCall' = SeedCall
           /\ calls' \in [{"host", "seed"} -> Calls \cup {NoCall}]
BY DEF RosterTypes, RecomputeEnds, HostCall, SeedCall

LEMMA SeedsDoes ==
    ASSUME RosterTypes, Seeds
    PROVE  /\ SeedCall' # NoCall /\ SeedCall'.roster = Roster /\ SeedCall'.cols = cols
           /\ SeedCall'.on = registered /\ SeedCall'.at = "session" /\ HostCall' = HostCall
           /\ calls' \in [{"host", "seed"} -> Calls \cup {NoCall}]
<1>1. /\ calls' = [calls EXCEPT !["seed"] = SeedCall'] /\ HostCall' = HostCall
      /\ SeedCall' = [by |-> <<"seed", NoCall>>, roster |-> Roster, cols |-> cols,
                      on |-> registered, whole |-> FALSE, at |-> "session"]
  BY DEF Seeds, HostCall, SeedCall, RosterTypes
<1>2. SeedCall' \in Calls
  BY <1>1 DEF RosterTypes, Calls, Roster
<1>3. calls' \in [{"host", "seed"} -> Calls \cup {NoCall}]
  BY <1>1, <1>2 DEF RosterTypes
<1>. QED BY <1>1, <1>2, <1>3, ServedAssumption

LEMMA SeedEndsDoes ==
    ASSUME RosterTypes, SeedEnds
    PROVE  /\ SeedCall.at = "end" /\ SeedCall' = NoCall /\ HostCall' = HostCall
           /\ calls' \in [{"host", "seed"} -> Calls \cup {NoCall}]
BY DEF RosterTypes, SeedEnds, HostCall, SeedCall

LEMMA SetClientsDoes ==
    ASSUME RosterTypes, NEW w \in {"host", "seed"}, SetClients(w)
    PROVE  /\ calls[w] # NoCall /\ calls[w].at = "session" /\ known' = calls[w].roster
           /\ calls' = [calls EXCEPT ![w].at = "runner"] /\ known' \subseteq Terminals
<1>1. calls[w] \in Calls
  BY DEF SetClients, RosterTypes
<1>. QED BY <1>1 DEF SetClients, Calls

\* What a call leaves in the table is the roster it carries.
LEMMA OnClientsDoes ==
    ASSUME RosterTypes, PInv, ~quitting, NEW w \in {"host", "seed"}, OnClients(w)
    PROVE  /\ calls[w] # NoCall /\ calls[w].at = "runner" /\ Tabled' = calls[w].roster
           /\ calls' = [calls EXCEPT ![w].at = "end"]
           /\ Newcomers(calls[w]) = calls[w].roster \ Tabled /\ Leavers(calls[w]) = Tabled \ calls[w].roster
<1>1. calls[w] \in Calls /\ calls[w] # NoCall /\ calls[w].at = "runner" /\ calls' = [calls EXCEPT ![w].at = "end"]
  BY DEF OnClients, RosterTypes
<1>. DEFINE new == Newcomers(calls[w])
            gone == Leavers(calls[w])
<1>2. new = calls[w].roster \ Tabled /\ gone = Tabled \ calls[w].roster /\ calls[w].roster \subseteq Terminals
  BY <1>1 DEF Newcomers, Leavers, Tabled, Calls
<1>3. /\ gen' = [t \in Terminals |-> IF t \in new THEN gen[t] + 1 ELSE gen[t]]
      /\ table' = [t \in Terminals |-> IF t \in new THEN gen'[t] ELSE IF t \in gone THEN 0 ELSE table[t]]
  BY DEF OnClients, new, gone
<1>. HIDE DEF new, gone
<1>4. \A t \in Terminals : gen[t] \in Nat
  BY DEF PInv, ProgTypes
<1>5. \A t \in Terminals : table'[t] # 0 <=> t \in calls[w].roster
  BY <1>2, <1>3, <1>4 DEF Tabled
<1>. QED BY <1>1, <1>2, <1>5 DEF Tabled, new, gone

-----------------------------------------------------------------------------
(* Programs and roster stay in touch, step by step. *)

dvars == <<main, registered, conn, news, calls, met, cols, known, table>>

LEMMA DriftStill ==
    ASSUME Drift, UNCHANGED dvars
    PROVE  Drift'
BY DEF Drift, Shape, RosterTypes, Order, CallShape, Gone, Read, Alone, Whole, InTouch, Came, Passed, Pending,
       ToSession, Carries, HostCall, SeedCall, Tabled, Roster, dvars

\* A terminal comes, leaves or hangs up: what has been read of it is pending.
Goes(t, place) ==
    /\ conn' = [conn EXCEPT ![t] = place]
    /\ \/ conn[t] = "away" /\ place = "here" /\ news' = news \cup {<<"join", t>>} /\ Meets
       \/ conn[t] = "away" /\ place = "refused" /\ UNCHANGED <<news, met>>
       \/ conn[t] = "here" /\ place = "out" /\ news' = news /\ Meets
       \/ conn[t] = "out" /\ place = "shut" /\ news' = news \cup {<<"gone", t>>} /\ met' = met

LEMMA DriftConn ==
    ASSUME Drift, NEW t \in Terminals, NEW place \in {"here", "refused", "out", "shut"},
           Goes(t, place),
           UNCHANGED <<main, registered, calls, cols, known, table>>
    PROVE  Drift'
<1>. USE DEF HostCall, SeedCall, Goes
<1>t. conn \in [Terminals -> Places] /\ news \subseteq Changes /\ met \in {"no", "yes", "mended"}
  BY DEF Drift, Shape, RosterTypes
<1>1. RosterTypes'
  <2>1. conn' \in [Terminals -> Places] /\ news' \subseteq Changes
    BY <1>t DEF Places, Changes
  <2>. QED BY <2>1, <1>t DEF Drift, Shape, RosterTypes, Meets
<1>2. Order' /\ CallShape'
  <2>1. met' = met \/ (SeedCall # NoCall /\ met' = "yes")
    BY DEF Meets
  <2>2. CallShape'
    BY DEF Drift, Shape, CallShape
  <2>. QED BY <2>1, <2>2 DEF Drift, Shape, Order, Before
<1>3. Gone'
  <2>1. ASSUME NEW u \in Terminals, <<"gone", u>> \in news
        PROVE  conn'[u] = "shut" /\ (HostCall # NoCall => HostCall.by # <<"gone", u>>)
    BY <1>t, <2>1 DEF Drift, Shape, Gone
  <2>2. ASSUME NEW u \in Terminals, HostCall # NoCall, HostCall.by = <<"gone", u>>
        PROVE  conn'[u] = "shut"
    BY <1>t, <2>2 DEF Drift, Shape, Gone
  <2>3. ASSUME <<"gone", t>> \in news' \ news
        PROVE  conn'[t] = "shut" /\ (HostCall # NoCall => HostCall.by # <<"gone", t>>)
    BY <1>t, <2>3 DEF Drift, Shape, Gone
  <2>4. \A u \in Terminals \ {t} : <<"gone", u>> \in news' => <<"gone", u>> \in news
    OBVIOUS
  <2>. QED BY <2>1, <2>2, <2>3, <2>4 DEF Gone
<1>4. \A u \in Terminals : Pending(u) => Pending(u)'
  BY <1>t DEF Pending
<1>5. Pending(t)' \/ Roster' = Roster
  BY <1>t DEF Pending, Roster
<1>6. \A u \in Terminals \ {t} : u \in Roster' <=> u \in Roster
  BY <1>t DEF Roster
<1>7. Read'
  BY <1>4, <1>5, <1>6 DEF Drift, Read
<1>8. Alone'
  <2>1. SUFFICES ASSUME SeedCall # NoCall, met' = "no" PROVE met = "no" /\ Roster' = Roster
    BY DEF Drift, Alone, Passed, Carries, Tabled
  <2>. QED BY <2>1, <1>t DEF Meets, Roster
<1>9. Whole'
  BY DEF Drift, Whole, Passed, Tabled
<1>10. InTouch'
  <2>1. ASSUME main = "waiting" PROVE met' = met
    BY <2>1 DEF Drift, Shape, Order, Meets
  <2>. QED BY <2>1, <1>4, <1>5, <1>6 DEF Drift, InTouch, ToSession, Carries, Tabled
<1>11. Came'
  BY <1>t DEF Drift, Came, Tabled
<1>. QED BY <1>1, <1>2, <1>3, <1>7, <1>8, <1>9, <1>10, <1>11 DEF Drift, Shape

\* A terminal's new size.
LEMMA DriftResize ==
    ASSUME Drift, NEW t \in Terminals, Resize(t)
    PROVE  Drift'
<1>. USE DEF HostCall, SeedCall
<1>1. /\ cols' = [cols EXCEPT ![t] = @ + 1] /\ cols[t] < MaxSize /\ news' = news \cup {<<"size", t>>}
      /\ UNCHANGED <<main, registered, conn, calls, met, known, table>>
  BY DEF Resize, sessVars, progVars
<1>2. RosterTypes'
  <2>1. news' \subseteq Changes
    BY <1>1 DEF Drift, Shape, RosterTypes, Changes
  <2>2. cols' \in [Terminals -> 1..MaxSize]
    BY <1>1, ServedAssumption DEF Drift, Shape, RosterTypes
  <2>. QED BY <1>1, <2>1, <2>2 DEF Drift, Shape, RosterTypes
<1>3. Order' /\ CallShape' /\ Gone' /\ Came'
  BY <1>1 DEF Drift, Shape, Order, CallShape, Gone, Came, Tabled
<1>4. \A u \in Terminals : Pending(u)' <=> Pending(u)
  BY <1>1 DEF Pending
<1>5. Read' /\ Alone' /\ Whole' /\ InTouch'
  BY <1>1, <1>4 DEF Drift, Read, Alone, Whole, InTouch, Passed, ToSession, Carries, Roster, Tabled
<1>. QED BY <1>2, <1>3, <1>5 DEF Drift, Shape

\* The host reads the roster: it carries from then on what was pending.
LEMMA DriftRecompute ==
    ASSUME Drift, PInv, ~quitting, NEW n \in news, Recompute(n)
    PROVE  Drift'
<1>1. RosterTypes
  BY DEF Drift, Shape
<1>2. /\ HostCall = NoCall /\ HostCall' # NoCall /\ SeedCall' = SeedCall
      /\ HostCall'.by = n /\ HostCall'.roster = Roster
      /\ HostCall'.on = registered /\ HostCall'.whole = Seeded
      /\ HostCall'.at = IF n[1] = "join" /\ "size" \in registered THEN "size"
                        ELSE IF "clients" \in registered THEN "session" ELSE "end"
      /\ calls' \in [{"host", "seed"} -> Calls \cup {NoCall}]
      /\ news' = news \ {n} /\ n \in Changes
  BY <1>1, RecomputeDoes
<1>3. /\ met' = IF SeedCall # NoCall /\ "clients" \in registered THEN "yes" ELSE met
      /\ UNCHANGED <<main, registered, conn, cols, known, table>>
  BY DEF Recompute, sizeVars, sessVars, progVars, SeedCall
<1>4. Seeded <=> main = "waiting"
  BY <1>1 DEF RosterTypes, Seeded, Before
<1>5. RosterTypes' /\ Order'
  BY <1>1, <1>2, <1>3 DEF Drift, Shape, RosterTypes, Order, Before
<1>6. CallShape' /\ Gone'
  BY <1>2, <1>3, <1>4 DEF Drift, Shape, Order, CallShape, Gone
<1>7. Read'
  BY <1>2, <1>3 DEF Read, Roster
<1>8. Alone'
  BY <1>2, <1>3 DEF Drift, Shape, Order, Alone, Roster, Passed, Tabled, Before
<1>9. Whole'
  BY <1>2, <1>3, <1>4 DEF Drift, Shape, Order, Whole, Passed
<1>10. InTouch'
  BY <1>2, <1>3 DEF Drift, Shape, Order, InTouch, ToSession, Carries
<1>11. Came'
  <2>1. \A t \in Roster : conn[t] = "here"
    BY DEF Roster
  <2>. QED BY <2>1, <1>2, <1>3 DEF Drift, Came, Tabled, HostCall, SeedCall
<1>. QED BY <1>5, <1>6, <1>7, <1>8, <1>9, <1>10, <1>11 DEF Drift, Shape

\* The size of the one that has joined goes first, and changes no roster.
LEMMA DriftJoinSize ==
    ASSUME Drift, JoinSize
    PROVE  Drift'
<1>. DEFINE at == IF "clients" \in HostCall.on THEN "session" ELSE "end"
<1>1. RosterTypes /\ HostCall # NoCall /\ HostCall.at = "size" /\ calls' = [calls EXCEPT !["host"].at = at]
  BY DEF Drift, Shape, JoinSize, HostCall
<1>2. UNCHANGED <<main, registered, conn, news, met, cols, known, table>>
  BY DEF JoinSize, sessVars, progVars
<1>3. at \in {"session", "runner", "end"} /\ (at = "session" <=> "clients" \in HostCall.on) /\ at # "runner"
  OBVIOUS
<1>. HIDE DEF at
<1>4. /\ calls' \in [{"host", "seed"} -> Calls \cup {NoCall}] /\ SeedCall' = SeedCall
      /\ HostCall' # NoCall /\ HostCall'.at = at
      /\ HostCall'.by = HostCall.by /\ HostCall'.roster = HostCall.roster
      /\ HostCall'.on = HostCall.on /\ HostCall'.whole = HostCall.whole
  BY <1>1, <1>3, GoesOn DEF HostCall, SeedCall
<1>5. Shape'
  BY <1>1, <1>2, <1>3, <1>4 DEF Drift, Shape, RosterTypes, Order, CallShape, Gone
<1>6. \A t \in Terminals : (Pending(t)' <=> Pending(t)) /\ (t \in Roster' <=> t \in Roster)
  BY <1>2 DEF Pending, Roster
<1>7. Read'
  BY <1>1, <1>4, <1>6 DEF Drift, Read
<1>8. Roster' = Roster /\ Tabled' = Tabled /\ (Carries(HostCall)' <=> Carries(HostCall))
      /\ (ToSession(HostCall)' <=> ToSession(HostCall))
  BY <1>1, <1>2, <1>3, <1>4 DEF Roster, Tabled, Carries, ToSession
<1>9. Alone'
  BY <1>2, <1>4, <1>8 DEF Drift, Alone, Passed
<1>10. Whole'
  BY <1>1, <1>3, <1>4 DEF Drift, Whole, Shape, CallShape, Passed
<1>11. InTouch'
  BY <1>2, <1>6, <1>8 DEF Drift, InTouch
<1>12. Came'
  BY <1>1, <1>2, <1>4, <1>8 DEF Drift, Came, HostCall, SeedCall
<1>. QED BY <1>5, <1>7, <1>9, <1>10, <1>11, <1>12 DEF Drift

\* A call of the host ends.  If it began when RunServed was waiting, programs
\* and roster agree again but for what is pending.
LEMMA DriftEnds ==
    ASSUME Drift, RecomputeEnds
    PROVE  Drift'
<1>1. RosterTypes
  BY DEF Drift, Shape
<1>2. /\ HostCall # NoCall /\ HostCall.at = "end" /\ HostCall' = NoCall /\ SeedCall' = SeedCall
      /\ calls' \in [{"host", "seed"} -> Calls \cup {NoCall}]
  BY <1>1, EndsDoes
<1>3. /\ conn' = IF HostCall.by[1] = "gone" THEN [conn EXCEPT ![HostCall.by[2]] = "gone"] ELSE conn
      /\ met' = IF met = "yes" /\ HostCall.whole THEN "mended" ELSE met
      /\ UNCHANGED <<main, registered, news, cols, known, table>>
  BY DEF RecomputeEnds, sessVars, progVars, HostCall
<1>4. HostCall.by \in Changes
  BY <1>2 DEF Drift, Shape, CallShape
<1>5. \A t \in Terminals : conn'[t] = conn[t] \/ (conn[t] = "shut" /\ conn'[t] = "gone" /\ <<"gone", t>> = HostCall.by)
  <2>1. CASE HostCall.by[1] = "gone"
    <3>1. PICK t \in Terminals : HostCall.by = <<"gone", t>>
      BY <1>4, <2>1 DEF Changes
    <3>2. conn[t] = "shut"
      BY <1>2, <3>1 DEF Drift, Shape, Gone
    <3>. QED BY <1>1, <1>3, <3>1, <3>2 DEF RosterTypes
  <2>2. CASE HostCall.by[1] # "gone"
    BY <1>3, <2>2
  <2>. QED BY <2>1, <2>2
<1>6. conn' \in [Terminals -> Places]
  BY <1>1, <1>3, <1>4 DEF RosterTypes, Places, Changes
<1>7. Roster' = Roster /\ Tabled' = Tabled
      /\ \A t \in Terminals : Pending(t)' <=> Pending(t)
  BY <1>3, <1>5 DEF Roster, Tabled, Pending
<1>8. met' = met \/ (met = "yes" /\ HostCall.whole /\ met' = "mended" /\ main = "waiting")
  BY <1>2, <1>3 DEF Drift, Shape, CallShape
<1>9. RosterTypes' /\ Order' /\ CallShape'
  BY <1>1, <1>2, <1>3, <1>6, <1>8 DEF Drift, Shape, RosterTypes, Order, CallShape, Before
<1>10. Gone'
  <2>1. SUFFICES ASSUME NEW t \in Terminals, <<"gone", t>> \in news PROVE conn'[t] = "shut"
    BY <1>2, <1>3 DEF Gone
  <2>2. conn[t] = "shut" /\ HostCall.by # <<"gone", t>>
    BY <1>2, <2>1 DEF Drift, Shape, Gone
  <2>. QED BY <1>5, <2>2
<1>11. Read' /\ Whole'
  BY <1>2 DEF Read, Whole
<1>12. Alone'
  BY <1>2, <1>3, <1>7, <1>8 DEF Drift, Shape, Order, Alone, Passed, Carries
<1>13. InTouch'
  <2>1. CASE met' = met
    BY <1>2, <1>3, <1>7, <2>1 DEF Drift, InTouch, ToSession, Carries
  <2>2. CASE met' # met
    <3>1. known = HostCall.roster /\ Tabled = HostCall.roster
      BY <1>2, <1>8, <2>2 DEF Drift, Whole, Passed
    <3>. QED BY <1>2, <1>3, <1>7, <3>1 DEF Drift, Read, InTouch
  <2>. QED BY <2>1, <2>2
<1>14. Came'
  BY <1>2, <1>3, <1>5, <1>7 DEF Drift, Came, HostCall, SeedCall
<1>. QED BY <1>9, <1>10, <1>11, <1>12, <1>13, <1>14 DEF Drift, Shape

\* What a call of onClients leaves of the invariant, whatever it does: it goes
\* on, and the connections are not its own.
LEMMA DriftCall ==
    ASSUME Drift, NEW w \in {"host", "seed"}, calls[w] # NoCall, NEW at \in {"runner", "end"},
           calls' = [calls EXCEPT ![w].at = at],
           UNCHANGED <<main, registered, conn, news, met, cols>>, known' \subseteq Terminals,
           calls[w].at \in {"session", "runner"}
    PROVE  /\ Shape' /\ Read' /\ Roster' = Roster
           /\ \A t \in Terminals : Pending(t)' <=> Pending(t)
           /\ calls'[w] # NoCall /\ calls'[w].at = at /\ calls'[w].roster = calls[w].roster
           /\ calls'[w].on = calls[w].on /\ calls'[w].whole = calls[w].whole
           /\ \A u \in {"host", "seed"} \ {w} : calls'[u] = calls[u]
           /\ "clients" \in calls[w].on
<1>1. /\ calls' \in [{"host", "seed"} -> Calls \cup {NoCall}]
      /\ \A u \in {"host", "seed"} \ {w} : calls'[u] = calls[u]
      /\ calls'[w] # NoCall /\ calls'[w].at = at
      /\ calls'[w].by = calls[w].by /\ calls'[w].roster = calls[w].roster
      /\ calls'[w].on = calls[w].on /\ calls'[w].whole = calls[w].whole
  BY GoesOn DEF Drift, Shape
<1>2. "clients" \in calls[w].on
  BY DEF Drift, Shape, CallShape, HostCall, SeedCall
<1>3. /\ HostCall' # NoCall <=> HostCall # NoCall
      /\ HostCall' # NoCall => /\ HostCall'.by = HostCall.by /\ HostCall'.roster = HostCall.roster
                               /\ HostCall'.on = HostCall.on /\ HostCall'.whole = HostCall.whole
                               /\ HostCall'.at \in {HostCall.at, "runner", "end"}
                               /\ HostCall'.at # HostCall.at => "clients" \in HostCall.on
  BY <1>1, <1>2 DEF HostCall
<1>4. /\ SeedCall' # NoCall <=> SeedCall # NoCall
      /\ SeedCall' # NoCall => SeedCall'.on = SeedCall.on /\ SeedCall'.at \in {SeedCall.at, "runner", "end"}
  BY <1>1 DEF SeedCall
<1>5. RosterTypes' /\ Order'
  BY <1>1, <1>4 DEF Drift, Shape, RosterTypes, Order
<1>6. CallShape'
  BY <1>3, <1>4 DEF Drift, Shape, CallShape
<1>7. Gone'
  BY <1>3 DEF Drift, Shape, Gone
<1>8. Roster' = Roster /\ \A t \in Terminals : Pending(t)' <=> Pending(t)
  BY DEF Roster, Pending
<1>9. Read'
  BY <1>3, <1>8 DEF Drift, Read
<1>. QED BY <1>1, <1>2, <1>5, <1>6, <1>7, <1>8, <1>9 DEF Shape

\* SetClients: the session knows the roster that the call carries.
LEMMA DriftSetClients ==
    ASSUME Drift, NEW w \in {"host", "seed"}, SetClients(w)
    PROVE  Drift'
<1>1. /\ calls[w] # NoCall /\ calls[w].at = "session" /\ known' = calls[w].roster
      /\ calls' = [calls EXCEPT ![w].at = "runner"] /\ known' \subseteq Terminals
  BY SetClientsDoes DEF Drift, Shape
<1>2. UNCHANGED <<main, registered, conn, news, met, cols, table>>
  BY DEF SetClients, sizeVars, progVars
<1>3. /\ Shape' /\ Read' /\ Roster' = Roster
      /\ \A t \in Terminals : Pending(t)' <=> Pending(t)
      /\ calls'[w] # NoCall /\ calls'[w].at = "runner" /\ calls'[w].roster = calls[w].roster
      /\ calls'[w].on = calls[w].on /\ calls'[w].whole = calls[w].whole
      /\ \A u \in {"host", "seed"} \ {w} : calls'[u] = calls[u]
      /\ "clients" \in calls[w].on
  BY <1>1, <1>2, DriftCall
<1>4. Tabled' = Tabled
  BY <1>2 DEF Tabled
<1>5. CASE w = "host"
  <2>1. HostCall # NoCall /\ ToSession(HostCall) /\ Carries(HostCall)' /\ SeedCall' = SeedCall
    BY <1>1, <1>3, <1>5 DEF ToSession, Carries, HostCall, SeedCall
  <2>2. ~(SeedCall # NoCall /\ met = "no")
    BY <2>1 DEF Drift, Alone, ToSession
  <2>3. Alone' /\ Whole'
    BY <1>1, <1>2, <1>3, <1>5, <2>1, <2>2 DEF Alone, Whole, Passed, HostCall
  <2>4. InTouch'
    BY <1>1, <1>2, <1>3, <1>5, <2>1 DEF Drift, Read, InTouch, HostCall
  <2>. QED BY <1>1, <1>2, <1>3, <1>4, <2>3, <2>4 DEF Drift, Came
<1>6. CASE w = "seed"
  <2>1. SeedCall # NoCall /\ HostCall' = HostCall /\ main = "seed"
    BY <1>1, <1>3, <1>6 DEF Drift, Shape, Order, HostCall, SeedCall
  <2>2. Carries(HostCall)' <=> Carries(HostCall)
    BY <2>1 DEF Carries
  <2>3. Alone'
    BY <1>1, <1>2, <1>3, <1>6, <2>1, <2>2 DEF Drift, Alone, Passed, SeedCall
  <2>4. Whole' /\ InTouch'
    BY <1>2, <2>1 DEF Drift, Shape, CallShape, Whole, InTouch
  <2>. QED BY <1>1, <1>2, <1>3, <1>4, <2>3, <2>4 DEF Drift, Came
<1>. QED BY <1>5, <1>6

\* onClients: the programs are those of the roster that the call carries.
LEMMA DriftOnClients ==
    ASSUME Drift, PInv, ~quitting, NEW w \in {"host", "seed"}, OnClients(w)
    PROVE  Drift'
<1>1. /\ calls[w] # NoCall /\ calls[w].at = "runner" /\ Tabled' = calls[w].roster
      /\ calls' = [calls EXCEPT ![w].at = "end"]
  BY OnClientsDoes DEF Drift, Shape
<1>2. UNCHANGED <<main, registered, conn, news, met, cols, known>>
  BY DEF OnClients
<1>3. known' \subseteq Terminals
  BY <1>2 DEF Drift, Shape, RosterTypes
<1>4. /\ Shape' /\ Read' /\ Roster' = Roster
      /\ \A t \in Terminals : Pending(t)' <=> Pending(t)
      /\ calls'[w] # NoCall /\ calls'[w].at = "end" /\ calls'[w].roster = calls[w].roster
      /\ calls'[w].on = calls[w].on /\ calls'[w].whole = calls[w].whole
      /\ \A u \in {"host", "seed"} \ {w} : calls'[u] = calls[u]
      /\ "clients" \in calls[w].on
  BY <1>1, <1>2, <1>3, DriftCall
<1>5. CASE w = "host"
  <2>1. HostCall # NoCall /\ Carries(HostCall) /\ ~ToSession(HostCall) /\ SeedCall' = SeedCall
    BY <1>1, <1>4, <1>5 DEF ToSession, Carries, HostCall, SeedCall
  <2>2. ~(SeedCall # NoCall /\ met = "no")
    BY <2>1 DEF Drift, Alone
  <2>3. Alone' /\ Whole'
    BY <1>1, <1>2, <1>4, <1>5, <2>1, <2>2 DEF Drift, Alone, Whole, Passed, HostCall
  <2>4. InTouch'
    BY <1>1, <1>2, <1>4, <1>5, <2>1 DEF Drift, Read, InTouch, HostCall
  <2>. QED BY <1>1, <1>2, <1>4, <2>3, <2>4 DEF Drift, Came
<1>6. CASE w = "seed"
  <2>1. SeedCall # NoCall /\ HostCall' = HostCall /\ main = "seed"
    BY <1>1, <1>4, <1>6 DEF Drift, Shape, Order, HostCall, SeedCall
  <2>2. Carries(HostCall)' <=> Carries(HostCall)
    BY <2>1 DEF Carries
  <2>3. Alone'
    BY <1>1, <1>2, <1>4, <1>6, <2>1, <2>2 DEF Drift, Alone, Passed, SeedCall
  <2>4. Whole' /\ InTouch'
    BY <1>2, <2>1 DEF Drift, Shape, CallShape, Whole, InTouch
  <2>. QED BY <1>1, <1>2, <1>4, <2>3, <2>4 DEF Drift, Came
<1>. QED BY <1>5, <1>6

\* RunServed registers a callback.
LEMMA DriftRegisters ==
    ASSUME Drift, Registers \/ RegistersQuit \/ RegistersInput
    PROVE  Drift'
<1>1. UNCHANGED <<conn, news, calls, met, cols, known, table>>
  BY DEF Registers, RegistersQuit, RegistersInput, sizeVars, sessVars, progVars
<1>2. /\ main' \in Before /\ main \in Before
      /\ registered \subseteq registered' /\ registered' \subseteq {"size", "clients", "quit", "input"}
      /\ main' \notin {"start", "size"} => "clients" \in registered'
      /\ main' # "start" => "size" \in registered'
      /\ "clients" \in registered' => "size" \in registered'
      /\ main' = "feed" => "input" \in registered'
  <2>1. CASE Registers
    <3>1. \/ main = "start" /\ main' = "size" /\ registered' = registered \cup {"size"}
          \/ main = "size" /\ main' = "clients" /\ registered' = registered \cup {"clients"}
          \/ main = "clients" /\ main' = "quit" /\ registered' = registered
      BY <2>1 DEF Registers
    <3>. QED BY <3>1 DEF Drift, Shape, RosterTypes, Order, Before
  <2>2. CASE RegistersQuit \/ RegistersInput
    BY <2>2 DEF RegistersQuit, RegistersInput, Drift, Shape, RosterTypes, Order, Before
  <2>. QED BY <2>1, <2>2
<1>3. main \notin {"seed", "waiting"} /\ main' \notin {"seed", "waiting"}
  BY <1>2 DEF Before
<1>4. Shape'
  BY <1>1, <1>2, <1>3 DEF Drift, Shape, RosterTypes, Order, CallShape, Gone, HostCall, SeedCall
<1>5. Read' /\ Alone' /\ Whole' /\ InTouch' /\ Came'
  BY <1>1, <1>3 DEF Drift, Read, Alone, Whole, InTouch, Came, Passed, Carries, Roster, Tabled, Pending, HostCall, SeedCall
<1>. QED BY <1>4, <1>5 DEF Drift

\* RunServed's own call begins.
LEMMA DriftSeeds ==
    ASSUME Drift, Seeds
    PROVE  Drift'
<1>1. /\ SeedCall' # NoCall /\ SeedCall'.roster = Roster
      /\ SeedCall'.on = registered /\ SeedCall'.at = "session" /\ HostCall' = HostCall
      /\ calls' \in [{"host", "seed"} -> Calls \cup {NoCall}]
  BY SeedsDoes DEF Drift, Shape
<1>2. /\ main = "feed" /\ main' = "seed"
      /\ met' = IF Carries(HostCall) THEN "yes" ELSE met
      /\ UNCHANGED <<registered, conn, news, cols, known, table>>
  BY DEF Seeds, sizeVars, sessVars, progVars, Carries, HostCall
<1>3. RosterTypes' /\ Order' /\ CallShape' /\ Gone'
  BY <1>1, <1>2 DEF Drift, Shape, RosterTypes, Order, CallShape, Gone, Before
<1>4. \A t \in Terminals : (Pending(t)' <=> Pending(t)) /\ (t \in Roster' <=> t \in Roster)
  BY <1>2 DEF Pending, Roster
<1>5. Read'
  BY <1>1, <1>4 DEF Drift, Read
<1>6. Alone'
  BY <1>1, <1>2 DEF Alone, Passed, Carries, Roster
<1>7. Whole' /\ InTouch'
  BY <1>1, <1>2 DEF Drift, Shape, CallShape, Whole, InTouch
<1>8. Came'
  <2>1. \A t \in Roster : conn[t] = "here"
    BY DEF Roster
  <2>. QED BY <1>1, <1>2, <2>1 DEF Drift, Came, Tabled, HostCall, SeedCall
<1>. QED BY <1>3, <1>5, <1>6, <1>7, <1>8 DEF Drift, Shape

\* RunServed's own call ends, and unless it met a change all is in touch.
LEMMA DriftSeedEnds ==
    ASSUME Drift, SeedEnds
    PROVE  Drift'
<1>1. /\ SeedCall.at = "end" /\ SeedCall' = NoCall /\ HostCall' = HostCall
      /\ calls' \in [{"host", "seed"} -> Calls \cup {NoCall}]
  BY SeedEndsDoes DEF Drift, Shape
<1>2. /\ main = "seed" /\ main' = "waiting"
      /\ UNCHANGED <<registered, conn, news, met, cols, known, table>>
  BY DEF SeedEnds, sizeVars, sessVars, progVars
<1>3. RosterTypes' /\ Order' /\ CallShape' /\ Gone'
  BY <1>1, <1>2 DEF Drift, Shape, RosterTypes, Order, CallShape, Gone, Before
<1>4. \A t \in Terminals : (Pending(t)' <=> Pending(t)) /\ (t \in Roster' <=> t \in Roster)
  BY <1>2 DEF Pending, Roster
<1>5. Read' /\ Alone' /\ Whole'
  BY <1>1, <1>2, <1>4 DEF Drift, Shape, CallShape, Read, Alone, Whole
<1>6. InTouch'
  <2>1. SUFFICES ASSUME met # "yes" PROVE known = Roster /\ Tabled = Roster
    BY <1>2 DEF InTouch, Roster, Tabled
  <2>2. met = "no" /\ SeedCall # NoCall
    BY <1>2, <2>1 DEF Drift, Shape, RosterTypes, Order
  <2>. QED BY <1>1, <2>2 DEF Drift, Alone, Passed
<1>7. Came'
  BY <1>1, <1>2 DEF Drift, Came, Tabled, HostCall, SeedCall
<1>. QED BY <1>3, <1>5, <1>6, <1>7 DEF Drift, Shape

\* A step of a terminal, as the roster sees it.
LEMMA Conns ==
    ASSUME NEW t \in Terminals, Outs(t) \/ Attach(t) \/ Hangup(t)
    PROVE  /\ \E place \in {"here", "refused", "out", "shut"} : Goes(t, place)
           /\ UNCHANGED <<main, registered, calls, sizeVars, known, table, gen, stops, views, keyVars>>
<1>1. CASE Outs(t)
  BY <1>1 DEF Outs, Out, Goes
<1>2. CASE Attach(t)
  <2>1. UNCHANGED <<main, registered, calls, sizeVars, known, table, gen, stops, views, keyVars>>
    BY <1>2 DEF Attach, sessVars, progVars
  <2>2. CASE closing
    BY <1>2, <2>1, <2>2 DEF Attach, Goes
  <2>3. CASE ~closing
    BY <1>2, <2>1, <2>3 DEF Attach, Goes
  <2>. QED BY <2>2, <2>3
<1>3. CASE Hangup(t)
  BY <1>3 DEF Hangup, Goes, sessVars, progVars
<1>. QED BY <1>1, <1>2, <1>3

LEMMA DriftStep ==
    ASSUME Drift, PInv, ~quitting, Moves
    PROVE  Drift'
<1>. USE DEF sizeVars, sessVars, progVars, keyVars, hostVars
<1>1. CASE UNCHANGED svars
  BY <1>1, DriftStill DEF svars, dvars
<1>2. CASE \E t \in Terminals : Outs(t) \/ Attach(t) \/ Hangup(t)
  BY <1>2, Conns, DriftConn
<1>3. CASE \E t \in Terminals : Resize(t)
  BY <1>3, DriftResize
<1>4. CASE \E t \in Terminals : ResizeSent(t) \/ Evicts(t) \/ Repaints(t) \/ Type(t) \/ Route(t) \/ FeedsEarly(t)
  <2>1. UNCHANGED dvars
    BY <1>4 DEF ResizeSent, Evicts, Repaints, Type, Route, FeedsEarly, dvars
  <2>. QED BY <2>1, DriftStill
<1>5. CASE \E i \in stops : Stops(i)
  <2>1. UNCHANGED dvars
    BY <1>5 DEF Stops, dvars
  <2>. QED BY <2>1, DriftStill
<1>6. CASE OfRoster
  BY <1>6, DriftRecompute, DriftJoinSize, DriftEnds DEF OfRoster
<1>7. CASE \E w \in {"host", "seed"} : OfCall(w)
  BY <1>7, DriftSetClients, DriftOnClients DEF OfCall
<1>8. CASE Registers \/ RegistersQuit \/ RegistersInput \/ Seeds \/ SeedEnds
  BY <1>8, DriftRegisters, DriftSeeds, DriftSeedEnds
<1>. QED BY <1>1, <1>2, <1>3, <1>4, <1>5, <1>6, <1>7, <1>8 DEF Moves

-----------------------------------------------------------------------------
(* The views, step by step.  Once RunServed's own call has met a change it
   has. *)

\* Steps that leave programs and views alone.
LEMMA ViewsStill ==
    ASSUME Views, Drift, PInv, met' = "no" => met = "no", UNCHANGED <<table, known, stops, views, dropped>>,
           \A t \in Terminals : Left(t) => Left(t)',
           Carries(HostCall)' => Carries(HostCall) /\ HostCall'.roster = HostCall.roster,
           ToSession(HostCall)' => ToSession(HostCall),
           Carries(SeedCall)' => Carries(SeedCall) /\ SeedCall'.roster = SeedCall.roster,
           ToSession(SeedCall)' => ToSession(SeedCall)
    PROVE  Views'
<1>1. SUFFICES ASSUME met' = "no", met = "no" PROVE Viewed'
  BY DEF Views, ViewTypes, Viewed
<1>2. Tabled' = Tabled /\ Tabled \subseteq Terminals /\ known \subseteq Terminals
  BY DEF Tabled, Drift, Shape, RosterTypes
<1>t. (\A i \in stops : i[1] \in Terminals) /\ dropped \subseteq Terminals
  BY DEF Views, ViewTypes
<1>3. Once(HostCall)'
  <2>1. CASE ~Carries(HostCall)'
    BY <2>1 DEF Once, ToSession
  <2>2. CASE Carries(HostCall)'
    <3>1. Once(HostCall)
      BY <1>1 DEF Views, Viewed
    <3>2. ToSession(HostCall)' => \A t \in known' \ HostCall'.roster : Left(t)'
      BY <1>2, <2>2, <3>1 DEF Once
    <3>3. (\A t \in Tabled' \ HostCall'.roster : Left(t)') /\ (\A i \in stops' : i[1] \notin HostCall'.roster)
      BY <1>2, <2>2, <3>1 DEF Once
    <3>. QED BY <3>2, <3>3 DEF Once
  <2>. QED BY <2>1, <2>2
<1>4. Once(SeedCall)'
  <2>1. CASE ~Carries(SeedCall)'
    BY <2>1 DEF Once, ToSession
  <2>2. CASE Carries(SeedCall)'
    <3>1. Once(SeedCall)
      BY <1>1 DEF Views, Viewed
    <3>2. ToSession(SeedCall)' => \A t \in known' \ SeedCall'.roster : Left(t)'
      BY <1>2, <2>2, <3>1 DEF Once
    <3>3. (\A t \in Tabled' \ SeedCall'.roster : Left(t)') /\ (\A i \in stops' : i[1] \notin SeedCall'.roster)
      BY <1>2, <2>2, <3>1 DEF Once
    <3>. QED BY <3>2, <3>3 DEF Once
  <2>. QED BY <2>1, <2>2
<1>. QED BY <1>1, <1>2, <1>3, <1>4, <1>t DEF Views, Viewed

\* Whoever has a program or a view, or is known, and is not in the roster that
\* is read, has left.
LEMMA NotHereLeft ==
    ASSUME Drift, NEW t \in Tabled \cup known, t \notin Roster
    PROVE  Left(t)
<1>1. t \in Terminals /\ conn[t] \in Places
  BY DEF Tabled, Drift, Shape, RosterTypes
<1>. QED BY <1>1 DEF Drift, Came, Roster, Left, Places

\* A call reads the roster, when no other carries one.
LEMMA ViewsRead ==
    ASSUME Views, Drift, PInv, met' = "no" => met = "no", UNCHANGED <<conn, table, known, stops, views, dropped>>,
           \/ HostCall'.roster = Roster /\ SeedCall' = SeedCall
           \/ SeedCall'.roster = Roster /\ HostCall' = HostCall
    PROVE  Views'
<1>1. SUFFICES ASSUME met' = "no", met = "no" PROVE Viewed'
  BY DEF Views, ViewTypes, Viewed
<1>2. Tabled' = Tabled /\ \A t : Left(t)' <=> Left(t)
  BY DEF Tabled, Left
<1>3. \A i \in stops : i[1] \notin Roster
  BY <1>1 DEF Views, Viewed, Left, Roster
<1>4. \A t \in (Tabled \cup known) \ Roster : Left(t)
  BY NotHereLeft
<1>5. Once(HostCall)'
  <2>1. CASE HostCall'.roster = Roster
    BY <1>2, <1>3, <1>4, <2>1 DEF Once
  <2>2. CASE HostCall' = HostCall
    BY <1>1, <1>2, <2>2 DEF Views, Viewed, Once, ToSession, Carries
  <2>. QED BY <2>1, <2>2
<1>6. Once(SeedCall)'
  <2>1. CASE SeedCall'.roster = Roster
    BY <1>2, <1>3, <1>4, <2>1 DEF Once
  <2>2. CASE SeedCall' = SeedCall
    BY <1>1, <1>2, <2>2 DEF Views, Viewed, Once, ToSession, Carries
  <2>. QED BY <2>1, <2>2
<1>. QED BY <1>1, <1>2, <1>5, <1>6 DEF Views, Viewed

\* While RunServed's own call has met nothing, a call that carries a roster is
\* the only one.
LEMMA OneCarries ==
    ASSUME Drift, met = "no", NEW w \in {"host", "seed"}, Carries(calls[w])
    PROVE  \A u \in {"host", "seed"} \ {w} : ~Carries(calls[u])
<1>1. Carries(SeedCall) => ~Carries(HostCall)
  BY DEF Drift, Alone, Carries
<1>. QED BY <1>1 DEF HostCall, SeedCall

\* SetClients drops the terminals that have left, and no others.
LEMMA ViewsSetClients ==
    ASSUME Views, Drift, PInv, NEW w \in {"host", "seed"}, SetClients(w)
    PROVE  Views'
<1>1. /\ calls[w] # NoCall /\ calls[w].at = "session" /\ known' = calls[w].roster
      /\ calls' = [calls EXCEPT ![w].at = "runner"] /\ known' \subseteq Terminals
  BY SetClientsDoes DEF Drift, Shape
<1>2. UNCHANGED <<main, registered, conn, news, met, cols, table, stops, views>>
      /\ dropped' = dropped \cup (known \ calls[w].roster)
  BY DEF SetClients, sizeVars, progVars
<1>3. /\ calls'[w] # NoCall /\ calls'[w].at = "runner" /\ calls'[w].roster = calls[w].roster
      /\ calls'[w].on = calls[w].on
      /\ \A u \in {"host", "seed"} \ {w} : calls'[u] = calls[u]
      /\ "clients" \in calls[w].on
  BY <1>1, <1>2, DriftCall
<1>4. ViewTypes'
  BY <1>2 DEF Views, ViewTypes, Drift, Shape, RosterTypes
<1>5. SUFFICES ASSUME met = "no" PROVE Viewed'
  BY <1>2, <1>4 DEF Views, Viewed
<1>6. Carries(calls[w]) /\ ToSession(calls[w])
  BY <1>1, <1>3 DEF Carries, ToSession
<1>7. Once(calls[w])
  BY <1>5 DEF Views, Viewed, HostCall, SeedCall
<1>8. Tabled' = Tabled /\ \A t : Left(t)' <=> Left(t)
  BY <1>2 DEF Tabled, Left
<1>9. Once(calls[w])'
  BY <1>2, <1>3, <1>6, <1>7, <1>8 DEF Once, ToSession
<1>10. \A u \in {"host", "seed"} \ {w} : Once(calls[u])'
  <2>1. \A u \in {"host", "seed"} \ {w} : ~Carries(calls[u]) /\ calls'[u] = calls[u]
    BY <1>3, <1>5, <1>6, OneCarries
  <2>. QED BY <2>1 DEF Once, ToSession, Carries
<1>11. \A t \in dropped' : Left(t)'
  BY <1>2, <1>5, <1>6, <1>7, <1>8 DEF Views, Viewed, Once
<1>. QED BY <1>2, <1>5, <1>8, <1>9, <1>10, <1>11 DEF Views, Viewed, HostCall, SeedCall

\* onClients stops the program of a terminal that has left, which has no other
\* one on its way out, and starts none for such a terminal.
LEMMA ViewsOnClients ==
    ASSUME Views, Drift, PInv, ~quitting, NEW w \in {"host", "seed"}, OnClients(w)
    PROVE  Views'
<1>. DEFINE r == calls[w].roster
            new == r \ Tabled
            gone == Tabled \ r
<1>1. /\ calls[w] # NoCall /\ calls[w].at = "runner" /\ Tabled' = r
      /\ calls' = [calls EXCEPT ![w].at = "end"]
      /\ Newcomers(calls[w]) = new /\ Leavers(calls[w]) = gone
  BY OnClientsDoes DEF Drift, Shape
<1>2. /\ UNCHANGED <<main, registered, conn, news, met, cols, known, dropped>>
      /\ stops' = stops \cup {<<t, table[t]>> : t \in Leavers(calls[w])}
      /\ views' = views \cup Newcomers(calls[w])
  BY DEF OnClients
<1>3. /\ calls'[w] # NoCall /\ calls'[w].at = "end" /\ calls'[w].roster = r
      /\ \A u \in {"host", "seed"} \ {w} : calls'[u] = calls[u]
      /\ "clients" \in calls[w].on
  <2>1. known' \subseteq Terminals
    BY <1>2 DEF Drift, Shape, RosterTypes
  <2>. QED BY <1>1, <1>2, <2>1, DriftCall
<1>. HIDE DEF r
<1>t. Tabled \subseteq Terminals /\ \A t \in Tabled : table[t] \in Nat
  BY DEF Tabled, PInv, ProgTypes
<1>4. ViewTypes'
  BY <1>1, <1>2, <1>t DEF Views, ViewTypes
<1>5. SUFFICES ASSUME met = "no" PROVE Viewed'
  BY <1>2, <1>4 DEF Views, Viewed
<1>6. Carries(calls[w])
  BY <1>1, <1>3 DEF Carries
<1>7. Once(calls[w])
  BY <1>5 DEF Views, Viewed, HostCall, SeedCall
<1>8. (\A t \in gone : Left(t)) /\ (\A i \in stops : i[1] \notin r)
  BY <1>6, <1>7 DEF Once, r
<1>9. \A t : Left(t)' <=> Left(t)
  BY <1>2 DEF Left
<1>10. Once(calls[w])'
  BY <1>3 DEF Once, ToSession, Carries
<1>11. \A u \in {"host", "seed"} \ {w} : Once(calls[u])'
  <2>1. \A u \in {"host", "seed"} \ {w} : ~Carries(calls[u]) /\ calls'[u] = calls[u]
    BY <1>3, <1>5, <1>6, OneCarries
  <2>. QED BY <2>1 DEF Once, ToSession, Carries
<1>12. stops' = stops \cup {<<t, table[t]>> : t \in gone} /\ views' = views \cup new
  BY <1>1, <1>2
<1>13. /\ \A i \in stops : Left(i[1]) /\ i[1] \notin Tabled
       /\ \A i, k \in stops : i[1] = k[1] => i = k
       /\ views = Tabled \cup {i[1] : i \in stops}
       /\ \A t \in dropped : Left(t)
  BY <1>5 DEF Views, Viewed
<1>14. \A i \in stops' : Left(i[1])' /\ i[1] \notin Tabled'
  BY <1>1, <1>8, <1>9, <1>12, <1>13
<1>15. \A i, k \in stops' : i[1] = k[1] => i = k
  BY <1>12, <1>13
<1>16. views' = Tabled' \cup {i[1] : i \in stops'}
  <2>1. {i[1] : i \in stops'} = {i[1] : i \in stops} \cup gone
    <3>1. \A t \in gone : <<t, table[t]>> \in stops' /\ <<t, table[t]>>[1] = t
      BY <1>12
    <3>2. \A i \in stops' : i \in stops \/ i[1] \in gone
      BY <1>12
    <3>3. stops \subseteq stops'
      BY <1>12
    <3>. HIDE DEF gone
    <3>. QED BY <3>1, <3>2, <3>3
  <2>. QED BY <1>1, <1>12, <1>13, <2>1
<1>17. \A t \in dropped' : Left(t)'
  BY <1>2, <1>9, <1>13
<1>. QED BY <1>10, <1>11, <1>14, <1>15, <1>16, <1>17 DEF Viewed, HostCall, SeedCall

\* The view of a terminal that has left is let go when its program has ended.
LEMMA ViewsStops ==
    ASSUME Views, NEW i \in stops, Stops(i)
    PROVE  Views'
<1>1. /\ stops' = stops \ {i} /\ views' = views \ {i[1]}
      /\ UNCHANGED <<conn, calls, met, known, table, dropped>>
  BY DEF Stops, hostVars, keyVars
<1>2. ViewTypes'
  BY <1>1 DEF Views, ViewTypes
<1>3. SUFFICES ASSUME met = "no" PROVE Viewed'
  BY <1>1, <1>2 DEF Views, Viewed
<1>4. Once(HostCall)' /\ Once(SeedCall)'
  BY <1>1, <1>3 DEF Views, Viewed, Once, ToSession, Carries, Left, Tabled, HostCall, SeedCall
<1>5. Tabled' = Tabled /\ \A t : Left(t)' <=> Left(t)
  BY <1>1 DEF Tabled, Left
<1>6. /\ \A k \in stops : Left(k[1]) /\ k[1] \notin Tabled
      /\ \A j, k \in stops : j[1] = k[1] => j = k
      /\ views = Tabled \cup {k[1] : k \in stops}
      /\ \A t \in dropped : Left(t)
  BY <1>3 DEF Views, Viewed
<1>7. views' = Tabled' \cup {k[1] : k \in stops'}
  BY <1>1, <1>5, <1>6
<1>. QED BY <1>1, <1>4, <1>5, <1>6, <1>7 DEF Viewed

LEMMA ViewsStep ==
    ASSUME Views, Drift, PInv, ~quitting, Moves
    PROVE  Views'
<1>. USE DEF sizeVars, sessVars, progVars, keyVars, hostVars
<1>1. CASE UNCHANGED svars
  BY <1>1, ViewsStill DEF svars, Left, Carries, ToSession, HostCall, SeedCall
<1>2. CASE \E t \in Terminals : Outs(t) \/ Attach(t) \/ Hangup(t)
  <2>1. PICK t \in Terminals : Outs(t) \/ Attach(t) \/ Hangup(t)
    BY <1>2
  <2>2. UNCHANGED <<calls, known, table, stops, views, dropped>>
    BY <2>1, Conns
  <2>3. PICK place \in {"here", "refused", "out", "shut"} : Goes(t, place)
    BY <2>1, Conns
  <2>4. met' = "no" => met = "no"
    BY <2>3 DEF Goes, Meets
  <2>5. \A u \in Terminals : Left(u) => Left(u)'
    BY <2>3 DEF Goes, Left, Drift, Shape, RosterTypes
  <2>. QED BY <2>2, <2>4, <2>5, ViewsStill DEF Carries, ToSession, HostCall, SeedCall
<1>3. CASE \/ \E t \in Terminals : Resize(t) \/ ResizeSent(t) \/ Evicts(t) \/ Repaints(t)
           \/ \E t \in Terminals : Type(t) \/ Route(t) \/ FeedsEarly(t)
           \/ Registers \/ RegistersQuit \/ RegistersInput
  <2>1. UNCHANGED <<conn, calls, met, known, table, stops, views, dropped>>
    BY <1>3 DEF Resize, ResizeSent, Evicts, Repaints, Type, Route, FeedsEarly, Registers, RegistersQuit, RegistersInput
  <2>. QED BY <2>1, ViewsStill DEF Left, Carries, ToSession, HostCall, SeedCall
<1>4. CASE \E i \in stops : Stops(i)
  BY <1>4, ViewsStops
<1>5. CASE \E n \in news : Recompute(n)
  <2>1. PICK n \in news : Recompute(n)
    BY <1>5
  <2>2. HostCall'.roster = Roster /\ SeedCall' = SeedCall
    BY <2>1, RecomputeDoes DEF Drift, Shape
  <2>3. UNCHANGED <<conn, table, known, stops, views, dropped>> /\ (met' = "no" => met = "no")
    BY <2>1 DEF Recompute
  <2>. QED BY <2>2, <2>3, ViewsRead
<1>6. CASE Seeds
  <2>1. SeedCall'.roster = Roster /\ HostCall' = HostCall
    BY <1>6, SeedsDoes DEF Drift, Shape
  <2>2. UNCHANGED <<conn, table, known, stops, views, dropped>> /\ (met' = "no" => met = "no")
    BY <1>6 DEF Seeds
  <2>. QED BY <2>1, <2>2, ViewsRead
<1>7. CASE JoinSize
  <2>. DEFINE at == IF "clients" \in HostCall.on THEN "session" ELSE "end"
  <2>1. RosterTypes /\ HostCall # NoCall /\ HostCall.at = "size" /\ calls' = [calls EXCEPT !["host"].at = at]
    BY <1>7 DEF Drift, Shape, JoinSize, HostCall
  <2>2. UNCHANGED <<conn, met, known, table, stops, views, dropped>>
    BY <1>7 DEF JoinSize
  <2>3. at \in {"session", "runner", "end"}
    OBVIOUS
  <2>. HIDE DEF at
  <2>4. /\ SeedCall' = SeedCall /\ HostCall' # NoCall
        /\ HostCall'.roster = HostCall.roster /\ HostCall'.on = HostCall.on
    BY <2>1, <2>3, GoesOn DEF HostCall, SeedCall
  <2>. QED BY <2>1, <2>2, <2>4, ViewsStill DEF Left, Carries, ToSession
<1>8. CASE RecomputeEnds
  <2>1. HostCall' = NoCall /\ SeedCall' = SeedCall
    BY <1>8, EndsDoes DEF Drift, Shape
  <2>2. UNCHANGED <<known, table, stops, views, dropped>> /\ (met' = "no" => met = "no")
    BY <1>8 DEF RecomputeEnds
  <2>3. \A t \in Terminals : Left(t) => Left(t)'
    BY <1>8 DEF RecomputeEnds, Left, Drift, Shape, RosterTypes
  <2>. QED BY <2>1, <2>2, <2>3, ViewsStill DEF Carries, ToSession
<1>9. CASE SeedEnds
  <2>1. SeedCall' = NoCall /\ HostCall' = HostCall
    BY <1>9, SeedEndsDoes DEF Drift, Shape
  <2>2. UNCHANGED <<conn, met, known, table, stops, views, dropped>>
    BY <1>9 DEF SeedEnds
  <2>. QED BY <2>1, <2>2, ViewsStill DEF Left, Carries, ToSession
<1>10. CASE \E w \in {"host", "seed"} : OfCall(w)
  BY <1>10, ViewsSetClients, ViewsOnClients DEF OfCall
<1>. QED BY <1>1, <1>2, <1>3, <1>4, <1>5, <1>6, <1>7, <1>8, <1>9, <1>10 DEF Moves, OfRoster

-----------------------------------------------------------------------------
(* The sizes, step by step.  A program is behind its terminal only while a
   resize is on its way: pending, with the call it made, or with its handler. *)

\* Steps that change neither a size nor a call.
LEMMA SizesStill ==
    ASSUME Sizes, Drift, UNCHANGED <<cols, sizing, repaint, shown, overtaken, calls, table>>,
           registered \subseteq registered', \A t \in Terminals : Resized(t) => Resized(t)',
           \A t \in Terminals : conn'[t] = "here" =>
               \/ conn[t] = "away"
               \/ conn[t] = "here" /\ (<<"join", t>> \in news' => <<"join", t>> \in news)
    PROVE  Sizes'
<1>1. Tabled' = Tabled /\ Tabled \subseteq Terminals
  BY DEF Tabled
<1>2. SizeTypes' /\ SizesRead'
  BY DEF Sizes, SizeTypes, SizesRead, HostCall
<1>3. SeedSizes'
  <2>1. SUFFICES ASSUME NEW t \in Terminals, Carries(SeedCall), t \in SeedCall.roster, conn'[t] = "here",
                        SeedCall.cols[t] # cols[t]
                 PROVE  /\ <<"join", t>> \notin news'
                        /\ Resized(t)' \/ (Carries(HostCall) /\ HostCall.by = <<"size", t>>) \/ t \in Tabled
    BY <1>1 DEF SeedSizes, Carries, HostCall, SeedCall
  <2>2. conn[t] # "away"
    BY <2>1 DEF Drift, Came, Carries, SeedCall
  <2>. QED BY <2>1, <2>2 DEF Sizes, SeedSizes
<1>4. Sized'
  <2>1. SUFFICES ASSUME NEW t \in Tabled
                 PROVE  /\ "size" \in registered'
                        /\ conn'[t] = "here" /\ t \notin sizing \cup overtaken /\ repaint[t] = 0 =>
                               shown[t] = cols[t] \/ Resized(t)' \/ Brings(t)
    BY <1>1 DEF Sized, Brings, HostCall
  <2>2. conn[t] # "away" /\ t \in Terminals
    BY <1>1, <2>1 DEF Drift, Came
  <2>. QED BY <2>1, <2>2 DEF Sizes, Sized
<1>. QED BY <1>2, <1>3, <1>4 DEF Sizes

\* A new size is pending.  A terminal that resizes has been read since it came.
LEMMA SizesResize ==
    ASSUME Sizes, Drift, NEW t \in Terminals, Resize(t)
    PROVE  Sizes'
<1>1. /\ cols' = [cols EXCEPT ![t] = @ + 1] /\ news' = news \cup {<<"size", t>>}
      /\ UNCHANGED <<registered, conn, calls, table, sizing, repaint, shown, overtaken>>
      /\ <<"join", t>> \notin news /\ (HostCall # NoCall => HostCall.by # <<"join", t>>)
  BY DEF Resize, Reading, progVars, HostCall
<1>2. /\ \A u \in Terminals : Resized(u) => Resized(u)'
      /\ Resized(t)'
      /\ \A u \in Terminals \ {t} : cols'[u] = cols[u]
      /\ \A u \in Terminals : <<"join", u>> \in news' => <<"join", u>> \in news
  BY <1>1 DEF Resized
<1>3. SizeTypes' /\ SizesRead'
  BY <1>1, <1>2 DEF Sizes, SizeTypes, SizesRead, HostCall
<1>4. Tabled' = Tabled /\ Tabled \subseteq Terminals
  BY <1>1 DEF Tabled
<1>5. SeedSizes'
  BY <1>1, <1>2, <1>4 DEF Sizes, SeedSizes, Carries, HostCall, SeedCall
<1>6. Sized'
  BY <1>1, <1>2, <1>4 DEF Sizes, Sized, Brings, HostCall
<1>. QED BY <1>3, <1>5, <1>6 DEF Sizes

\* A step that gives a terminal no size but its own.
LEMMA SizesGiven ==
    ASSUME Sizes, UNCHANGED <<cols, registered, conn, news, calls, table>>, SizeTypes',
           \A u \in Tabled : u \notin sizing' \cup overtaken' /\ repaint'[u] = 0 =>
               \/ u \notin sizing \cup overtaken /\ repaint[u] = 0 /\ shown'[u] = shown[u]
               \/ shown'[u] = cols[u]
    PROVE  Sizes'
<1>1. Tabled' = Tabled
  BY DEF Tabled
<1>2. SizesRead' /\ SeedSizes'
  BY <1>1 DEF Sizes, SizesRead, SeedSizes, Resized, Carries, HostCall, SeedCall
<1>3. Sized'
  <2>1. ASSUME NEW u \in Tabled
        PROVE  /\ "size" \in registered
               /\ conn[u] = "here" /\ u \notin sizing \cup overtaken /\ repaint[u] = 0 =>
                      shown[u] = cols[u] \/ Resized(u) \/ Brings(u)
    BY DEF Sizes, Sized
  <2>. QED BY <1>1, <2>1 DEF Sized, Resized, Brings, HostCall
<1>. QED BY <1>2, <1>3 DEF Sizes

\* The handler gives the size the terminal has.
LEMMA SizesSent ==
    ASSUME Sizes, Drift, NEW t \in Terminals, ResizeSent(t)
    PROVE  Sizes'
<1>1. /\ UNCHANGED <<cols, registered, conn, news, calls, table, repaint>>
      /\ sizing' = sizing \ {t} /\ overtaken' = overtaken \ {t}
      /\ IF "size" \in registered THEN GiveSize(t, cols[t]) ELSE UNCHANGED shown
  BY DEF ResizeSent, hostVars, progVars
<1>2. SizeTypes /\ cols[t] \in Nat /\ \A u \in Tabled : "size" \in registered
  BY ServedAssumption DEF Sizes, Sized, Drift, Shape, RosterTypes
<1>3. shown' = shown \/ shown' = [shown EXCEPT ![t] = cols[t]]
  BY <1>1 DEF GiveSize
<1>4. SizeTypes'
  BY <1>1, <1>2, <1>3 DEF SizeTypes
<1>5. t \in Tabled => shown'[t] = cols[t]
  BY <1>1, <1>2 DEF GiveSize, SizeTypes, Tabled
<1>6. \A u \in Terminals \ {t} : shown'[u] = shown[u]
  BY <1>2, <1>3 DEF SizeTypes
<1>. QED BY <1>1, <1>4, <1>5, <1>6, SizesGiven DEF Tabled

\* The writer has read a size, and gives it later: the terminal's own, or one
\* that overtakes it.
LEMMA SizesRepaint ==
    ASSUME Sizes, Drift, NEW t \in Terminals, Evicts(t) \/ Repaints(t)
    PROVE  Sizes'
<1>1. /\ UNCHANGED <<cols, registered, conn, news, calls, table, sizing>>
      /\ \/ repaint' = [repaint EXCEPT ![t] = cols[t]] /\ UNCHANGED <<shown, overtaken>>
         \/ /\ repaint' = [repaint EXCEPT ![t] = 0] /\ GiveSize(t, repaint[t])
            /\ overtaken' = IF repaint[t] # cols[t] THEN overtaken \cup {t} ELSE overtaken
  BY DEF Evicts, Repaints, hostVars, progVars
<1>2. SizeTypes /\ cols[t] \in Nat /\ cols[t] # 0
  BY ServedAssumption DEF Sizes, Drift, Shape, RosterTypes
<1>3. shown' = shown \/ shown' = [shown EXCEPT ![t] = repaint[t]]
  BY <1>1 DEF GiveSize
<1>4. SizeTypes'
  BY <1>1, <1>2, <1>3 DEF SizeTypes
<1>5. t \in Tabled /\ t \notin overtaken' /\ repaint'[t] = 0 => shown'[t] = cols[t]
  BY <1>1, <1>2 DEF GiveSize, SizeTypes, Tabled
<1>6. \A u \in Terminals \ {t} : shown'[u] = shown[u] /\ repaint'[u] = repaint[u]
                                 /\ (u \in overtaken' <=> u \in overtaken)
  BY <1>1, <1>2, <1>3 DEF SizeTypes
<1>. QED BY <1>1, <1>4, <1>5, <1>6, SizesGiven DEF Tabled

\* A call of the host has read every size.
LEMMA SizesRecompute ==
    ASSUME Sizes, Drift, NEW n \in news, Recompute(n)
    PROVE  Sizes'
<1>1. /\ HostCall = NoCall /\ HostCall' # NoCall /\ SeedCall' = SeedCall
      /\ HostCall'.by = n /\ HostCall'.cols = cols /\ HostCall'.on = registered
      /\ HostCall'.at = IF n[1] = "join" /\ "size" \in registered THEN "size"
                        ELSE IF "clients" \in registered THEN "session" ELSE "end"
      /\ news' = news \ {n} /\ n \in Changes
  BY RecomputeDoes DEF Drift, Shape
<1>2. UNCHANGED <<main, registered, conn, cols, sizing, repaint, shown, overtaken, table>>
  BY DEF Recompute, sizeVars, progVars
<1>3. Tabled' = Tabled
  BY <1>2 DEF Tabled
<1>4. SizeTypes' /\ SizesRead'
  BY <1>1, <1>2 DEF Sizes, SizeTypes, SizesRead
<1>5. \A t : Resized(t) => Resized(t)' \/ n = <<"size", t>>
  BY <1>1 DEF Resized
<1>6. SeedSizes'
  <2>1. SUFFICES ASSUME NEW t \in Terminals, Carries(SeedCall), t \in SeedCall.roster, conn[t] = "here",
                        SeedCall.cols[t] # cols[t]
                 PROVE  /\ <<"join", t>> \notin news'
                        /\ Resized(t)' \/ (Carries(HostCall)' /\ HostCall'.by = <<"size", t>>) \/ t \in Tabled
    BY <1>1, <1>2, <1>3 DEF SeedSizes, Carries
  <2>2. <<"join", t>> \notin news /\ (Resized(t) \/ t \in Tabled)
    BY <1>1, <2>1 DEF Sizes, SeedSizes, Carries
  <2>3. "clients" \in registered
    BY <2>1 DEF Carries, Drift, Shape, CallShape
  <2>4. n = <<"size", t>> => Carries(HostCall)' /\ HostCall'.by = <<"size", t>>
    BY <1>1, <2>3 DEF Carries
  <2>. QED BY <1>1, <1>5, <2>2, <2>4
<1>7. Sized'
  <2>1. SUFFICES ASSUME NEW t \in Tabled
                 PROVE  /\ "size" \in registered
                        /\ conn[t] = "here" /\ t \notin sizing \cup overtaken /\ repaint[t] = 0 =>
                               shown[t] = cols[t] \/ Resized(t)' \/ Brings(t)'
    BY <1>2, <1>3 DEF Sized
  <2>2. ~Brings(t)
    BY <1>1 DEF Brings
  <2>3. n = <<"size", t>> => Brings(t)'
    BY <1>1 DEF Brings
  <2>. QED BY <1>5, <2>1, <2>2, <2>3 DEF Sizes, Sized
<1>. QED BY <1>4, <1>6, <1>7 DEF Sizes

\* The one that has joined has not resized since it was read.
LEMMA SizesJoin ==
    ASSUME Sizes, Drift, JoinSize
    PROVE  Sizes'
<1>. DEFINE at == IF "clients" \in HostCall.on THEN "session" ELSE "end"
            t == HostCall.by[2]
<1>1. RosterTypes /\ HostCall # NoCall /\ HostCall.at = "size" /\ calls' = [calls EXCEPT !["host"].at = at]
  BY DEF Drift, Shape, JoinSize, HostCall
<1>2. /\ UNCHANGED <<registered, conn, news, cols, sizing, repaint, overtaken, table>>
      /\ shown' = IF table[t] # 0 THEN [shown EXCEPT ![t] = HostCall.cols[t]] ELSE shown
  BY DEF JoinSize, progVars, HostCall
<1>3. at \in {"session", "runner", "end"} /\ (at = "session" <=> "clients" \in HostCall.on)
  OBVIOUS
<1>4. t \in Terminals /\ HostCall.by = <<"join", t>>
  BY <1>1 DEF Drift, Shape, CallShape, Changes
<1>. HIDE DEF at, t
<1>5. /\ SeedCall' = SeedCall
      /\ HostCall' # NoCall /\ HostCall'.at = at
      /\ HostCall'.by = HostCall.by /\ HostCall'.roster = HostCall.roster /\ HostCall'.cols = HostCall.cols
      /\ HostCall'.on = HostCall.on
  BY <1>1, <1>3, GoesOn DEF HostCall, SeedCall
<1>6. Tabled' = Tabled /\ \A u : Resized(u)' <=> Resized(u)
  BY <1>2 DEF Tabled, Resized
<1>7. HostCall.cols[t] = cols[t] /\ cols[t] \in Nat
  BY <1>1, <1>4 DEF Sizes, SizesRead, RosterTypes
<1>8. SizeTypes' /\ SizesRead'
  BY <1>1, <1>2, <1>5, <1>6, <1>7 DEF Sizes, SizeTypes, SizesRead
<1>9. SeedSizes'
  BY <1>1, <1>2, <1>3, <1>5, <1>6 DEF Sizes, SeedSizes, Carries
<1>10. \A u \in Tabled : shown'[u] = shown[u] \/ shown'[u] = cols[u]
  BY <1>2, <1>4, <1>7 DEF Sizes, SizeTypes, Tabled
<1>11. Sized'
  <2>1. \A u : Brings(u)' <=> Brings(u)
    BY <1>1, <1>5 DEF Brings
  <2>. QED BY <1>2, <1>6, <1>10, <2>1 DEF Sizes, Sized
<1>. QED BY <1>8, <1>9, <1>11 DEF Sizes

\* A call that a resize made ends with its handler giving the size.
LEMMA SizesEnds ==
    ASSUME Sizes, Drift, RecomputeEnds
    PROVE  Sizes'
<1>1. HostCall # NoCall /\ HostCall.at = "end" /\ HostCall' = NoCall /\ SeedCall' = SeedCall
  BY EndsDoes DEF Drift, Shape
<1>2. /\ UNCHANGED <<registered, news, cols, repaint, shown, overtaken, table>>
      /\ conn' = IF HostCall.by[1] = "gone" THEN [conn EXCEPT ![HostCall.by[2]] = "gone"] ELSE conn
      /\ sizing' = IF HostCall.by[1] = "size" THEN sizing \cup {HostCall.by[2]} ELSE sizing
  BY DEF RecomputeEnds, progVars, HostCall
<1>3. \A t \in Terminals : conn'[t] = "here" => conn[t] = "here"
  BY <1>2 DEF Drift, Shape, RosterTypes
<1>4. Tabled' = Tabled /\ Tabled \subseteq Terminals /\ \A t : Resized(t)' <=> Resized(t)
  BY <1>2 DEF Tabled, Resized
<1>5. SizeTypes' /\ SizesRead'
  BY <1>1, <1>2 DEF Sizes, SizeTypes, SizesRead
<1>6. SeedSizes'
  <2>1. ~Carries(HostCall)
    BY <1>1 DEF Carries
  <2>2. Carries(SeedCall)' <=> Carries(SeedCall)
    BY <1>1 DEF Carries
  <2>. QED BY <1>1, <1>2, <1>3, <1>4, <2>1, <2>2 DEF Sizes, SeedSizes
<1>7. Sized'
  <2>1. \A t \in Terminals : Brings(t) => t \in sizing'
    BY <1>2 DEF Brings
  <2>2. sizing \subseteq sizing'
    BY <1>2
  <2>. QED BY <1>2, <1>3, <1>4, <2>1, <2>2 DEF Sizes, Sized
<1>. QED BY <1>5, <1>6, <1>7 DEF Sizes

LEMMA SizesSetClients ==
    ASSUME Sizes, Drift, NEW w \in {"host", "seed"}, SetClients(w)
    PROVE  Sizes'
<1>1. /\ calls[w] # NoCall /\ calls[w].at = "session"
      /\ calls' = [calls EXCEPT ![w].at = "runner"]
  BY SetClientsDoes DEF Drift, Shape
<1>2. UNCHANGED <<registered, conn, news, cols, sizing, repaint, shown, overtaken, table>>
  BY DEF SetClients, sizeVars, progVars
<1>3. /\ \A u \in {"host", "seed"} \ {w} : calls'[u] = calls[u]
      /\ calls'[w] # NoCall /\ calls'[w].at = "runner"
      /\ calls'[w].by = calls[w].by /\ calls'[w].roster = calls[w].roster /\ calls'[w].cols = calls[w].cols
      /\ calls'[w].on = calls[w].on
  BY <1>1, GoesOn DEF Drift, Shape
<1>4. /\ HostCall' # NoCall <=> HostCall # NoCall
      /\ HostCall # NoCall => HostCall'.by = HostCall.by /\ HostCall'.cols = HostCall.cols
      /\ Carries(HostCall)' <=> Carries(HostCall)
  BY <1>1, <1>3 DEF HostCall, Carries
<1>5. /\ Carries(SeedCall)' <=> Carries(SeedCall)
      /\ Carries(SeedCall) => SeedCall'.roster = SeedCall.roster /\ SeedCall'.cols = SeedCall.cols
  BY <1>1, <1>3 DEF SeedCall, Carries
<1>6. Tabled' = Tabled /\ \A t : (Resized(t)' <=> Resized(t)) /\ (Brings(t)' <=> Brings(t))
  BY <1>2, <1>4 DEF Tabled, Resized, Brings
<1>7. SizeTypes' /\ SizesRead'
  BY <1>2, <1>4, <1>6 DEF Sizes, SizeTypes, SizesRead
<1>8. SeedSizes'
  <2>1. Carries(HostCall) => HostCall # NoCall
    BY DEF Carries
  <2>. QED BY <1>2, <1>4, <1>5, <1>6, <2>1 DEF Sizes, SeedSizes
<1>9. Sized'
  BY <1>2, <1>6 DEF Sizes, Sized
<1>. QED BY <1>7, <1>8, <1>9 DEF Sizes

\* A program starts with the size that the call has read; where that is an old
\* one, a resize is on its way, or the program was there before.
LEMMA SizesOnClients ==
    ASSUME Sizes, Drift, PInv, ~quitting, NEW w \in {"host", "seed"}, OnClients(w)
    PROVE  Sizes'
<1>. DEFINE c == calls[w]
            new == c.roster \ Tabled
<1>1. /\ c # NoCall /\ c.at = "runner" /\ Tabled' = c.roster
      /\ calls' = [calls EXCEPT ![w].at = "end"] /\ Newcomers(c) = new
  BY OnClientsDoes DEF Drift, Shape
<1>2. /\ UNCHANGED <<registered, conn, news, cols, known, met, main, sizing, repaint, overtaken>>
      /\ shown' = [t \in Terminals |-> IF t \in Newcomers(c) THEN c.cols[t] ELSE shown[t]]
  BY DEF OnClients
<1>3. /\ \A u \in {"host", "seed"} \ {w} : calls'[u] = calls[u]
      /\ calls'[w] # NoCall /\ calls'[w].at = "end"
      /\ calls'[w].by = c.by /\ calls'[w].roster = c.roster /\ calls'[w].cols = c.cols
      /\ calls'[w].on = c.on
  BY <1>1, GoesOn DEF Drift, Shape
<1>4. c \in Calls /\ c.roster \subseteq Terminals /\ \A t \in Terminals : c.cols[t] \in Nat
  <2>1. c \in Calls
    BY <1>1 DEF Drift, Shape, RosterTypes
  <2>. QED BY <2>1 DEF Calls
<1>5. "clients" \in c.on /\ c.on \subseteq registered /\ "size" \in registered /\ Carries(c)
  BY <1>1 DEF Drift, Shape, Order, CallShape, Carries, HostCall, SeedCall
<1>. HIDE DEF c, new
<1>6. \A t : Resized(t)' <=> Resized(t)
  BY <1>2 DEF Resized
<1>7. /\ HostCall' # NoCall <=> HostCall # NoCall
      /\ HostCall # NoCall => HostCall'.by = HostCall.by /\ HostCall'.cols = HostCall.cols
      /\ \A t : Brings(t)' <=> Brings(t)
  BY <1>1, <1>3 DEF HostCall, Brings, c
<1>8. SizeTypes' /\ SizesRead'
  BY <1>1, <1>2, <1>4, <1>6, <1>7 DEF Sizes, SizeTypes, SizesRead
<1>9. SeedSizes'
  <2>1. CASE w = "seed"
    BY <1>3, <2>1 DEF SeedSizes, Carries, SeedCall
  <2>2. CASE w = "host"
    <3>1. SeedCall' = SeedCall /\ HostCall = c
      BY <1>3, <2>2 DEF SeedCall, HostCall, c
    <3>2. SUFFICES ASSUME NEW t \in Terminals, Carries(SeedCall), t \in SeedCall.roster, conn[t] = "here",
                          SeedCall.cols[t] # cols[t]
                   PROVE  <<"join", t>> \notin news /\ (Resized(t) \/ t \in c.roster)
      BY <1>1, <1>2, <1>6, <3>1 DEF SeedSizes, Carries
    <3>3. <<"join", t>> \notin news
      BY <3>2 DEF Sizes, SeedSizes
    <3>4. ~Pending(t) /\ t \in Roster
      BY <3>2, <3>3 DEF Pending, Roster, Drift, Shape, Gone
    <3>. QED BY <1>1, <3>1, <3>3, <3>4 DEF Drift, Read
  <2>. QED BY <2>1, <2>2
<1>10. Sized'
  <2>1. SUFFICES ASSUME NEW t \in c.roster, conn[t] = "here", t \notin sizing \cup overtaken, repaint[t] = 0
                 PROVE  shown'[t] = cols[t] \/ Resized(t) \/ Brings(t)
    BY <1>1, <1>2, <1>5, <1>6, <1>7 DEF Sized
  <2>2. t \in Terminals
    BY <1>4
  <2>3. CASE t \in Tabled
    BY <1>1, <1>2, <2>1, <2>2, <2>3 DEF Sizes, Sized, new
  <2>4. CASE t \notin Tabled
    <3>1. shown'[t] = c.cols[t]
      BY <1>1, <1>2, <2>1, <2>2, <2>4 DEF new
    <3>2. CASE w = "host"
      <4>1. HostCall = c
        BY <3>2 DEF HostCall, c
      <4>. QED BY <1>1, <2>2, <3>1, <4>1 DEF Sizes, SizesRead
    <3>3. CASE w = "seed"
      <4>1. SeedCall = c
        BY <3>3 DEF SeedCall, c
      <4>. QED BY <1>5, <2>1, <2>2, <2>4, <3>1, <4>1 DEF Sizes, SeedSizes, Brings, Carries
    <3>. QED BY <3>2, <3>3
  <2>. QED BY <2>3, <2>4
<1>. QED BY <1>8, <1>9, <1>10 DEF Sizes

\* RunServed's own call reads every size, and it ends.
LEMMA SizesSeed ==
    ASSUME Sizes, Drift, Seeds \/ SeedEnds
    PROVE  Sizes'
<1>1. HostCall' = HostCall /\ (SeedCall'.cols = cols \/ SeedCall' = NoCall)
  BY SeedsDoes, SeedEndsDoes DEF Drift, Shape
<1>2. UNCHANGED <<registered, conn, news, cols, sizing, repaint, shown, overtaken, table>>
  BY DEF Seeds, SeedEnds, sizeVars, progVars
<1>3. Tabled' = Tabled /\ \A t : (Resized(t)' <=> Resized(t)) /\ (Brings(t)' <=> Brings(t))
  BY <1>1, <1>2 DEF Tabled, Resized, Brings
<1>4. SizeTypes' /\ SizesRead' /\ Sized'
  BY <1>1, <1>2, <1>3 DEF Sizes, SizeTypes, SizesRead, Sized
<1>5. SeedSizes'
  BY <1>1, <1>2 DEF SeedSizes, Carries
<1>. QED BY <1>4, <1>5 DEF Sizes

LEMMA SizesStep ==
    ASSUME Sizes, Drift, PInv, ~quitting, Moves
    PROVE  Sizes'
<1>. USE DEF sizeVars, sessVars, progVars, keyVars, hostVars
<1>1. CASE UNCHANGED svars
  BY <1>1, SizesStill DEF svars, Drift, Shape, RosterTypes, Places, Resized
<1>2. CASE \E t \in Terminals : Outs(t) \/ Attach(t) \/ Hangup(t)
  <2>1. PICK t \in Terminals : Outs(t) \/ Attach(t) \/ Hangup(t)
    BY <1>2
  <2>2. UNCHANGED <<cols, sizing, repaint, shown, overtaken, calls, table, registered>>
    BY <2>1, Conns
  <2>3. PICK place \in {"here", "refused", "out", "shut"} : Goes(t, place)
    BY <2>1, Conns
  <2>4. \A u \in Terminals : Resized(u) => Resized(u)'
    BY <2>3 DEF Goes, Resized
  <2>5. \A u \in Terminals : conn'[u] = "here" =>
            \/ conn[u] = "away"
            \/ conn[u] = "here" /\ (<<"join", u>> \in news' => <<"join", u>> \in news)
    BY <2>3 DEF Goes, Drift, Shape, RosterTypes
  <2>. QED BY <2>2, <2>4, <2>5, SizesStill
<1>3. CASE \E t \in Terminals : Resize(t) \/ ResizeSent(t) \/ Evicts(t) \/ Repaints(t)
  BY <1>3, SizesResize, SizesSent, SizesRepaint
<1>4. CASE \/ \E t \in Terminals : Type(t) \/ Route(t) \/ FeedsEarly(t)
           \/ Registers \/ RegistersQuit \/ RegistersInput
           \/ \E i \in stops : Stops(i)
  <2>1. UNCHANGED <<conn, news, cols, sizing, repaint, shown, overtaken, calls, table>> /\ registered \subseteq registered'
    BY <1>4 DEF Type, Route, FeedsEarly, Registers, RegistersQuit, RegistersInput, Stops
  <2>. QED BY <2>1, SizesStill DEF Drift, Shape, RosterTypes, Places, Resized
<1>5. CASE OfRoster
  BY <1>5, SizesRecompute, SizesJoin, SizesEnds DEF OfRoster
<1>6. CASE \E w \in {"host", "seed"} : OfCall(w)
  BY <1>6, SizesSetClients, SizesOnClients DEF OfCall
<1>7. CASE Seeds \/ SeedEnds
  BY <1>7, SizesSeed
<1>. QED BY <1>1, <1>2, <1>3, <1>4, <1>5, <1>6, <1>7 DEF Moves

-----------------------------------------------------------------------------
(* The keys, step by step.  Every key of a terminal that has not left is with
   the host, with RunServed, in the pump, with the runner, or with a program. *)

keyed == <<typed, pendingIn, replay, pumped, early, got>>

LEMMA KeysStill ==
    ASSUME Keys, Drift, UNCHANGED <<keyed, table>>, met' = "no" => met = "no",
           "input" \in registered' => "input" \in registered,
           \A t \in Terminals : Left(t) => Left(t)',
           \A t \in Terminals : conn'[t] \in {"away", "refused"} => conn[t] \in {"away", "refused"},
           main' # "feed" => main # "feed" \/ \A t \in Terminals : replay[t] = 0
    PROVE  Keys'
<1>1. Tabled' = Tabled
  BY DEF Tabled
<1>2. KeyTypes'
  BY DEF Keys, KeyTypes, keyed
<1>3. Kept'
  BY <1>1 DEF Keys, Kept, keyed
<1>. QED BY <1>2, <1>3 DEF Keys

\* A key comes in.  Who has not left was not dropped.
LEMMA KeysType ==
    ASSUME Keys, Drift, Views, NEW t \in Terminals, Type(t), ~Over
    PROVE  Keys'
<1>1. /\ typed' = [typed EXCEPT ![t] = @ + 1] /\ conn[t] \in {"here", "out"}
      /\ UNCHANGED <<main, registered, conn, met, table, replay, early, got, dropped>>
  BY DEF Type, Reading, hostVars, progVars
<1>2. IF "input" \in registered
      THEN pendingIn' = pendingIn /\ pumped' = IF t \in dropped THEN pumped ELSE [pumped EXCEPT ![t] = @ + 1]
      ELSE pendingIn' = [pendingIn EXCEPT ![t] = @ + 1] /\ pumped' = pumped
  BY DEF Type, Feed, Over
<1>3. Tabled' = Tabled /\ \A u : Left(u)' <=> Left(u)
  BY <1>1 DEF Tabled, Left
<1>4. KeyTypes
  BY DEF Keys
<1>5. KeyTypes'
  BY <1>1, <1>2, <1>4 DEF KeyTypes
<1>6. met = "no" /\ ~Left(t) => t \notin dropped
  BY DEF Views, Viewed
<1>7. \A u \in Terminals \ {t} : typed'[u] = typed[u] /\ pendingIn'[u] = pendingIn[u] /\ pumped'[u] = pumped[u]
  BY <1>1, <1>2, <1>4 DEF KeyTypes
<1>8. typed'[t] = typed[t] + 1
  BY <1>1, <1>4 DEF KeyTypes
<1>9. met = "no" /\ ~Left(t) =>
          \/ "input" \in registered /\ pendingIn'[t] = pendingIn[t] /\ pumped'[t] = pumped[t] + 1
          \/ "input" \notin registered /\ pendingIn'[t] = pendingIn[t] + 1 /\ pumped'[t] = pumped[t]
  BY <1>2, <1>4, <1>6 DEF KeyTypes
<1>10. ASSUME NEW u \in Terminals \ {t}
       PROVE  /\ conn'[u] \in {"away", "refused"} => typed'[u] = 0
              /\ met' = "no" /\ ~Left(u)' =>
                     /\ typed'[u] = pendingIn'[u] + replay'[u] + pumped'[u] + early'[u] + got'[u]
                     /\ "input" \in registered' => pendingIn'[u] = 0
  BY <1>1, <1>3, <1>7 DEF Keys, Kept
<1>11. conn'[t] \notin {"away", "refused"}
  BY <1>1
<1>12. ASSUME met' = "no", ~Left(t)'
       PROVE  /\ typed'[t] = pendingIn'[t] + replay'[t] + pumped'[t] + early'[t] + got'[t]
              /\ "input" \in registered' => pendingIn'[t] = 0
  <2>1. /\ typed[t] = pendingIn[t] + replay[t] + pumped[t] + early[t] + got[t]
        /\ "input" \in registered => pendingIn[t] = 0
    BY <1>1, <1>3, <1>12 DEF Keys, Kept
  <2>2. /\ typed[t] \in Nat /\ pendingIn[t] \in Nat /\ replay[t] \in Nat
        /\ pumped[t] \in Nat /\ early[t] \in Nat /\ got[t] \in Nat
    BY <1>4 DEF KeyTypes
  <2>3. /\ met = "no" /\ ~Left(t) /\ registered' = registered
        /\ replay'[t] = replay[t] /\ early'[t] = early[t] /\ got'[t] = got[t]
    BY <1>1, <1>3, <1>12
  <2>4. CASE "input" \in registered
    BY <1>8, <1>9, <2>1, <2>2, <2>3, <2>4
  <2>5. CASE "input" \notin registered
    BY <1>8, <1>9, <2>1, <2>2, <2>3, <2>5
  <2>. QED BY <2>4, <2>5
<1>13. \A u \in Terminals : (main' # "feed" => replay'[u] = 0) /\ (u \in Tabled' => early'[u] = 0)
  BY <1>1, <1>3 DEF Keys, Kept
<1>14. Kept'
  BY <1>10, <1>11, <1>12, <1>13 DEF Kept
<1>. QED BY <1>5, <1>14 DEF Keys

\* A key goes to the terminal's program, or waits for one.
LEMMA KeysRoute ==
    ASSUME Keys, NEW t \in Terminals, Route(t)
    PROVE  Keys'
<1>1. /\ pumped[t] > 0 /\ pumped' = [pumped EXCEPT ![t] = @ - 1]
      /\ IF table[t] # 0 THEN got' = [got EXCEPT ![t] = @ + 1] /\ UNCHANGED early
         ELSE early' = [early EXCEPT ![t] = @ + 1] /\ UNCHANGED got
      /\ UNCHANGED <<main, registered, conn, met, table, typed, pendingIn, replay>>
  BY DEF Route, hostVars, progVars
<1>2. KeyTypes
  BY DEF Keys
<1>3. KeyTypes'
  BY <1>1, <1>2 DEF KeyTypes
<1>4. Tabled' = Tabled /\ \A u : Left(u)' <=> Left(u)
  BY <1>1 DEF Tabled, Left
<1>5. \A u \in Terminals \ {t} : pumped'[u] = pumped[u] /\ early'[u] = early[u] /\ got'[u] = got[u]
  BY <1>1, <1>2 DEF KeyTypes
<1>6. /\ t \in Tabled => early'[t] = early[t]
      /\ pumped'[t] + early'[t] + got'[t] = pumped[t] + early[t] + got[t]
      /\ pumped'[t] \in Nat /\ early'[t] \in Nat /\ got'[t] \in Nat
  <2>1. pumped[t] \in Nat /\ early[t] \in Nat /\ got[t] \in Nat
    BY <1>2 DEF KeyTypes
  <2>2. /\ pumped'[t] = pumped[t] - 1
        /\ \/ table[t] # 0 /\ got'[t] = got[t] + 1 /\ early'[t] = early[t]
           \/ table[t] = 0 /\ got'[t] = got[t] /\ early'[t] = early[t] + 1
    BY <1>1, <1>2 DEF KeyTypes
  <2>. QED BY <1>1, <2>1, <2>2 DEF Tabled
<1>7. ASSUME NEW u \in Terminals
      PROVE  pumped'[u] + early'[u] + got'[u] = pumped[u] + early[u] + got[u] /\ (u \in Tabled => early'[u] = early[u])
  BY <1>5, <1>6
<1>8. ASSUME NEW u \in Terminals, met = "no", ~Left(u)
      PROVE  typed[u] = pendingIn[u] + replay[u] + pumped'[u] + early'[u] + got'[u]
  <2>1. /\ typed[u] \in Nat /\ pendingIn[u] \in Nat /\ replay[u] \in Nat
        /\ pumped[u] \in Nat /\ early[u] \in Nat /\ got[u] \in Nat
        /\ pumped'[u] \in Nat /\ early'[u] \in Nat /\ got'[u] \in Nat
    BY <1>2, <1>3 DEF KeyTypes
  <2>2. typed[u] = pendingIn[u] + replay[u] + pumped[u] + early[u] + got[u]
    BY <1>8 DEF Keys, Kept
  <2>. QED BY <1>7, <2>1, <2>2
<1>9. Kept'
  BY <1>1, <1>4, <1>7, <1>8 DEF Keys, Kept
<1>. QED BY <1>3, <1>9 DEF Keys

\* OnInput takes the keys of those who are here; nobody else has any that count.
LEMMA KeysInput ==
    ASSUME Keys, Drift, RegistersInput
    PROVE  Keys'
<1>1. /\ main = "input" /\ main' = "feed"
      /\ replay' = [t \in Terminals |-> IF conn[t] = "here" THEN pendingIn[t] ELSE 0]
      /\ pendingIn' = [t \in Terminals |-> pendingIn[t] - replay'[t]]
      /\ UNCHANGED <<conn, met, table, typed, pumped, early, got>>
  BY DEF RegistersInput, progVars
<1>2. KeyTypes
  BY DEF Keys
<1>3. KeyTypes'
  BY <1>1, <1>2 DEF KeyTypes
<1>4. Tabled' = Tabled /\ \A u : Left(u)' <=> Left(u)
  BY <1>1 DEF Tabled, Left
<1>5. ASSUME NEW u \in Terminals, met = "no", ~Left(u)
      PROVE  /\ typed[u] = pendingIn'[u] + replay'[u] + pumped[u] + early[u] + got[u]
             /\ pendingIn'[u] = 0
  <2>1. /\ typed[u] \in Nat /\ pendingIn[u] \in Nat /\ replay[u] \in Nat
        /\ pumped[u] \in Nat /\ early[u] \in Nat /\ got[u] \in Nat
    BY <1>2 DEF KeyTypes
  <2>2. typed[u] = pendingIn[u] + replay[u] + pumped[u] + early[u] + got[u] /\ replay[u] = 0
        /\ (conn[u] \in {"away", "refused"} => typed[u] = 0)
    BY <1>1, <1>5 DEF Keys, Kept
  <2>3. CASE conn[u] = "here"
    BY <1>1, <2>1, <2>2, <2>3
  <2>4. CASE conn[u] # "here"
    <3>1. conn[u] \in {"away", "refused"}
      BY <1>5, <2>4 DEF Left, Drift, Shape, RosterTypes, Places
    <3>2. replay'[u] = 0 /\ pendingIn'[u] = pendingIn[u] - 0
      BY <1>1, <2>4
    <3>3. typed[u] = 0 /\ replay[u] = 0 /\ pendingIn[u] + pumped[u] + early[u] + got[u] = 0
      BY <2>1, <2>2, <3>1
    <3>4. pendingIn[u] = 0 /\ pumped[u] = 0 /\ early[u] = 0 /\ got[u] = 0
      <4> DEFINE a == pendingIn[u]  b == pumped[u]  c == early[u]  d == got[u]
      <4>1. a \in Nat /\ b \in Nat /\ c \in Nat /\ d \in Nat /\ a + b + c + d = 0
        BY <2>1, <3>3
      <4> HIDE DEF a, b, c, d
      <4>2. a = 0 /\ b = 0 /\ c = 0 /\ d = 0
        BY <4>1
      <4> QED BY <4>2 DEF a, b, c, d
    <3>. QED BY <3>2, <3>3, <3>4
  <2>. QED BY <2>3, <2>4
<1>6. Kept'
  BY <1>1, <1>4, <1>5 DEF Keys, Kept
<1>. QED BY <1>3, <1>6 DEF Keys

\* The keys that RunServed took go to the pump.
LEMMA KeysFeed ==
    ASSUME Keys, Views, NEW t \in Terminals, FeedsEarly(t), ~Over
    PROVE  Keys'
<1>1. /\ main = "feed" /\ replay' = [replay EXCEPT ![t] = 0]
      /\ pumped' = IF t \in dropped THEN pumped ELSE [pumped EXCEPT ![t] = @ + replay[t]]
      /\ UNCHANGED <<main, registered, conn, met, table, typed, pendingIn, early, got>>
  BY DEF FeedsEarly, Feed, Over, hostVars, progVars
<1>2. KeyTypes
  BY DEF Keys
<1>3. KeyTypes'
  BY <1>1, <1>2 DEF KeyTypes
<1>4. Tabled' = Tabled /\ \A u : Left(u)' <=> Left(u)
  BY <1>1 DEF Tabled, Left
<1>5. \A u \in Terminals \ {t} : pumped'[u] = pumped[u] /\ replay'[u] = replay[u]
  BY <1>1, <1>2 DEF KeyTypes
<1>6. met = "no" /\ ~Left(t) => pumped'[t] = pumped[t] + replay[t] /\ replay'[t] = 0
  BY <1>1, <1>2 DEF KeyTypes, Views, Viewed
<1>7. ASSUME NEW u \in Terminals, met = "no", ~Left(u)
      PROVE  typed[u] = pendingIn[u] + replay'[u] + pumped'[u] + early[u] + got[u]
  <2>1. /\ typed[u] \in Nat /\ pendingIn[u] \in Nat /\ replay[u] \in Nat
        /\ pumped[u] \in Nat /\ early[u] \in Nat /\ got[u] \in Nat
    BY <1>2 DEF KeyTypes
  <2>2. typed[u] = pendingIn[u] + replay[u] + pumped[u] + early[u] + got[u]
    BY <1>7 DEF Keys, Kept
  <2>. QED BY <1>5, <1>6, <1>7, <2>1, <2>2
<1>8. Kept'
  BY <1>1, <1>4, <1>7 DEF Keys, Kept
<1>. QED BY <1>3, <1>8 DEF Keys

\* The pump lets go of the keys of those who have left.
LEMMA KeysSetClients ==
    ASSUME Keys, Drift, Views, NEW w \in {"host", "seed"}, SetClients(w)
    PROVE  Keys'
<1>. DEFINE left == known \ calls[w].roster
<1>1. /\ pumped' = [t \in Terminals |-> IF t \in left THEN 0 ELSE pumped[t]]
      /\ UNCHANGED <<main, registered, conn, met, table, typed, pendingIn, replay, early, got>>
  BY DEF SetClients, progVars
<1>2. KeyTypes
  BY DEF Keys
<1>3. KeyTypes'
  BY <1>1, <1>2 DEF KeyTypes
<1>4. Tabled' = Tabled /\ \A u : Left(u)' <=> Left(u)
  BY <1>1 DEF Tabled, Left
<1>5. met = "no" => \A t \in left : Left(t)
  <2>1. calls[w] # NoCall /\ calls[w].at = "session" /\ "clients" \in calls[w].on
    BY SetClientsDoes DEF Drift, Shape, CallShape, HostCall, SeedCall
  <2>2. ToSession(calls[w])
    BY <2>1 DEF ToSession, Carries
  <2>. QED BY <2>2 DEF Views, Viewed, Once, HostCall, SeedCall
<1>6. met = "no" => \A u \in Terminals : ~Left(u) => pumped'[u] = pumped[u]
  BY <1>1, <1>5
<1>7. Kept'
  BY <1>1, <1>4, <1>6 DEF Keys, Kept
<1>. QED BY <1>3, <1>7 DEF Keys

\* A program that starts gets the keys that waited for it.
LEMMA KeysOnClients ==
    ASSUME Keys, Drift, PInv, ~quitting, NEW w \in {"host", "seed"}, OnClients(w)
    PROVE  Keys'
<1>. DEFINE new == calls[w].roster \ Tabled
<1>1. Newcomers(calls[w]) = new /\ Tabled' = calls[w].roster
  BY OnClientsDoes DEF Drift, Shape
<1>2. /\ got' = [t \in Terminals |-> IF t \in Newcomers(calls[w]) THEN early[t] + got[t] ELSE got[t]]
      /\ early' = [t \in Terminals |-> IF t \in Newcomers(calls[w]) THEN 0 ELSE early[t]]
      /\ UNCHANGED <<main, registered, conn, met, typed, pendingIn, replay, pumped>>
  BY DEF OnClients
<1>. HIDE DEF new
<1>3. KeyTypes
  BY DEF Keys
<1>4. KeyTypes'
  BY <1>1, <1>2, <1>3 DEF KeyTypes
<1>5. \A u : Left(u)' <=> Left(u)
  BY <1>2 DEF Left
<1>6. \A t \in Terminals : t \in Tabled' => early'[t] = 0
  BY <1>1, <1>2 DEF Keys, Kept, new
<1>7. ASSUME NEW t \in Terminals
      PROVE  early'[t] + got'[t] = early[t] + got[t]
  <2>1. early[t] \in Nat /\ got[t] \in Nat
    BY <1>3 DEF KeyTypes
  <2>2. CASE t \in new
    BY <1>1, <1>2, <2>1, <2>2
  <2>3. CASE t \notin new
    BY <1>1, <1>2, <2>1, <2>3
  <2>. QED BY <2>2, <2>3
<1>8. ASSUME NEW u \in Terminals, met = "no", ~Left(u)
      PROVE  typed[u] = pendingIn[u] + replay[u] + pumped[u] + early'[u] + got'[u]
  <2>1. /\ typed[u] \in Nat /\ pendingIn[u] \in Nat /\ replay[u] \in Nat
        /\ pumped[u] \in Nat /\ early[u] \in Nat /\ got[u] \in Nat /\ early'[u] \in Nat /\ got'[u] \in Nat
    BY <1>3, <1>4 DEF KeyTypes
  <2>2. typed[u] = pendingIn[u] + replay[u] + pumped[u] + early[u] + got[u]
    BY <1>8 DEF Keys, Kept
  <2>. QED BY <1>7, <2>1, <2>2
<1>9. Kept'
  BY <1>2, <1>5, <1>6, <1>8 DEF Keys, Kept
<1>. QED BY <1>4, <1>9 DEF Keys

LEMMA KeysStep ==
    ASSUME Keys, Drift, Views, PInv, ~quitting, Moves
    PROVE  Keys'
<1>. USE DEF sizeVars, sessVars, progVars, keyVars, hostVars
<1>1. CASE UNCHANGED svars
  BY <1>1, KeysStill DEF svars, keyed, Left
<1>2. CASE \E t \in Terminals : Outs(t) \/ Attach(t) \/ Hangup(t)
  <2>1. PICK t \in Terminals : Outs(t) \/ Attach(t) \/ Hangup(t)
    BY <1>2
  <2>2. UNCHANGED <<main, registered, keyed, table>>
    BY <2>1, Conns DEF keyed
  <2>3. PICK place \in {"here", "refused", "out", "shut"} : Goes(t, place)
    BY <2>1, Conns
  <2>4. met' = "no" => met = "no"
    BY <2>3 DEF Goes, Meets
  <2>5. \A u \in Terminals : /\ Left(u) => Left(u)'
                             /\ conn'[u] \in {"away", "refused"} => conn[u] \in {"away", "refused"}
    BY <2>3 DEF Goes, Left, Drift, Shape, RosterTypes
  <2>. QED BY <2>2, <2>4, <2>5, KeysStill
<1>3. CASE \/ \E t \in Terminals : Resize(t) \/ ResizeSent(t) \/ Evicts(t) \/ Repaints(t)
           \/ JoinSize \/ SeedEnds
           \/ \E i \in stops : Stops(i)
  <2>1. UNCHANGED <<registered, conn, met, keyed, table>> /\ (main' = main \/ main # "feed")
    BY <1>3 DEF Resize, ResizeSent, Evicts, Repaints, JoinSize, SeedEnds, Stops, keyed
  <2>. QED BY <2>1, KeysStill DEF Left, Keys, Kept
<1>4. CASE \E n \in news : Recompute(n)
  <2>1. UNCHANGED <<main, registered, conn, keyed, table>> /\ (met' = "no" => met = "no")
    BY <1>4 DEF Recompute, keyed
  <2>. QED BY <2>1, KeysStill DEF Left
<1>5. CASE RecomputeEnds
  <2>1. UNCHANGED <<main, registered, keyed, table>> /\ (met' = "no" => met = "no")
    BY <1>5 DEF RecomputeEnds, keyed
  <2>2. \A u \in Terminals : /\ Left(u) => Left(u)'
                             /\ conn'[u] \in {"away", "refused"} => conn[u] \in {"away", "refused"}
    BY <1>5 DEF RecomputeEnds, Left, Drift, Shape, RosterTypes
  <2>. QED BY <2>1, <2>2, KeysStill
<1>6. CASE Registers \/ RegistersQuit
  <2>1. /\ UNCHANGED <<conn, met, keyed, table>> /\ main # "feed"
        /\ "input" \in registered' => "input" \in registered
    BY <1>6 DEF Registers, RegistersQuit, keyed
  <2>. QED BY <2>1, KeysStill DEF Left
<1>7. CASE Seeds
  <2>1. /\ UNCHANGED <<registered, conn, keyed, table>> /\ (met' = "no" => met = "no")
        /\ \A t \in Terminals : replay[t] = 0
    BY <1>7 DEF Seeds, keyed
  <2>. QED BY <2>1, KeysStill DEF Left
<1>8. CASE RegistersInput
  BY <1>8, KeysInput
<1>9. CASE \E t \in Terminals : Type(t) \/ Route(t) \/ FeedsEarly(t)
  <2>1. ~Over
    BY DEF Drift, Shape, RosterTypes, Over, Before
  <2>. QED BY <1>9, <2>1, KeysType, KeysRoute, KeysFeed
<1>10. CASE \E w \in {"host", "seed"} : OfCall(w)
  BY <1>10, KeysSetClients, KeysOnClients DEF OfCall
<1>. QED BY <1>1, <1>2, <1>3, <1>4, <1>5, <1>6, <1>7, <1>8, <1>9, <1>10 DEF Moves, OfRoster

-----------------------------------------------------------------------------
(* The whole of it. *)

LEMMA SInvInit == Init => SInv
<1>. SUFFICES ASSUME Init PROVE Drift /\ Views /\ Sizes /\ Keys
  BY DEF SInv
<1>1. /\ main = "start" /\ registered = {} /\ conn = [t \in Terminals |-> "away"] /\ news = {}
      /\ calls = [w \in {"host", "seed"} |-> NoCall] /\ cols = [t \in Terminals |-> 1] /\ known = {} /\ met = "no"
      /\ table = [t \in Terminals |-> 0] /\ stops = {} /\ views = {} /\ dropped = {}
      /\ repaint = [t \in Terminals |-> 0] /\ shown = [t \in Terminals |-> 0]
      /\ typed = [t \in Terminals |-> 0] /\ pendingIn = typed /\ replay = typed /\ pumped = typed
      /\ early = typed /\ got = typed
  BY DEF Init
<1>2. HostCall = NoCall /\ SeedCall = NoCall /\ Tabled = {} /\ Roster = {}
  BY <1>1 DEF HostCall, SeedCall, Tabled, Roster
<1>3. RosterTypes
  BY <1>1, ServedAssumption DEF RosterTypes, Places, Before
<1>4. Order /\ CallShape /\ Gone
  BY <1>1, <1>2 DEF Order, CallShape, Gone, Before
<1>5. Read /\ Alone /\ Whole /\ InTouch /\ Came
  BY <1>1, <1>2 DEF Read, Alone, Whole, InTouch, Came
<1>6. Views
  BY <1>1, <1>2 DEF Views, ViewTypes, Viewed, Once, ToSession, Carries
<1>7. Sizes
  BY <1>1, <1>2 DEF Sizes, SizeTypes, SizesRead, SeedSizes, Sized, Carries
<1>8. Keys
  BY <1>1, <1>2 DEF Keys, KeyTypes, Kept
<1>. QED BY <1>3, <1>4, <1>5, <1>6, <1>7, <1>8 DEF Drift, Shape

\* A session that is quitting goes on quitting.
LEMMA QuittingStays ==
    ASSUME quitting, [Next]_vars
    PROVE  quitting'
<1>. USE DEF hostVars, sizeVars, sessVars, progVars, keyVars
<1>1. CASE UNCHANGED vars \/ Finished
  BY <1>1 DEF vars, Finished
<1>2. CASE Environment
  BY <1>2 DEF Environment, RequestQuit, IdleExpires, Attach, Leave, Resize, Evicts, Type, AsksSwitch, Panics
<1>3. CASE OfRoster \/ OfSession
  BY <1>3 DEF OfRoster, OfSession, JoinSize, RecomputeEnds, Recompute, TellsAll, CountsAll, IdleQuits, Quits
<1>4. CASE OfMain
  BY <1>4 DEF OfMain, Registers, RegistersQuit, ReplaysQuit, Quits, RegistersInput, Seeds, SeedEnds, StopAll,
              RunServedReturns, Closes, Ends, FeedsEarly, Goodbye, GoodbyeEnds, StopsOne
<1>5. CASE \E w \in {"host", "seed"} : OfCall(w)
  <2>1. PICK w \in {"host", "seed"} : OfCall(w)
    BY <1>5
  <2>2. CASE SetClients(w)
    BY <2>2 DEF SetClients
  <2>3. CASE OnClients(w)
    <3>1. quitting' = (quitting \/ LeftBehind(calls[w]))
      BY <2>3 DEF OnClients
    <3>. QED BY <3>1
  <2>. QED BY <2>1, <2>2, <2>3 DEF OfCall
<1>6. CASE \/ \E t \in Terminals : OfTerminal(t)
           \/ \E i \in Programs : Returns(i) \/ OfProgram(i)
  BY <1>6 DEF OfTerminal, OfProgram, Hangup, ResizeSent, Repaints, Route, Switches, Returns, Drops, Dropped, Exits, Stops
<1>. QED BY <1>1, <1>2, <1>3, <1>4, <1>5, <1>6 DEF Next, System

LEMMA SInvStep == PInv /\ SInv /\ [Next]_vars => SInv'
<1>. SUFFICES ASSUME PInv, SInv, [Next]_vars, ~quitting' PROVE (Drift /\ Views /\ Sizes /\ Keys)'
  BY DEF SInv
<1>1. ~quitting
  BY QuittingStays
<1>2. Moves
  BY <1>1, LiveStep
<1>3. Drift /\ Views /\ Sizes /\ Keys
  BY <1>1 DEF SInv
<1>. QED BY <1>1, <1>2, <1>3, DriftStep, ViewsStep, SizesStep, KeysStep

\* Programs, views and the sizes they lay out for follow the roster (onClients,
\* onClientSize), for any terminals, sizes and callbacks that come between.
THEOREM KeepsStep == Spec => []InStep
<1>1. SInv => InStep
  <2>1. SUFFICES ASSUME SInv, Quiet PROVE InStep
    BY DEF InStep
  <2>2. /\ main = "waiting" /\ ~quitting /\ news = {} /\ HostCall = NoCall
        /\ \A t \in Terminals : ~Pending(t)
    BY <2>1 DEF Quiet, Pending, HostCall
  <2>3. Drift /\ Views /\ Sizes
    BY <2>1, <2>2 DEF SInv
  <2>4. Tabled \subseteq Terminals /\ known \subseteq Terminals /\ Roster \subseteq Terminals
    BY <2>3 DEF Tabled, Roster, Drift, Shape, RosterTypes
  <2>5. met # "yes" => Tabled = Roster /\ known = Roster
    BY <2>2, <2>3, <2>4 DEF Drift, InTouch, ToSession, Carries
  <2>6. met = "no" /\ stops = {} => views = Roster
    BY <2>3, <2>5 DEF Views, Viewed
  <2>7. \A t \in (Tabled \cap Roster) \ (sizing \cup overtaken) : repaint[t] = 0 => shown[t] = cols[t]
    BY <2>2, <2>3 DEF Sizes, Sized, Resized, Brings, Roster
  <2>. QED BY <2>5, <2>6, <2>7 DEF InStep
<1>. QED BY <1>1, PInvInit, PInvStep, SInvInit, SInvStep, PTL DEF Spec

\* Every key of a terminal that is here is with its program or on its way there,
\* once (OnInput, Feed, route), for any terminals and any number of keys.
THEOREM KeepsKeys == Spec => []KeysKept
<1>1. SInv => KeysKept
  <2>1. SUFFICES ASSUME SInv, Quiet, met = "no", NEW t \in Roster
                 PROVE  pendingIn[t] = 0 /\ typed[t] = pumped[t] + got[t]
    BY DEF KeysKept
  <2>2. /\ main = "waiting" /\ ~quitting /\ news = {} /\ HostCall = NoCall
        /\ \A u \in Terminals : ~Pending(u)
    BY <2>1 DEF Quiet, Pending, HostCall
  <2>3. Drift /\ Keys
    BY <2>1, <2>2 DEF SInv
  <2>4. t \in Terminals /\ ~Left(t) /\ "input" \in registered
    BY <2>2, <2>3 DEF Roster, Left, Drift, Shape, Order
  <2>5. t \in Tabled
    BY <2>1, <2>2, <2>3, <2>4 DEF Drift, InTouch, Carries
  <2>6. /\ replay[t] = 0 /\ early[t] = 0 /\ pendingIn[t] = 0
        /\ typed[t] = pendingIn[t] + replay[t] + pumped[t] + early[t] + got[t]
    BY <2>1, <2>2, <2>3, <2>4, <2>5 DEF Keys, Kept
  <2>7. pumped[t] \in Nat /\ got[t] \in Nat
    BY <2>3, <2>4 DEF Keys, KeyTypes
  <2>. QED BY <2>6, <2>7
<1>. QED BY <1>1, PInvInit, PInvStep, SInvInit, SInvStep, PTL DEF Spec
=============================================================================
