------------------------------- MODULE Served -------------------------------
(* A shared session: the host that terminals attach to (internal/live/host.go),
   the runner that gives each of them a program (internal/tui/served.go), the
   session's roster and its end (internal/tui/session.go), the path of a key
   (internal/live/keypump.go), and the order in which the process ends them
   (cmd/live.go).  One step is one critical section: of the host's mu, of the
   session's mu, or of the runner's mu.  notifyMu is the record calls.host.

   A frame for a terminal is put on that terminal's own queue and never waited
   for; the queue is left out, but for what its overflow asks for (Evicts).  A
   program is its life, whatever it draws. *)
EXTENDS Naturals, FiniteSets, Functions

CONSTANTS
    Terminals,      \* connections: one that attaches again is another one
    Situations,     \* bound: who attaches, and what happens besides, together
    MaxKeys,        \* bound: keys typed in all
    MaxSize,        \* bound: sizes are 1 .. MaxSize, each resize adds one
    NoCall

\* A change of a connection that makes the host send its roster out, and a call
\* of runner.onClients: what made it, the roster and the sizes it read, the
\* callbacks set by then, whether RunServed was waiting, and how far it is.
Changes == {"join", "size", "gone"} \X Terminals
Calls == [by : Changes \cup {<<"seed", NoCall>>}, roster : SUBSET Terminals, cols : [Terminals -> 1..MaxSize],
          on : SUBSET {"size", "clients", "quit", "input"}, whole : BOOLEAN,
          at : {"size", "session", "runner", "end"}]

ASSUME ServedAssumption ==
    /\ NoCall \notin Calls
    /\ Situations \subseteq [who : SUBSET Terminals,
                             what : SUBSET {"leave", "type", "resize", "evict", "panic", "switch", "idle"}]
    /\ MaxKeys \in Nat /\ MaxSize \in Nat \ {0}

VARIABLES
    may,            \* bound: the situation of this behaviour
    main,           \* where runSessionHost's goroutine is
    registered,     \* Host: the callbacks set so far
    conn,           \* Host: each connection's place
    cols,           \* client.cols
    closing,        \* Host.closing
    quitPending,    \* Host.quitPending
    news,           \* the recomputeAttach calls that wait for notifyMu
    calls,          \* the calls of runner.onClients under way
    sizing,         \* handlers between recompute and onClientSize
    repaint,        \* writers between reading a size for a repaint and sending it
    byes,           \* Host.Close: the clients still to be detached
    known,          \* Session.clients
    quitting,       \* Session.quitting
    switchPending,  \* Session.switchPending
    switching,      \* terminals whose /attach command has not run yet
    views,          \* Session.views
    onQuit,         \* the onSessionQuit goroutines: "tell", "count"
    idle,           \* idleLoop between idleExpired and Quit
    table,          \* runner.programs: the generation of a terminal's program, 0 for none
    gen,            \* how many programs a terminal has had
    prog,           \* each program's goroutine
    told,           \* programs asked to quit
    stops,          \* runner.stopping: the stops on goroutines of their own
    toStop,         \* stopAll: the programs it took from the table
    quitClosed,     \* runner.quit is closed
    shown,          \* the last size given to a terminal's program
    typed, pendingIn, replay, pumped, early, got, dropped,   \* keys, counted
    met,            \* history: how the first call of onClients met another
    overtaken       \* history: terminals given a size they no longer have

hostVars == <<registered, conn, closing, quitPending, news, calls, byes>>
sizeVars == <<cols, sizing, repaint, shown, overtaken>>
sessVars == <<known, quitting, switchPending, switching, views, onQuit, idle>>
progVars == <<table, gen, prog, told, stops, toStop, quitClosed>>
keyVars == <<typed, pendingIn, replay, pumped, early, got, dropped>>
vars == <<may, main, hostVars, sizeVars, sessVars, progVars, keyVars, met>>

Programs == Terminals \X {1, 2}
Roster == {t \in Terminals : conn[t] = "here"}
Tabled == {t \in Terminals : table[t] # 0}
Current == {<<t, table[t]>> : t \in Tabled}
Done(i) == prog[i] \in {"returned", "over"}

\* RunServed has gone past its own call of onClients.
Seeded == main \in {"waiting", "stopping", "returned", "byes", "closed"}

Init ==
    /\ may \in Situations /\ main = "start"
    /\ registered = {} /\ conn = [t \in Terminals |-> "away"] /\ closing = FALSE /\ quitPending = FALSE
    /\ news = {} /\ calls = [w \in {"host", "seed"} |-> NoCall] /\ byes = {}
    /\ cols = [t \in Terminals |-> 1] /\ sizing = {} /\ repaint = [t \in Terminals |-> 0]
    /\ shown = [t \in Terminals |-> 0] /\ overtaken = {}
    /\ known = {} /\ quitting = FALSE /\ switchPending = FALSE /\ switching = {} /\ views = {}
    /\ onQuit = {} /\ idle = FALSE
    /\ table = [t \in Terminals |-> 0] /\ gen = [t \in Terminals |-> 0]
    /\ prog = [i \in Programs |-> "none"] /\ told = {} /\ stops = {} /\ toStop = {} /\ quitClosed = FALSE
    /\ typed = [t \in Terminals |-> 0] /\ pendingIn = typed /\ replay = typed /\ pumped = typed
    /\ early = typed /\ got = typed /\ dropped = {}
    /\ met = "no"

-----------------------------------------------------------------------------
(* Attach and detach. *)

\* A roster change while RunServed's own call is between its read and its end.
Meets == met' = IF calls.seed # NoCall THEN "yes" ELSE met

\* Mutant: a hello is not told that the host is closing.
AttachUnasked(t) ==
    /\ t \in may.who /\ conn[t] = "away"
    /\ conn' = [conn EXCEPT ![t] = "here"] /\ news' = news \cup {<<"join", t>>} /\ Meets
    /\ UNCHANGED <<may, main, registered, closing, quitPending, calls, byes, sizeVars, sessVars, progVars, keyVars>>

\* handle: the hello.  A host that is closing says goodbye at once.
Attach(t) ==
    /\ t \in may.who /\ conn[t] = "away"
    /\ IF closing
       THEN conn' = [conn EXCEPT ![t] = "refused"] /\ UNCHANGED <<news, met>>
       ELSE conn' = [conn EXCEPT ![t] = "here"] /\ news' = news \cup {<<"join", t>>} /\ Meets
    /\ UNCHANGED <<may, main, registered, closing, quitPending, calls, byes, sizeVars, sessVars, progVars, keyVars>>

\* detach, once per client: out of the roster; a connection that ended, a
\* failed write, /detach, Drop, Switch and Close all come here.
Out(t) == conn[t] = "here" /\ conn' = [conn EXCEPT ![t] = "out"] /\ Meets

Leave(t) ==
    /\ "leave" \in may.what /\ Out(t)
    /\ UNCHANGED <<may, main, registered, closing, quitPending, news, calls, byes, sizeVars, sessVars, progVars, keyVars>>

\* Mutant: the roster is not sent out after a detach.
HangupUnseen(t) ==
    /\ conn[t] = "out" /\ conn' = [conn EXCEPT ![t] = "gone"]
    /\ UNCHANGED <<may, main, registered, closing, quitPending, news, calls, byes, sizeVars, sessVars, progVars, keyVars, met>>

\* detach: the writer has sent the bye, or byeWait is over; the connection closes.
Hangup(t) ==
    /\ conn[t] = "out"
    /\ conn' = [conn EXCEPT ![t] = "shut"] /\ news' = news \cup {<<"gone", t>>}
    /\ UNCHANGED <<may, main, registered, closing, quitPending, calls, byes, sizeVars, sessVars, progVars, keyVars, met>>

\* The handler of t is reading frames, in none of its own calls.
Reading(t) ==
    /\ conn[t] \in {"here", "out"} /\ t \notin sizing
    /\ \A why \in {"join", "size"} :
           <<why, t>> \notin news /\ (calls.host # NoCall => calls.host.by # <<why, t>>)

-----------------------------------------------------------------------------
(* The roster on its way to the session and to the runner. *)

\* recomputeAttach: notifyMu is taken and the roster is read under mu.
Recompute(n) ==
    /\ n \in news /\ calls.host = NoCall
    /\ news' = news \ {n}
    /\ calls' = [calls EXCEPT !.host =
           [by |-> n, roster |-> Roster, cols |-> cols, on |-> registered, whole |-> Seeded,
            at |-> IF n[1] = "join" /\ "size" \in registered THEN "size"
                   ELSE IF "clients" \in registered THEN "session" ELSE "end"]]
    /\ met' = IF calls.seed # NoCall /\ "clients" \in registered THEN "yes" ELSE met
    /\ UNCHANGED <<may, main, registered, conn, closing, quitPending, byes, sizeVars, sessVars, progVars, keyVars>>

\* recomputeAttach: the one that has just joined gets its own size.
JoinSize ==
    LET c == calls.host t == calls.host.by[2] IN
    /\ c # NoCall /\ c.at = "size"
    /\ shown' = IF table[t] # 0 THEN [shown EXCEPT ![t] = c.cols[t]] ELSE shown
    /\ calls' = [calls EXCEPT !.host.at = IF "clients" \in c.on THEN "session" ELSE "end"]
    /\ UNCHANGED <<may, main, registered, conn, closing, quitPending, news, byes, cols, sizing, repaint,
                   overtaken, sessVars, progVars, keyVars, met>>

\* SetClients, with the pump's Drop for each terminal that has gone.
SetClients(w) ==
    LET c == calls[w] left == known \ calls[w].roster IN
    /\ c # NoCall /\ c.at = "session"
    /\ known' = c.roster
    /\ switchPending' = (switchPending /\ c.roster = {})
    /\ dropped' = dropped \cup left
    /\ pumped' = [t \in Terminals |-> IF t \in left THEN 0 ELSE pumped[t]]
    /\ calls' = [calls EXCEPT ![w].at = "runner"]
    /\ UNCHANGED <<may, main, registered, conn, closing, quitPending, news, byes, sizeVars, quitting, switching,
                   views, onQuit, idle, progVars, typed, pendingIn, replay, early, got, met>>

\* onClients under r.mu: who gets a program and whose is stopped.
Newcomers(c) == IF quitting THEN {} ELSE {t \in c.roster : table[t] = 0}
Leavers(c) == {t \in Tabled : t \notin c.roster}

\* emptyAfterSwitch; nothing was ever typed into the session.
LeftBehind(c) == c.roster = {} /\ switchPending

\* onClients: programs are started and stopped after the roster that was read.
OnClients(w) ==
    LET c == calls[w] new == Newcomers(c) gone == Leavers(c) IN
    /\ c # NoCall /\ c.at = "runner"
    /\ gen' = [t \in Terminals |-> IF t \in new THEN gen[t] + 1 ELSE gen[t]]
    /\ table' = [t \in Terminals |-> IF t \in new THEN gen'[t] ELSE IF t \in gone THEN 0 ELSE table[t]]
    /\ prog' = [i \in Programs |-> IF i[1] \in new /\ i[2] = gen'[i[1]] THEN "running" ELSE prog[i]]
    /\ stops' = stops \cup {<<t, table[t]>> : t \in gone}
    /\ told' = told \cup {<<t, table[t]>> : t \in gone}
    /\ views' = views \cup new
    /\ shown' = [t \in Terminals |-> IF t \in new THEN c.cols[t] ELSE shown[t]]
    /\ got' = [t \in Terminals |-> IF t \in new THEN early[t] + got[t] ELSE got[t]]
    /\ early' = [t \in Terminals |-> IF t \in new THEN 0 ELSE early[t]]
    /\ quitting' = (quitting \/ LeftBehind(c))
    /\ onQuit' = IF LeftBehind(c) THEN onQuit \cup {"tell"} ELSE onQuit
    /\ calls' = [calls EXCEPT ![w].at = "end"]
    /\ UNCHANGED <<may, main, registered, conn, closing, quitPending, news, byes, cols, sizing, repaint, overtaken,
                   known, switchPending, switching, idle, toStop, quitClosed, typed, pendingIn, replay, pumped,
                   dropped, met>>

\* recomputeAttach returns: notifyMu is free, and its caller goes on.
RecomputeEnds ==
    LET c == calls.host IN
    /\ c # NoCall /\ c.at = "end"
    /\ calls' = [calls EXCEPT !.host = NoCall]
    /\ conn' = IF c.by[1] = "gone" THEN [conn EXCEPT ![c.by[2]] = "gone"] ELSE conn
    /\ sizing' = IF c.by[1] = "size" THEN sizing \cup {c.by[2]} ELSE sizing
    /\ met' = IF met = "yes" /\ c.whole THEN "mended" ELSE met
    /\ UNCHANGED <<may, main, registered, closing, quitPending, news, byes, cols, repaint, shown, overtaken,
                   sessVars, progVars, keyVars>>

-----------------------------------------------------------------------------
(* A terminal's size. *)

\* handle, FResize: the size is kept, the roster goes out, then the program hears it.
Resize(t) ==
    /\ "resize" \in may.what /\ Reading(t) /\ cols[t] < MaxSize
    /\ cols' = [cols EXCEPT ![t] = @ + 1] /\ news' = news \cup {<<"size", t>>}
    /\ UNCHANGED <<may, main, registered, conn, closing, quitPending, calls, byes, sizing, repaint, shown, overtaken,
                   sessVars, progVars, keyVars, met>>

\* onClientSize, under r.mu: a terminal without a program hears nothing.
GiveSize(t, n) == shown' = IF table[t] # 0 THEN [shown EXCEPT ![t] = n] ELSE shown

ResizeSent(t) ==
    /\ t \in sizing /\ sizing' = sizing \ {t}
    /\ IF "size" \in registered THEN GiveSize(t, cols[t]) ELSE UNCHANGED shown
    /\ overtaken' = overtaken \ {t}
    /\ UNCHANGED <<may, main, hostVars, cols, repaint, sessVars, progVars, keyVars, met>>

\* writer: output was evicted from the queue, so the program has to draw again:
\* the size is read under mu ...
Evicts(t) ==
    /\ "evict" \in may.what /\ conn[t] \in {"here", "out"} /\ repaint[t] = 0 /\ "size" \in registered
    /\ repaint' = [repaint EXCEPT ![t] = cols[t]]
    /\ UNCHANGED <<may, main, hostVars, cols, sizing, shown, overtaken, sessVars, progVars, keyVars, met>>

\* ... and sent after it.
Repaints(t) ==
    /\ repaint[t] # 0 /\ repaint' = [repaint EXCEPT ![t] = 0]
    /\ GiveSize(t, repaint[t])
    /\ overtaken' = IF repaint[t] # cols[t] THEN overtaken \cup {t} ELSE overtaken
    /\ UNCHANGED <<may, main, hostVars, cols, sizing, sessVars, progVars, keyVars, met>>

-----------------------------------------------------------------------------
(* Keys. *)

\* Feed: nothing from a client that was dropped, nothing after pump.Close.
Feed(t, n) == pumped' = IF t \in dropped \/ main \in {"returned", "byes", "closed"} THEN pumped
                        ELSE [pumped EXCEPT ![t] = @ + n]

\* handle, FInput: kept while nobody listens.
Type(t) ==
    /\ "type" \in may.what /\ Reading(t) /\ typed[t] < MaxKeys /\ \A u \in Terminals \ {t} : typed[u] = 0
    /\ typed' = [typed EXCEPT ![t] = @ + 1]
    /\ IF "input" \in registered THEN Feed(t, 1) /\ UNCHANGED pendingIn
       ELSE pendingIn' = [pendingIn EXCEPT ![t] = @ + 1] /\ UNCHANGED pumped
    /\ UNCHANGED <<may, main, hostVars, sizeVars, sessVars, progVars, replay, early, got, dropped, met>>

\* Mutant: a key that finds no program is dropped.
RouteNow(t) ==
    /\ pumped[t] > 0 /\ pumped' = [pumped EXCEPT ![t] = @ - 1]
    /\ got' = IF table[t] # 0 THEN [got EXCEPT ![t] = @ + 1] ELSE got
    /\ UNCHANGED <<may, main, hostVars, sizeVars, sessVars, progVars, typed, pendingIn, replay, early, dropped, met>>

\* route: to the terminal's program, or kept until it has one.
Route(t) ==
    /\ pumped[t] > 0 /\ pumped' = [pumped EXCEPT ![t] = @ - 1]
    /\ IF table[t] # 0 THEN got' = [got EXCEPT ![t] = @ + 1] /\ UNCHANGED early
       ELSE early' = [early EXCEPT ![t] = @ + 1] /\ UNCHANGED got
    /\ UNCHANGED <<may, main, hostVars, sizeVars, sessVars, progVars, typed, pendingIn, replay, dropped, met>>

-----------------------------------------------------------------------------
(* The end of the session. *)

\* QuitLocked: the flag once, the hook's goroutine each time.
Quits == quitting' = TRUE /\ onQuit' = onQuit \cup {"tell"}

\* RequestQuit: a signal, a client's quit frame, `sessions kill`.  A second one
\* changes nothing (bound: none once the session is quitting).
RequestQuit ==
    /\ ~quitting
    /\ IF "quit" \in registered THEN Quits /\ UNCHANGED quitPending
       ELSE quitPending' = TRUE /\ UNCHANGED <<quitting, onQuit>>
    /\ UNCHANGED <<may, main, registered, conn, closing, news, calls, byes, sizeVars, known, switchPending, switching,
                   views, idle, progVars, keyVars, met>>

\* idleLoop: nobody has been attached for live_idle_limit ...
IdleExpires ==
    /\ "idle" \in may.what /\ main = "waiting" /\ known = {} /\ ~quitClosed /\ ~idle /\ idle' = TRUE
    /\ UNCHANGED <<may, main, hostVars, sizeVars, known, quitting, switchPending, switching, views, onQuit, progVars,
                   keyVars, met>>

\* ... and the session ends, whoever has attached since.
IdleQuits ==
    /\ idle /\ idle' = FALSE /\ Quits
    /\ UNCHANGED <<may, main, hostVars, sizeVars, known, switchPending, switching, views, progVars, keyVars, met>>

\* joinLive in a view's Update: the terminal is to go to another live session ...
AsksSwitch(t) ==
    /\ "switch" \in may.what /\ table[t] # 0 /\ prog[<<t, table[t]>>] = "running" /\ t \notin switching
    /\ switchPending' = TRUE /\ switching' = switching \cup {t}
    /\ UNCHANGED <<may, main, hostVars, sizeVars, known, quitting, views, onQuit, idle, progVars, keyVars, met>>

\* ... Switch, as a command.
Switches(t) ==
    /\ t \in switching /\ switching' = switching \ {t}
    /\ IF conn[t] = "here" THEN Out(t) ELSE UNCHANGED <<conn, met>>
    /\ UNCHANGED <<may, main, registered, closing, quitPending, news, calls, byes, sizeVars, known, quitting,
                   switchPending, views, onQuit, idle, progVars, keyVars>>

\* onSessionQuit: every program in the table is asked to quit ...
TellsAll ==
    /\ "tell" \in onQuit /\ onQuit' = (onQuit \ {"tell"}) \cup {"count"}
    /\ told' = told \cup Current
    /\ UNCHANGED <<may, main, hostVars, sizeVars, known, quitting, switchPending, switching, views, idle, table, gen,
                   prog, stops, toStop, quitClosed, keyVars, met>>

\* programExited: the last program of the table to end lets RunServed return.
Exited == quitClosed' = (quitClosed \/ (quitting /\ \A t \in Tabled : Done(<<t, table[t]>>)))

\* ... and counted, for there may be none.
CountsAll ==
    /\ "count" \in onQuit /\ onQuit' = onQuit \ {"count"} /\ Exited
    /\ UNCHANGED <<may, main, hostVars, sizeVars, known, quitting, switchPending, switching, views, idle, table, gen,
                   prog, told, stops, toStop, keyVars, met>>

-----------------------------------------------------------------------------
(* One program. *)

\* p.Run returns, asked by Quit or by the broadcast quitMsg; done is closed.
Returns(i) ==
    /\ prog[i] = "running" /\ (i \in told \/ quitting)
    /\ prog' = [prog EXCEPT ![i] = "returned"]
    /\ UNCHANGED <<may, main, hostVars, sizeVars, sessVars, table, gen, told, stops, toStop, quitClosed, keyVars, met>>

Panics(i) ==
    /\ "panic" \in may.what /\ prog[i] = "running" /\ prog' = [prog EXCEPT ![i] = "panicked"]
    /\ UNCHANGED <<may, main, hostVars, sizeVars, sessVars, table, gen, told, stops, toStop, quitClosed, keyVars, met>>

\* The recover: Drop, for a client that is still in the roster.
Drops(i) ==
    /\ prog[i] = "panicked"
    /\ IF conn[i[1]] = "here" THEN Out(i[1]) /\ prog' = [prog EXCEPT ![i] = "dropping"]
       ELSE prog' = [prog EXCEPT ![i] = "returned"] /\ UNCHANGED <<conn, met>>
    /\ UNCHANGED <<may, main, registered, closing, quitPending, news, calls, byes, sizeVars, sessVars, table, gen, told,
                   stops, toStop, quitClosed, keyVars>>

\* Drop has returned: done is closed.
Dropped(i) ==
    /\ prog[i] = "dropping" /\ conn[i[1]] = "gone" /\ prog' = [prog EXCEPT ![i] = "returned"]
    /\ UNCHANGED <<may, main, hostVars, sizeVars, sessVars, table, gen, told, stops, toStop, quitClosed, keyVars, met>>

\* The deferred programExited.
Exits(i) ==
    /\ prog[i] = "returned" /\ prog' = [prog EXCEPT ![i] = "over"] /\ Exited
    /\ UNCHANGED <<may, main, hostVars, sizeVars, sessVars, table, gen, told, stops, toStop, keyVars, met>>

\* stop, on a goroutine of its own: the program has ended; its view is let go
\* (detachView goes by the terminal's id).
Stops(i) ==
    /\ i \in stops /\ Done(i) /\ stops' = stops \ {i} /\ views' = views \ {i[1]}
    /\ UNCHANGED <<may, main, hostVars, sizeVars, known, quitting, switchPending, switching, onQuit, idle, table, gen,
                   prog, told, toStop, quitClosed, keyVars, met>>

-----------------------------------------------------------------------------
(* RunServed and the end of runSessionHost. *)

\* The hooks of the session, then the host's callbacks in their order.
Registers ==
    LET next == [start |-> "size", size |-> "clients", clients |-> "quit"] IN
    /\ main \in DOMAIN next
    /\ main' = next[main] /\ registered' = registered \cup ({next[main]} \ {"quit"})
    /\ UNCHANGED <<may, conn, closing, quitPending, news, calls, byes, sizeVars, sessVars, progVars, keyVars, met>>

\* Mutant: a quit that came before OnQuit is forgotten.
RegistersQuitLate ==
    /\ main = "quit" /\ main' = "input"
    /\ registered' = registered \cup {"quit"} /\ quitPending' = FALSE
    /\ UNCHANGED <<may, conn, closing, news, calls, byes, sizeVars, sessVars, progVars, keyVars, met>>

\* OnQuit: a quit that came before is replayed, outside mu.
RegistersQuit ==
    /\ main = "quit" /\ main' = IF quitPending THEN "replay" ELSE "input"
    /\ registered' = registered \cup {"quit"} /\ quitPending' = FALSE
    /\ UNCHANGED <<may, conn, closing, news, calls, byes, sizeVars, sessVars, progVars, keyVars, met>>

ReplaysQuit ==
    /\ main = "replay" /\ main' = "input" /\ Quits
    /\ UNCHANGED <<may, hostVars, sizeVars, known, switchPending, switching, views, idle, progVars, keyVars, met>>

\* OnInput: the keys of the clients in the roster are taken, and fed outside mu.
RegistersInput ==
    /\ main = "input" /\ main' = "feed" /\ registered' = registered \cup {"input"}
    /\ replay' = [t \in Terminals |-> IF conn[t] = "here" THEN pendingIn[t] ELSE 0]
    /\ pendingIn' = [t \in Terminals |-> pendingIn[t] - replay'[t]]
    /\ UNCHANGED <<may, conn, closing, quitPending, news, calls, byes, sizeVars, sessVars, progVars, typed, pumped,
                   early, got, dropped, met>>

FeedsEarly(t) ==
    /\ main = "feed" /\ replay[t] > 0 /\ replay' = [replay EXCEPT ![t] = 0] /\ Feed(t, replay[t])
    /\ UNCHANGED <<may, main, hostVars, sizeVars, sessVars, progVars, typed, pendingIn, early, got, dropped, met>>

\* RunServed's own call of onClients, without notifyMu.
Seeds ==
    /\ main = "feed" /\ \A t \in Terminals : replay[t] = 0
    /\ main' = "seed"
    /\ calls' = [calls EXCEPT !.seed = [by |-> <<"seed", NoCall>>, roster |-> Roster, cols |-> cols,
                                        on |-> registered, whole |-> FALSE, at |-> "session"]]
    /\ met' = IF calls.host # NoCall /\ calls.host.at # "end" /\ "clients" \in calls.host.on THEN "yes" ELSE met
    /\ UNCHANGED <<may, registered, conn, closing, quitPending, news, byes, sizeVars, sessVars, progVars, keyVars>>

SeedEnds ==
    /\ main = "seed" /\ calls.seed.at = "end"
    /\ main' = "waiting" /\ calls' = [calls EXCEPT !.seed = NoCall]
    /\ UNCHANGED <<may, registered, conn, closing, quitPending, news, byes, sizeVars, sessVars, progVars, keyVars, met>>

\* stopAll: the table is taken, and everything in it asked to quit ...
StopAll ==
    /\ main = "waiting" /\ quitClosed /\ main' = "stopping"
    /\ toStop' = Current /\ told' = told \cup Current /\ table' = [t \in Terminals |-> 0]
    /\ UNCHANGED <<may, hostVars, sizeVars, sessVars, gen, prog, stops, quitClosed, keyVars, met>>

StopsOne(i) ==
    /\ i \in toStop /\ Done(i) /\ toStop' = toStop \ {i} /\ views' = views \ {i[1]}
    /\ UNCHANGED <<may, main, hostVars, sizeVars, known, quitting, switchPending, switching, onQuit, idle, table, gen,
                   prog, told, stops, quitClosed, keyVars, met>>

\* ... stopping.Wait; RunServed returns, closing the pump, and the closing
\* lines are written.
\* Mutant: the stops on goroutines of their own are not waited for.
AllStoppedHere == toStop = {}
AllStopped == toStop = {} /\ stops = {}
RunServedReturns ==
    /\ main = "stopping" /\ AllStopped /\ main' = "returned"
    /\ pumped' = [t \in Terminals |-> 0]
    /\ UNCHANGED <<may, hostVars, sizeVars, sessVars, progVars, typed, pendingIn, replay, early, got, dropped, met>>

\* Close: from here on every hello is refused ...
Closes ==
    /\ main = "returned" /\ main' = "byes" /\ closing' = TRUE /\ byes' = Roster
    /\ UNCHANGED <<may, registered, conn, quitPending, news, calls, sizeVars, sessVars, progVars, keyVars, met>>

\* ... and every client detached, or waited for where another detach is under way.
Goodbye(t) ==
    /\ main = "byes" /\ t \in byes /\ Out(t)
    /\ UNCHANGED <<may, main, registered, closing, quitPending, news, calls, byes, sizeVars, sessVars, progVars, keyVars>>
GoodbyeEnds(t) ==
    /\ main = "byes" /\ t \in byes /\ conn[t] = "gone" /\ byes' = byes \ {t}
    /\ UNCHANGED <<may, main, registered, conn, closing, quitPending, news, calls, sizeVars, sessVars, progVars,
                   keyVars, met>>
Ends ==
    /\ main = "byes" /\ byes = {} /\ main' = "closed"
    /\ UNCHANGED <<may, hostVars, sizeVars, sessVars, progVars, keyVars, met>>

-----------------------------------------------------------------------------
\* What the people, the network and the process's signals do.
Environment ==
    \/ RequestQuit \/ IdleExpires
    \/ \E t \in Terminals : Attach(t) \/ Leave(t) \/ Resize(t) \/ Evicts(t) \/ Type(t) \/ AsksSwitch(t)
    \/ \E i \in Programs : Panics(i)

\* What the process's goroutines do.
OfRoster == JoinSize \/ RecomputeEnds \/ \E n \in news : Recompute(n)
OfCall(w) == SetClients(w) \/ OnClients(w)
OfMain ==
    \/ Registers \/ RegistersQuit \/ ReplaysQuit \/ RegistersInput \/ Seeds \/ SeedEnds \/ StopAll
    \/ RunServedReturns \/ Closes \/ Ends
    \/ \E t \in Terminals : FeedsEarly(t) \/ Goodbye(t) \/ GoodbyeEnds(t)
    \/ \E i \in toStop : StopsOne(i)
OfTerminal(t) == Hangup(t) \/ ResizeSent(t) \/ Repaints(t) \/ Route(t) \/ Switches(t)
OfProgram(i) == Drops(i) \/ Dropped(i) \/ Exits(i) \/ Stops(i)
OfSession == TellsAll \/ CountsAll \/ IdleQuits

System ==
    \/ OfRoster \/ OfMain \/ OfSession \/ \E w \in {"host", "seed"} : OfCall(w)
    \/ \E t \in Terminals : OfTerminal(t)
    \/ \E i \in Programs : Returns(i) \/ OfProgram(i)

\* runSessionHost has returned; what goroutines of the process are left may run on.
Finished == main = "closed" /\ UNCHANGED vars
Next == Environment \/ System \/ Finished

Spec == Init /\ [][Next]_vars
\* Goroutines that can run do.  A program is sure to return only when it was
\* asked directly: the broadcast may have been dropped by a full mailbox.
Fairness ==
    /\ WF_vars(OfRoster) /\ WF_vars(OfMain)
    /\ \A w \in {"host", "seed"} : WF_vars(OfCall(w))
    /\ WF_vars(TellsAll) /\ WF_vars(CountsAll)
    /\ \A t \in Terminals : WF_vars(Hangup(t))
    /\ \A i \in Programs : WF_vars((OfProgram(i) \/ (i \in told /\ Returns(i))))
FairSpec == Spec /\ Fairness

-----------------------------------------------------------------------------
TypeOK ==
    /\ conn \in [Terminals -> {"away", "here", "refused", "out", "shut", "gone"}]
    /\ table \in [Terminals -> 0..2] /\ gen \in [Terminals -> 0..2]
    /\ prog \in [Programs -> {"none", "running", "panicked", "dropping", "returned", "over"}]
    /\ told \subseteq Programs /\ stops \subseteq Programs /\ toStop \subseteq Programs
    /\ known \subseteq Terminals /\ views \subseteq Terminals /\ onQuit \subseteq {"tell", "count"}
    /\ shown \in [Terminals -> 0..MaxSize] /\ repaint \in [Terminals -> 0..MaxSize]
    /\ early \in [Terminals -> 0..MaxKeys] /\ got \in [Terminals -> 0..MaxKeys]

\* "After this returns, nothing renders any more, which is what makes the
\* host's closing lines safe to write" (stopAll).
NothingRendersAfter ==
    main \in {"returned", "byes", "closed"} =>
        /\ \A i \in Programs : prog[i] \in {"none", "returned", "over"}
        /\ Tabled = {}

\* Nobody is left attached to a host that has closed, whenever they came (Close).
ClosedIsEmpty == main = "closed" => Roster = {}

\* Nothing that changes the roster is on its way.
Quiet ==
    /\ main = "waiting" /\ ~quitting /\ news = {} /\ calls.host = NoCall
    /\ \A t \in Terminals : conn[t] # "out"

\* "The set of programs can never drift from the set of terminals" (onClients).
NoDrift == Quiet => Tabled = Roster /\ known = Roster

\* They do not drift, unless RunServed's own call met a change of the roster,
\* and then until the next recompute has gone round; nor do the views, and the
\* program of a terminal that is still here lays out for the size the terminal
\* has (onClientSize), unless a repaint brought an older one.
InStep ==
    /\ Quiet /\ met # "yes" => Tabled = Roster /\ known = Roster
    /\ Quiet /\ met = "no" /\ stops = {} => views = Roster
    /\ Quiet => \A t \in (Tabled \cap Roster) \ (sizing \cup overtaken) : repaint[t] = 0 => shown[t] = cols[t]

\* A terminal's keys all reach its program, once each, those typed before
\* there was a program too (OnInput, route).
KeysKept ==
    Quiet /\ met = "no" =>
        \A t \in Roster : pendingIn[t] = 0 /\ typed[t] = pumped[t] + got[t]

\* A session that was asked to end ends, whoever attaches, leaves or panics
\* meanwhile ("dropping it would leave the host running with the caller
\* convinced it had asked it to stop", Host.quitPending).
QuitEnds == (quitting \/ quitPending) ~> (main = "closed")
=============================================================================
