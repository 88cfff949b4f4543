------------------------------- MODULE Window -------------------------------
(* The context window of the session's model: a switch of models and the
   resolution behind it (internal/agent/loop.go), the loader that decides a
   model's window and asks before it reloads one that is in use
   (internal/loader/loader.go), and the request of a turn that waits for the
   window, looks at the server, and recovers from a refusal
   (internal/agent/resilience.go, overflow.go, prefill.go).

   The options of the provider are one cell, the wire: whoever writes it last
   decides what every later request of any model carries.  A size stands for a
   number of tokens.  One server, one provider, and a person there to ask;
   somebody else on the server may load, reload and evict models. *)
EXTENDS Integers, FiniteSets

CONSTANTS
    Models,
    Conf,           \* Params.Window of each model, 0 for none
    Own,            \* the num_ctx of its Modelfile, 0 for none
    Default,        \* the server's size for a request that names none
    MaxSize,        \* bound: sizes are 1 .. MaxSize
    Situations,     \* bound: the mode, how many resolutions, and what may happen
    MaxGen,         \* bound: the most resolutions of a situation
    MaxRetries,     \* maxResolveRetries
    MaxMeddle,      \* bound: what the others on the server do, in all
    None

Sizes == 1 .. MaxSize
Modes == {"ask", "never", "always"}

ASSUME WindowAssumption ==
    /\ MaxSize \in Nat \ {0} /\ MaxGen \in Nat /\ MaxRetries \in Nat \ {0} /\ MaxMeddle \in Nat
    /\ Conf \in [Models -> 0 .. MaxSize] /\ Own \in [Models -> 0 .. MaxSize] /\ Default \in Sizes
    /\ Situations \subseteq [mode : Modes, gens : 0 .. MaxGen,
                             may : SUBSET {"request", "blind", "late", "panic", "meddle", "prefill", "long"}]
    /\ None \notin Models

VARIABLES
    now,            \* bound: the situation of this behaviour
    model, gen,     \* Agent.Model, modelGen
    resolving,      \* Agent.resolvingGen while resolving is set, else 0
    open,           \* the generations whose channel is not closed
    switching,      \* applySwitch between its locked half and clearWireWindow
    wire,           \* Ollama.opts.NumCtx; whose it is and who wrote it, for the properties
    window,         \* Agent.window, the budget
    unconfirmed,    \* Agent.windowUnconfirmed
    asked, agreed,  \* Loader.asked, agreed
    asking,         \* Loader.inflight
    work,           \* each resolution, and under 0 the request
    req,            \* what the request carries besides
    turn,           \* who holds turnMu
    tokens,         \* the least size the conversation fits in
    prefill,        \* the model of the prefill under way
    server,         \* the size each model is loaded with, 0 for not loaded
    meddled,        \* bound: what the others have done
    hurt            \* history: a resolution failed, or gave up the hand-back

switchVars == <<model, gen, switching>>
waitVars == <<resolving, open>>
askVars == <<asked, agreed, asking>>
budgetVars == <<window, unconfirmed>>
boundVars == <<now, meddled>>
vars == <<switchVars, waitVars, wire, budgetVars, askVars, work, req, turn, tokens, prefill, server, boundVars, hurt>>

Gens == 1 .. MaxGen
Procs == 0 .. MaxGen
May(what) == what \in now.may

NoWork == [at |-> "none", model |-> None, saw |-> 0, put |-> 0, claim |-> FALSE,
           dead |-> FALSE, again |-> FALSE, tries |-> 0, seen |-> 0]
Idle == [NoWork EXCEPT !.at = "idle"]
NoReq == [ch |-> 0, of |-> None, size |-> 0, sent |-> None, tried |-> FALSE]

\* p comes to a place, having changed some of its fields.
Comes(p, new) == work' = [work EXCEPT ![p] = new]
At(p, place) == work[p].at = place
Went(p, place) == Comes(p, [work[p] EXCEPT !.at = place])
Writes(n, m, p) == wire' = [num |-> n, of |-> m, by |-> IF p = 0 THEN "request" ELSE "loader"]
Cleared == [wire EXCEPT !.num = 0]

-----------------------------------------------------------------------------
(* A switch, and the wait it opens. *)

\* Mutant: only the newest channel is ever closed.
BeginsOver(g) == open' = open \cup {g} /\ resolving' = g
\* beginResolveLocked: the channel of the generation it supersedes is closed.
Begins(g) ==
    /\ open' = (open \ {resolving}) \cup {g}
    /\ resolving' = g

Starts(m) == [NoWork EXCEPT !.at = "probe", !.model = m]

SetModel(m) ==
    /\ switching = FALSE /\ gen < now.gens
    /\ model' = m /\ gen' = gen + 1 /\ Begins(gen + 1)
    /\ switching' = TRUE
    /\ UNCHANGED <<wire, budgetVars, askVars, work, req, turn, tokens, prefill, server, boundVars, hurt>>

\* The rest of applySwitch, and goResolve.
SwitchClears ==
    /\ switching /\ switching' = FALSE
    /\ wire' = Cleared
    /\ Comes(gen, Starts(model))
    /\ UNCHANGED <<model, gen, waitVars, budgetVars, askVars, req, turn, tokens, prefill, server, boundVars, hurt>>

\* Once the session has somebody to ask; nothing is taken off the wire.
ResolveModel ==
    /\ switching = FALSE /\ gen = 0 /\ gen < now.gens
    /\ gen' = 1 /\ Begins(1)
    /\ Comes(1, Starts(model))
    /\ UNCHANGED <<model, switching, wire, budgetVars, askVars, req, turn, tokens, prefill, server, boundVars, hurt>>

-----------------------------------------------------------------------------
(* Loader.Apply, for a resolution or the request. *)

inApply == {"probe", "show", "consent", "asked", "write"}
others == <<switchVars, waitVars, budgetVars, req, turn, tokens, prefill, server, boundVars>>

\* The next thing Apply does is to put n on the wire; n below 1 is no window,
\* and -1 an error besides.
Decides(p, n) == Comes(p, [work[p] EXCEPT !.at = "write", !.put = n])

\* /api/ps does not answer in time, or does not say the size.
ProbeFails(p) ==
    /\ At(p, "probe") /\ (work[p].dead \/ May("blind"))
    /\ Decides(p, 0) /\ hurt' = TRUE
    /\ UNCHANGED <<others, wire, askVars>>

Probe(p) ==
    LET m == work[p].model IN
    /\ At(p, "probe") /\ ~work[p].dead
    /\ \/ Conf[m] > 0 /\ server[m] \in {0, Conf[m]} /\ Decides(p, Conf[m])
       \/ /\ Conf[m] > 0 /\ server[m] \notin {0, Conf[m]}
          /\ Comes(p, [work[p] EXCEPT !.at = "consent", !.saw = server[m]])
       \/ Conf[m] = 0 /\ server[m] > 0 /\ Decides(p, server[m])
       \/ Conf[m] = 0 /\ server[m] = 0 /\ Went(p, "show")
    /\ UNCHANGED <<others, wire, askVars, hurt>>

\* ContextLength looks at what is loaded again, then at the Modelfile.
Show(p) ==
    LET m == work[p].model IN
    /\ At(p, "show")
    /\ \/ ~work[p].dead /\ Decides(p, IF server[m] > 0 THEN server[m] ELSE Own[m]) /\ hurt' = hurt
       \/ (work[p].dead \/ May("blind")) /\ Decides(p, -1) /\ hurt' = TRUE
    /\ UNCHANGED <<others, wire, askVars>>

\* reconcile without a question: the mode decides, or an answer given before.
Reconciles(p) ==
    LET m == work[p].model IN
    /\ At(p, "consent")
    /\ \/ now.mode = "never" /\ Decides(p, work[p].saw)
       \/ now.mode = "always" /\ Decides(p, Conf[m])
       \/ /\ now.mode = "ask" /\ m \in asked \ asking
          /\ Decides(p, IF m \in agreed THEN Conf[m] ELSE work[p].saw)
    /\ UNCHANGED <<others, wire, askVars, hurt>>

\* Mutant: it goes by what it has seen of the server.
StopsWaitingLoudly(p) ==
    /\ At(p, "consent") /\ now.mode = "ask" /\ work[p].model \in asking /\ work[p].dead
    /\ Decides(p, work[p].saw)
    /\ UNCHANGED <<others, wire, askVars, hurt>>

\* A caller that waits for another's answer and is out of time writes nothing.
StopsWaiting(p) ==
    /\ At(p, "consent") /\ now.mode = "ask" /\ work[p].model \in asking /\ work[p].dead
    /\ Comes(p, [work[p] EXCEPT !.at = "back", !.put = work[p].saw, !.saw = 0])
    /\ UNCHANGED <<others, wire, askVars, hurt>>

Claims(p) ==
    /\ At(p, "consent") /\ now.mode = "ask" /\ work[p].model \notin asking \cup asked
    /\ asking' = asking \cup {work[p].model}
    /\ Comes(p, [work[p] EXCEPT !.at = "asked", !.claim = TRUE])
    /\ UNCHANGED <<others, wire, asked, agreed, hurt>>

\* A no that comes with the context done is a question withdrawn.
Answer(p, yes) ==
    LET m == work[p].model IN
    /\ At(p, "asked") /\ (yes \/ ~work[p].dead)
    /\ asked' = asked \cup {m}
    /\ agreed' = IF yes THEN agreed \cup {m} ELSE agreed
    /\ Decides(p, IF yes THEN Conf[m] ELSE work[p].saw)
    /\ UNCHANGED <<others, wire, asking, hurt>>

Withdrawn(p) ==
    /\ At(p, "asked") /\ work[p].dead
    /\ Decides(p, work[p].saw)
    /\ UNCHANGED <<others, wire, askVars, hurt>>

Released(p) == IF work[p].claim THEN asking \ {work[p].model} ELSE asking

\* SetOptions, and the deferred release of the question.
Write(p) ==
    LET w == work[p] IN
    /\ At(p, "write")
    /\ Writes(IF w.put > 0 THEN w.put ELSE 0, w.model, p)
    /\ asking' = Released(p)
    /\ Comes(p, [w EXCEPT !.at = "back", !.claim = FALSE, !.saw = 0])
    /\ UNCHANGED <<others, asked, agreed, hurt>>

Apply(p) ==
    \/ ProbeFails(p) \/ Probe(p) \/ Show(p)
    \/ Reconciles(p) \/ StopsWaiting(p) \/ Claims(p) \/ Withdrawn(p) \/ Write(p)

-----------------------------------------------------------------------------
(* resolveModel of generation g, around Apply. *)

\* ModelResolveTimeout, or the ten seconds of a hand-back.
Deadline(g) ==
    /\ work[g].at \in inApply /\ ~work[g].dead /\ (May("late") \/ work[g].at \in {"consent", "asked"})
    /\ Comes(g, [work[g] EXCEPT !.dead = TRUE])
    /\ UNCHANGED <<others, wire, askVars, hurt>>

\* Recovered in resolveModel; the question is released on the way.
Panic(g) ==
    /\ May("panic") /\ work[g].at \in {"probe", "asked"}
    /\ Comes(g, [NoWork EXCEPT !.at = "end"])
    /\ asking' = Released(g) /\ hurt' = TRUE
    /\ UNCHANGED <<others, wire, asked, agreed>>

Stale(g) == g # gen

\* Mutant: the wire is taken back, and nobody hands it to the current model.
OvertakenQuietly(g) ==
    /\ At(g, "back") /\ ~work[g].again /\ Stale(g)
    /\ wire' = Cleared
    /\ Comes(g, [NoWork EXCEPT !.at = "end"])
    /\ UNCHANGED <<others, askVars, hurt>>

\* Once stale it stays so: the look at modelGen and what follows are one step.
Overtaken(g) ==
    /\ At(g, "back") /\ ~work[g].again /\ Stale(g)
    /\ wire' = Cleared
    /\ Comes(g, [NoWork EXCEPT !.at = "again"])
    /\ UNCHANGED <<others, askVars, hurt>>

\* A round of reapplyCurrent begins, on a context of its own if need be.
Rehands(g) ==
    /\ At(g, "again")
    /\ Comes(g, [Starts(model) EXCEPT !.again = TRUE, !.seen = gen, !.tries = work[g].tries + 1])
    /\ UNCHANGED <<others, wire, askVars, hurt>>

\* Mutant: one round too many.
GivesUpLate(w) == w.tries > MaxRetries
GivesUp(w) == w.tries = MaxRetries

\* ...and ends: with an error, with the current model's window, or overtaken.
Rehanded(g) ==
    LET w == work[g]
        failed == w.put = -1 \/ w.dead
        over == w.seen # gen /\ GivesUp(w) IN
    /\ At(g, "back") /\ w.again
    /\ wire' = IF failed \/ w.seen # gen THEN Cleared ELSE wire
    /\ hurt' = (hurt \/ failed \/ over)
    /\ Comes(g, [NoWork EXCEPT !.at = IF failed \/ over \/ w.seen = gen THEN "end" ELSE "again",
                               !.tries = IF failed \/ over \/ w.seen = gen THEN 0 ELSE w.tries])
    /\ UNCHANGED <<others, askVars>>

Landed(g) ==
    /\ At(g, "back") /\ ~work[g].again /\ ~Stale(g)
    /\ Comes(g, [NoWork EXCEPT !.at = IF work[g].put > 0 THEN "fits" ELSE "end", !.put = work[g].put])
    /\ UNCHANGED <<others, wire, askVars, hurt>>

rest == <<switchVars, waitVars, wire, askVars, req, server, boundVars, hurt>>

\* ApplyResolvedWindow.
Fits(n) == unconfirmed' = TRUE /\ window' = n

FitsBudget(g) ==
    /\ At(g, "fits") /\ Fits(work[g].put)
    /\ Comes(g, [NoWork EXCEPT !.at = "turn"])
    /\ UNCHANGED <<rest, turn, tokens, prefill>>

\* turnMu.TryLock: a request in flight is left alone.
TriesTurn(g) ==
    /\ At(g, "turn")
    /\ \/ turn = None /\ turn' = g /\ Went(g, "tidy")
       \/ turn # None /\ turn' = turn /\ Went(g, "warm")
    /\ UNCHANGED <<rest, budgetVars, tokens, prefill>>

\* The conversation is made smaller where it does not fit, if that works.
Tidies(g) ==
    /\ At(g, "tidy")
    /\ tokens' \in IF tokens > window THEN 1 .. tokens ELSE {tokens}
    /\ turn' = None /\ Went(g, "warm")
    /\ UNCHANGED <<rest, budgetVars, prefill>>

\* StartPrefill.
Warms(g) ==
    /\ At(g, "warm") /\ Went(g, "end")
    /\ prefill' = IF May("prefill") /\ turn = None THEN model ELSE None
    /\ UNCHANGED <<rest, budgetVars, turn, tokens>>

\* endResolve: the channel is closed unless a later switch has done so.
Ends(g) ==
    /\ At(g, "end") /\ Went(g, "done")
    /\ open' = IF resolving = g THEN open \ {g} ELSE open
    /\ resolving' = IF resolving = g THEN 0 ELSE resolving
    /\ UNCHANGED <<switchVars, wire, askVars, req, server, boundVars, hurt, budgetVars, turn, tokens, prefill>>

Resolves(g) ==
    \/ Apply(g) \/ Panic(g) \/ Overtaken(g) \/ Rehands(g) \/ Rehanded(g) \/ Landed(g)
    \/ FitsBudget(g) \/ TriesTurn(g) \/ Tidies(g) \/ Warms(g) \/ Ends(g)

-----------------------------------------------------------------------------
(* The request, and a turn of its loop. *)

quietly == <<switchVars, waitVars, askVars, prefill, boundVars, hurt>>
Asks(place) == Went(0, place)
\* What the conversation may grow to.
Grown == tokens .. IF May("long") THEN MaxSize ELSE tokens
Over == Comes(0, Idle) /\ req' = NoReq /\ turn' = None

\* stopPrefill, and only then the lock.
Runs ==
    /\ At(0, "idle") /\ May("request") /\ Asks("locks")
    /\ prefill' = None
    /\ UNCHANGED <<switchVars, waitVars, wire, budgetVars, askVars, req, turn, tokens, server, boundVars, hurt>>

Locks ==
    /\ At(0, "locks") /\ turn = None /\ turn' = 0 /\ Asks("await")
    /\ tokens' \in Grown
    /\ UNCHANGED <<quietly, wire, budgetVars, req, server>>

\* awaitWindow.
Await ==
    /\ At(0, "await")
    /\ \/ /\ resolving = 0 /\ Comes(0, [work[0] EXCEPT !.at = "status", !.seen = gen])
          /\ req' = req
       \/ /\ resolving # 0 /\ Asks("wait") /\ req' = [req EXCEPT !.ch = resolving]
    /\ UNCHANGED <<quietly, wire, budgetVars, turn, tokens, server>>

\* Mutant: one closed channel is taken for the end of the waiting.
WakesAtOnce ==
    /\ At(0, "wait") /\ req.ch \notin open
    /\ Comes(0, [work[0] EXCEPT !.at = "status", !.seen = gen]) /\ req' = [req EXCEPT !.ch = 0]
    /\ UNCHANGED <<quietly, wire, budgetVars, turn, tokens, server>>
Wakes ==
    /\ At(0, "wait") /\ req.ch \notin open
    /\ Asks("await") /\ req' = [req EXCEPT !.ch = 0]
    /\ UNCHANGED <<quietly, wire, budgetVars, turn, tokens, server>>

\* checkBackend: what the server says of the model there was at the call.
\* Where /api/ps fails and /api/show answers, that is that it is not loaded.
Status ==
    /\ At(0, "status")
    /\ \/ Asks("adapt") /\ req' = [req EXCEPT !.of = model, !.size = server[model]]
       \/ May("blind") /\ Asks("adapt") /\ req' = [req EXCEPT !.of = model]
       \/ May("blind") /\ Asks("compact") /\ req' = req
    /\ UNCHANGED <<quietly, wire, budgetVars, turn, tokens, server>>

\* OnEvicted, for the model there is by now.
Adapts ==
    /\ At(0, "adapt") /\ req.size = 0 /\ Asks("compact")
    /\ IF Conf[model] > 0 THEN Writes(Conf[model], model, 0) ELSE wire' = wire
    /\ req' = [req EXCEPT !.of = None]
    /\ UNCHANGED <<quietly, budgetVars, turn, tokens, server>>

\* A window not confirmed yet is not compared with the server's.
Compares ==
    /\ At(0, "adapt") /\ req.size > 0
    /\ IF unconfirmed \/ req.size = window
       THEN Asks("compact") /\ req' = [req EXCEPT !.of = None, !.size = 0] /\ window' = window
       ELSE Asks("tell") /\ req' = req /\ window' = req.size
    /\ UNCHANGED <<quietly, wire, unconfirmed, turn, tokens, server>>

\* OnWindowChanged: adapt, unless reloads are fine with the person.
Tells ==
    /\ At(0, "tell") /\ Asks("compact")
    /\ IF now.mode = "always" /\ Conf[model] > 0
       THEN Writes(Conf[model], model, 0) ELSE Writes(req.size, req.of, 0)
    /\ req' = [req EXCEPT !.of = None, !.size = 0]
    /\ UNCHANGED <<quietly, budgetVars, turn, tokens, server>>

\* maybeCompact, and requestFor.
Compacts ==
    /\ At(0, "compact") /\ Asks("send")
    /\ tokens' \in IF window > 0 /\ tokens > window THEN 1 .. tokens ELSE {tokens}
    /\ req' = [req EXCEPT !.sent = model]
    /\ UNCHANGED <<quietly, wire, budgetVars, turn, server>>

\* What a request for m is run with, and m loaded with from then on.
RunsAt(m) == IF wire.num > 0 THEN wire.num ELSE IF Own[m] > 0 THEN Own[m] ELSE Default

\* Chat: the options are read now, the model was before.
Send ==
    LET n == RunsAt(req.sent) IN
    /\ At(0, "send")
    /\ server' = [server EXCEPT ![req.sent] = n]
    /\ IF tokens <= n THEN Asks("reply") /\ req' = req
       ELSE Asks("refused") /\ req' = [req EXCEPT !.size = n]
    /\ UNCHANGED <<quietly, wire, budgetVars, turn, tokens>>

\* chatFiltered and the turn's calls: another turn, or the end.
Replied ==
    /\ At(0, "reply") /\ unconfirmed' = FALSE
    /\ \/ /\ Comes(0, [Idle EXCEPT !.at = "await"]) /\ req' = [NoReq EXCEPT !.tried = req.tried]
          /\ tokens' \in Grown /\ turn' = turn
       \/ Over /\ tokens' = tokens
    /\ UNCHANGED <<quietly, wire, window, server>>

\* recoverFromOverflow, once a run.
Recovers ==
    /\ At(0, "refused")
    /\ \/ req.tried /\ Over
       \/ /\ ~req.tried /\ req' = [req EXCEPT !.tried = TRUE]
          /\ Comes(0, Starts(model)) /\ turn' = turn
    /\ UNCHANGED <<quietly, wire, budgetVars, tokens, server>>

Recovered ==
    LET n == IF work[0].put > 0 THEN work[0].put ELSE req.size
        retries == Comes(0, [Idle EXCEPT !.at = "await"]) /\ req' = [NoReq EXCEPT !.tried = TRUE] /\ turn' = turn IN
    /\ At(0, "back")
    /\ IF work[0].dead THEN Over /\ UNCHANGED <<budgetVars, tokens>>
       ELSE /\ IF work[0].put > 0 THEN Fits(n) ELSE window' = n /\ unconfirmed' = unconfirmed
            /\ \/ n > req.size /\ retries /\ tokens' = tokens
               \/ n <= req.size /\ tokens' \in 1 .. tokens /\ (IF tokens' < tokens THEN retries ELSE Over)
    /\ UNCHANGED <<quietly, wire, server>>

\* Esc, or a backend that stays away.
Cancelled ==
    /\ \/ work[0].at \in {"wait", "status", "compact", "send", "reply"} /\ Over
       \/ /\ work[0].at \in inApply /\ ~work[0].dead /\ Comes(0, [work[0] EXCEPT !.dead = TRUE])
          /\ UNCHANGED <<req, turn>>
    /\ UNCHANGED <<quietly, wire, budgetVars, tokens, server>>

Prefills ==
    /\ prefill # None /\ prefill' = None
    /\ server' = [server EXCEPT ![prefill] = RunsAt(prefill)]
    /\ UNCHANGED <<switchVars, waitVars, wire, budgetVars, askVars, work, req, turn, tokens, boundVars, hurt>>

Request ==
    \/ Runs \/ Locks \/ Await \/ Wakes \/ Status \/ Adapts \/ Compares \/ Tells \/ Compacts
    \/ Send \/ Replied \/ Recovers \/ Apply(0) \/ Recovered \/ Cancelled

-----------------------------------------------------------------------------
\* Another client loads a model at its own size, or a model is evicted.
Meddle(m, n) ==
    /\ May("meddle") /\ meddled < MaxMeddle /\ server[m] # n
    /\ server' = [server EXCEPT ![m] = n] /\ meddled' = meddled + 1
    /\ UNCHANGED <<switchVars, waitVars, wire, budgetVars, askVars, work, req, turn, tokens, prefill, now, hurt>>

\* Startup's own resolution is over: with nobody to ask, it has kept the
\* server's size.
Init ==
    /\ now \in Situations
    /\ model \in Models /\ gen = 0 /\ switching = FALSE /\ resolving = 0 /\ open = {}
    /\ server \in [Models -> 0 .. MaxSize] /\ meddled = 0
    /\ window = IF Conf[model] > 0 /\ (server[model] = 0 \/ now.mode = "always") THEN Conf[model]
                ELSE IF server[model] > 0 THEN server[model] ELSE Own[model]
    /\ wire = [num |-> window, of |-> model, by |-> "loader"]
    /\ unconfirmed = (window > 0)
    /\ asked = {} /\ agreed = {} /\ asking = {}
    /\ work = [p \in Procs |-> IF p = 0 THEN Idle ELSE NoWork] /\ req = NoReq
    /\ turn = None /\ tokens = 1 /\ prefill = None /\ hurt = FALSE

Next ==
    \/ \E m \in Models : SetModel(m)
    \/ SwitchClears \/ ResolveModel
    \/ \E g \in Gens : Resolves(g) \/ Deadline(g)
    \/ \E p \in Procs, yes \in BOOLEAN : Answer(p, yes)
    \/ Request \/ Prefills
    \/ \E m \in Models, n \in 0 .. MaxSize : Meddle(m, n)

\* A goroutine that can run does; a resolution has a deadline.  Nobody need
\* answer a question, and no request need be made.
Fairness == WF_vars(SwitchClears) /\ WF_vars(Wakes)
            /\ \A g \in Gens : WF_vars(Resolves(g)) /\ WF_vars(Deadline(g))

Spec == Init /\ [][Next]_vars /\ Fairness
-----------------------------------------------------------------------------
Works == [at : {"none", "again", "back", "fits", "turn", "tidy", "warm", "end", "done", "idle", "locks",
                "await", "wait", "status", "adapt", "tell", "compact", "send", "reply", "refused"} \cup inApply,
          model : Models \cup {None}, saw : 0 .. MaxSize, put : -1 .. MaxSize, claim : BOOLEAN,
          dead : BOOLEAN, again : BOOLEAN, tries : 0 .. MaxRetries, seen : 0 .. MaxGen]
Reqs == [ch : 0 .. MaxGen, of : Models \cup {None}, size : 0 .. MaxSize,
         sent : Models \cup {None}, tried : BOOLEAN]

\* The variables hold values of their types.
TypeOK ==
    /\ now \in Situations /\ model \in Models /\ gen \in 0 .. MaxGen /\ resolving \in 0 .. gen
    /\ open \subseteq Gens /\ switching \in BOOLEAN
    /\ wire \in [num : 0 .. MaxSize, of : Models, by : {"loader", "request"}]
    /\ window \in 0 .. MaxSize /\ unconfirmed \in BOOLEAN
    /\ asked \subseteq Models /\ agreed \subseteq asked /\ asking \subseteq Models
    /\ work \in [Procs -> Works] /\ req \in Reqs
    /\ turn \in Procs \cup {None} /\ tokens \in Sizes /\ prefill \in Models \cup {None}
    /\ server \in [Models -> 0 .. MaxSize] /\ meddled \in 0 .. MaxMeddle /\ hurt \in BOOLEAN

\* When every resolution is over, and the request makes none of its own, what they left on the wire is the window of
\* the model the session runs, or none; and none only after a failure, a
\* panic or too many rounds (loop.go:660-663).  What the request itself wrote
\* last, for a model it had read before a switch, is not covered: see README.
WireSettles ==
    /\ ~switching /\ wire.by = "loader"
    /\ \A g \in Gens : work[g].at \in {"none", "done"}
    /\ work[0].at \notin inApply
    => \/ wire.num > 0 /\ wire.of = model
       \/ wire.num = 0 /\ (hurt \/ (Conf[model] = 0 /\ Own[model] = 0))

\* A person is asked once for a model and by one caller at a time, and every
\* caller that finds the model held at another size puts what was answered on
\* the wire, or the size it is held at where nobody has said yes: a caller
\* that gave up waiting never writes over the answer (loader.go:331-340).
AnswerRules == [][
    /\ \A m \in asking' \ asking : m \notin asked \cup asking
    /\ \A p \in Procs : work[p].at = "write" /\ work'[p].at = "back" /\ work[p].saw > 0 /\ now.mode = "ask"
        => wire'.num = IF work[p].model \in agreed THEN Conf[work[p].model] ELSE work[p].saw]_vars

\* A request that was let through awaitWindow and has met no switch since goes
\* out when the resolution of its model is over, not when an older one is.
WaitsOut == [][
    work[0].at = "send" /\ work'[0].at \in {"reply", "refused"} /\ work[0].seen = gen /\ gen > 0
        => work[gen].at = "done"]_vars

\* No request waits for a resolution that nobody runs any more: unanswered
\* questions, panics and later switches included, the wait ends.
WaitEnds == (work[0].at = "wait") ~> (work[0].at # "wait")
=============================================================================
