---------------------------- MODULE WindowProofs ----------------------------
(***************************************************************************)
(* Proofs about Window, for any models, sizes, modes and numbers of        *)
(* switches: types, that a person is asked once and the answer is what is  *)
(* put on the wire, that a request goes only after the resolution of its   *)
(* model, and that the wire ends with the window of the current model.     *)
(***************************************************************************)
EXTENDS Window, TLAPS

-----------------------------------------------------------------------------
(* The inductive invariant *)

\* Types, and the places where a field is sure to hold a model.
SwitchType == model \in Models /\ gen \in 0 .. MaxGen /\ switching \in BOOLEAN
WaitType == resolving \in 0 .. gen /\ open \subseteq Gens
WireType == wire \in [num : 0 .. MaxSize, of : Models, by : {"loader", "request"}]
BudgetType == window \in 0 .. MaxSize /\ unconfirmed \in BOOLEAN
AskType == asked \subseteq Models /\ agreed \subseteq asked /\ asking \subseteq Models
WorkType == work \in [Procs -> Works]
TurnType == turn \in Procs \cup {None} /\ tokens \in Sizes /\ prefill \in Models \cup {None}
ServerType == server \in [Models -> 0 .. MaxSize]
BoundType == now \in Situations /\ meddled \in 0 .. MaxMeddle /\ hurt \in BOOLEAN
InModel == inApply \cup {"back"}
Carried ==
    /\ \A p \in Procs : work[p].seen <= gen
    /\ \A p \in Procs : work[p].at \in InModel => work[p].model \in Models
    /\ \A p \in Procs : work[p].at = "again" => work[p].tries < MaxRetries
    /\ \A p \in Procs : work[p].at = "fits" => work[p].put > 0
    /\ work[0].at \in {"adapt", "tell"} => req.of \in Models
    /\ work[0].at = "send" => req.sent \in Models
TypeInv ==
    /\ SwitchType /\ WaitType /\ WireType /\ BudgetType /\ AskType /\ WorkType /\ req \in Reqs
    /\ TurnType /\ ServerType /\ BoundType /\ Carried

\* A question belongs to one caller, who has it until it has written; what is
\* to be written is what the answer says, and no answer can change meanwhile.
Holds(p, m) == work[p].claim /\ work[p].model = m
Questions ==
    /\ \A p \in Procs : work[p].claim => work[p].at \in {"asked", "write"} /\ work[p].model \in asking
    /\ \A p \in Procs : work[p].at = "asked" => work[p].claim /\ work[p].model \notin asked
    /\ \A p, q \in Procs : work[p].claim /\ Holds(q, work[p].model) => p = q
    /\ \A m \in asking : \E p \in Procs : Holds(p, m)
Ruled(w) ==
    /\ w.put = IF w.model \in agreed THEN Conf[w.model] ELSE w.saw
    /\ w.claim \/ w.model \in asked
Rules ==
    /\ \A p \in Procs : work[p].at \in {"probe", "show"} => work[p].saw = 0
    /\ \A p \in Procs : work[p].at \in {"consent", "asked"} => work[p].saw > 0 /\ Conf[work[p].model] > 0
    /\ \A p \in Procs : work[p].at = "write" /\ work[p].saw > 0 /\ now.mode = "ask" => Ruled(work[p])

\* The open resolution is the newest, and is over only once it has ended; a
\* request that was let through met that end.
LetThrough == {"status", "adapt", "tell", "compact", "send"}
Waits ==
    /\ resolving \in {0, gen}
    /\ switching => gen > 0 /\ resolving = gen /\ work[gen].at = "none"
    /\ \A g \in Gens : g > gen => work[g].at = "none"
    /\ resolving = 0 /\ gen > 0 => work[gen].at = "done"
    /\ work[0].at \in LetThrough /\ work[0].seen = gen /\ gen > 0 => work[gen].at = "done"

\* A resolution was overtaken if a switch came after it, or, in a round of
\* its hand-back, after that round began.
Overtook(g) == IF work[g].again THEN work[g].seen # gen ELSE g # gen
Turned(g) == work[g].at = "back" /\ Overtook(g)
Owes(p) == work[p].at \in inApply \/ (p \in Gens /\ (work[p].at = "again" \/ Turned(p)))
NoWindow(m) == Conf[m] = 0 /\ Own[m] = 0

\* What is on the wire from the loader is of the current model, or somebody is
\* about to take it back; and the wire is bare only while somebody is about to
\* write on it, unless a resolution has failed or there is nothing to write.
WireOf ==
    /\ \A g \in Gens : work[g].at \in InModel /\ ~Overtook(g) => work[g].model = model
    /\ \A p \in Procs : work[p].at = "write" => work[p].put > 0 \/ hurt \/ NoWindow(work[p].model)
    /\ \A p \in Procs : work[p].at = "show" => Conf[work[p].model] = 0
Wired ==
    ~switching /\ wire.by = "loader" =>
        /\ wire.num > 0 /\ wire.of # model => \E g \in Gens : Turned(g)
        /\ wire.num = 0 /\ ~hurt /\ ~NoWindow(model) => \E p \in Procs : Owes(p)

Inv == TypeInv /\ Questions /\ Rules /\ Waits /\ WireOf /\ Wired

-----------------------------------------------------------------------------
(* How a step moves one of those at work *)

LEMMA Constants ==
    /\ MaxSize \in Nat \ {0} /\ MaxGen \in Nat /\ MaxRetries \in Nat \ {0} /\ MaxMeddle \in Nat
    /\ Conf \in [Models -> 0 .. MaxSize] /\ Own \in [Models -> 0 .. MaxSize] /\ Default \in 1 .. MaxSize
    /\ 0 \in Procs /\ Gens = Procs \ {0} /\ Procs \subseteq Nat
    /\ None \notin Models /\ \A s \in Situations : s.gens \in 0 .. MaxGen
  BY WindowAssumption DEF Procs, Gens, Sizes

LEMMA Come ==
    ASSUME WorkType, NEW p \in Procs, NEW r, Comes(p, r)
    PROVE  /\ work'[p] = r /\ \A q \in Procs \ {p} : work'[q] = work[q]
           /\ r \in Works => WorkType'
  BY DEF WorkType, Comes

LEMMA Fields ==
    ASSUME WorkType, NEW p \in Procs
    PROVE  /\ work[p] \in Works
           /\ work[p].saw \in 0 .. MaxSize /\ work[p].put \in -1 .. MaxSize /\ work[p].tries \in 0 .. MaxRetries
           /\ work[p].seen \in 0 .. MaxGen /\ work[p].claim \in BOOLEAN /\ work[p].again \in BOOLEAN
           /\ work[p].dead \in BOOLEAN /\ work[p].model \in Models \cup {None}
  BY DEF WorkType, Works

LEMMA Fresh ==
    ASSUME NEW m \in Models
    PROVE  /\ NoWork \in Works /\ Idle \in Works /\ Starts(m) \in Works /\ NoReq \in Reqs
           /\ NoWork.seen = 0 /\ NoWork.at = "none" /\ ~NoWork.claim /\ NoWork.saw = 0 /\ ~NoWork.again
           /\ Idle.seen = 0 /\ Idle.at = "idle" /\ ~Idle.claim /\ Idle.saw = 0
           /\ Starts(m).seen = 0 /\ Starts(m).at = "probe" /\ Starts(m).model = m /\ ~Starts(m).claim
           /\ Starts(m).saw = 0 /\ ~Starts(m).again
<1>1. NoWork \in Works /\ NoWork.seen = 0 /\ NoWork.at = "none" /\ ~NoWork.claim /\ NoWork.saw = 0 /\ ~NoWork.again
  BY Constants DEF NoWork, Works
<1>2. NoReq \in Reqs
  BY Constants DEF NoReq, Reqs
<1>3. Idle \in Works /\ Idle.seen = 0 /\ Idle.at = "idle" /\ ~Idle.claim /\ Idle.saw = 0
  BY <1>1 DEF Idle, Works
<1>4. /\ Starts(m) \in Works /\ Starts(m).seen = 0 /\ Starts(m).at = "probe" /\ Starts(m).model = m
      /\ ~Starts(m).claim /\ Starts(m).saw = 0 /\ ~Starts(m).again
  BY <1>1 DEF Starts, Works, inApply
<1> QED  BY <1>1, <1>2, <1>3, <1>4

\* What a step of Loader.Apply leaves alone, whoever makes it.
Applies(p) == Apply(p) \/ \E yes \in BOOLEAN : Answer(p, yes)
ApplyMoved(p) ==
    /\ work[p].at \in inApply /\ work'[p].at \in InModel
    /\ work'[p].model = work[p].model /\ work'[p].again = work[p].again
    /\ work'[p].seen = work[p].seen /\ work'[p].tries = work[p].tries
    /\ work'[p].at = "back" => work[p].at \in {"consent", "write"}
    /\ \A q \in Procs \ {p} : work'[q] = work[q]
    /\ WorkType'
    /\ UNCHANGED others

\* The changes Apply makes to what a caller has at hand.
Edits(w, r, a, n, s, c) ==
    \/ r = [w EXCEPT !.at = a] \/ r = [w EXCEPT !.at = a, !.put = n]
    \/ r = [w EXCEPT !.at = a, !.saw = s] \/ r = [w EXCEPT !.at = a, !.put = n, !.saw = s]
    \/ r = [w EXCEPT !.at = a, !.claim = c] \/ r = [w EXCEPT !.at = a, !.claim = c, !.saw = s]
LEMMA Edited ==
    ASSUME NEW w \in Works, NEW a \in InModel, NEW n \in -1 .. MaxSize, NEW s \in 0 .. MaxSize, NEW c \in BOOLEAN,
           NEW r, Edits(w, r, a, n, s, c)
    PROVE  /\ r \in Works /\ r.at = a /\ r.model = w.model /\ r.again = w.again /\ r.seen = w.seen
           /\ r.tries = w.tries /\ r.dead = w.dead
<1>1. CASE r = [w EXCEPT !.at = a]
  BY <1>1 DEF Works, InModel, inApply
<1>2. CASE r = [w EXCEPT !.at = a, !.put = n]
  BY <1>2 DEF Works, InModel, inApply
<1>3. CASE r = [w EXCEPT !.at = a, !.saw = s]
  BY <1>3 DEF Works, InModel, inApply
<1>4. CASE r = [w EXCEPT !.at = a, !.put = n, !.saw = s]
  BY <1>4 DEF Works, InModel, inApply
<1>5. CASE r = [w EXCEPT !.at = a, !.claim = c]
  BY <1>5 DEF Works, InModel, inApply
<1>6. CASE r = [w EXCEPT !.at = a, !.claim = c, !.saw = s]
  BY <1>6 DEF Works, InModel, inApply
<1> QED  BY <1>1, <1>2, <1>3, <1>4, <1>5, <1>6 DEF Edits

LEMMA ApplyMoves == ASSUME TypeInv, NEW p \in Procs, Applies(p) PROVE ApplyMoved(p)
<1> DEFINE w == work[p]
<1>1. WorkType /\ w \in Works /\ w.saw \in 0 .. MaxSize
  BY Fields DEF TypeInv
<1>2. w.at \in inApply => w.model \in Models
  BY DEF TypeInv, Carried, InModel
<1>3. \A m \in Models : server[m] \in 0 .. MaxSize /\ Conf[m] \in 0 .. MaxSize /\ Own[m] \in 0 .. MaxSize
  BY Constants DEF TypeInv, ServerType
<1>4. ASSUME NEW r, NEW a \in InModel, NEW n \in -1 .. MaxSize, NEW s \in 0 .. MaxSize, NEW c \in BOOLEAN, Comes(p, r),
             Edits(w, r, a, n, s, c),
             w.at \in inApply, r.at = "back" => w.at \in {"consent", "write"}, UNCHANGED others
      PROVE  ApplyMoved(p)
  <2>1. /\ r \in Works /\ r.at = a /\ r.model = w.model /\ r.again = w.again /\ r.seen = w.seen
        /\ r.tries = w.tries /\ r.dead = w.dead
    BY <1>1, <1>4, Edited
  <2>2. work'[p] = r /\ (\A q \in Procs \ {p} : work'[q] = work[q]) /\ WorkType'
    BY <1>1, <1>4, <2>1, Come
  <2> QED  BY <1>4, <2>1, <2>2 DEF ApplyMoved
<1> HIDE DEF w
<1>5. ASSUME NEW a \in InModel, NEW r, \E n \in -1 .. MaxSize, s \in 0 .. MaxSize, c \in BOOLEAN : Edits(w, r, a, n, s, c),
             a # "back", Comes(p, r), w.at \in inApply, UNCHANGED others
      PROVE  ApplyMoved(p)
  <2>1. r.at = a
    BY <1>1, <1>5, Edited
  <2> QED  BY <1>4, <1>5, <2>1
<1>6. \A n \in -1 .. MaxSize : Decides(p, n) /\ w.at \in inApply /\ UNCHANGED others => ApplyMoved(p)
  <2>1. "write" \in InModel /\ 0 \in 0 .. MaxSize
    BY Constants DEF InModel, inApply
  <2> QED  BY <1>5, <2>1 DEF Decides, Edits, w
<1>7. CASE ProbeFails(p)
  <2>1. 0 \in -1 .. MaxSize
    BY Constants
  <2> QED  BY <1>6, <1>7, <2>1 DEF ProbeFails, At, inApply, w
<1>8. CASE Probe(p)
  <2> DEFINE m == w.model
  <2>1. w.at = "probe" /\ m \in Models /\ UNCHANGED others /\ w.at \in inApply
    BY <1>2, <1>8 DEF Probe, At, inApply, w
  <2>2. CASE Decides(p, Conf[m]) \/ Decides(p, server[m])
    BY <1>3, <1>6, <2>1, <2>2, Constants
  <2>3. CASE Comes(p, [w EXCEPT !.at = "consent", !.saw = server[m]])
    <3> DEFINE r == [w EXCEPT !.at = "consent", !.saw = server[m]]
    <3>1. Edits(w, r, "consent", 0, server[m], FALSE) /\ 0 \in -1 .. MaxSize /\ "consent" \in InModel
      BY Constants DEF Edits, InModel, inApply
    <3> QED  BY <1>3, <1>5, <2>1, <2>3, <3>1
  <2>4. CASE Went(p, "show")
    <3> DEFINE r == [w EXCEPT !.at = "show"]
    <3>1. /\ Edits(w, r, "show", 0, 0, FALSE) /\ 0 \in -1 .. MaxSize /\ 0 \in 0 .. MaxSize /\ "show" \in InModel
          /\ Comes(p, r)
      BY <2>4, Constants DEF Edits, InModel, inApply, Went, w
    <3> QED  BY <1>5, <2>1, <3>1
  <2> QED  BY <1>8, <2>2, <2>3, <2>4 DEF Probe, w
<1>9. CASE Show(p)
  <2>1. w.at = "show" /\ w.model \in Models /\ UNCHANGED others /\ w.at \in inApply
    BY <1>2, <1>9 DEF Show, At, inApply, w
  <2>2. \E n \in -1 .. MaxSize : Decides(p, n)
    BY <1>3, <1>9, <2>1, Constants DEF Show, w
  <2> QED  BY <1>6, <2>1, <2>2
<1>10. CASE Reconciles(p)
  <2>1. w.at = "consent" /\ w.model \in Models /\ UNCHANGED others /\ w.at \in inApply
    BY <1>2, <1>10 DEF Reconciles, At, inApply, w
  <2>2. \E n \in -1 .. MaxSize : Decides(p, n)
    BY <1>1, <1>3, <1>10, <2>1, Constants DEF Reconciles, w
  <2> QED  BY <1>6, <2>1, <2>2
<1>11. CASE StopsWaiting(p)
  <2> DEFINE r == [w EXCEPT !.at = "back", !.put = w.saw, !.saw = 0]
  <2>1. w.at = "consent" /\ UNCHANGED others /\ Comes(p, r)
    BY <1>11 DEF StopsWaiting, At, w
  <2>2. w.saw \in -1 .. MaxSize /\ 0 \in 0 .. MaxSize /\ "back" \in InModel /\ w.at \in inApply
    BY <1>1, <2>1, Constants DEF InModel, inApply
  <2>3. Edits(w, r, "back", w.saw, 0, FALSE)
    BY DEF Edits
  <2> QED  BY <1>4, <2>1, <2>2, <2>3
<1>12. CASE Claims(p)
  <2> DEFINE r == [w EXCEPT !.at = "asked", !.claim = TRUE]
  <2>1. w.at = "consent" /\ UNCHANGED others /\ Comes(p, r)
    BY <1>12 DEF Claims, At, w
  <2>2. 0 \in 0 .. MaxSize /\ 0 \in -1 .. MaxSize /\ "asked" \in InModel /\ w.at \in inApply
    BY <2>1, Constants DEF InModel, inApply
  <2>3. Edits(w, r, "asked", 0, 0, TRUE)
    BY DEF Edits
  <2> QED  BY <1>5, <2>1, <2>2, <2>3
<1>13. CASE Withdrawn(p)
  <2>1. w.at = "asked" /\ UNCHANGED others /\ Decides(p, w.saw) /\ w.at \in inApply /\ w.saw \in -1 .. MaxSize
    BY <1>1, <1>13, Constants DEF Withdrawn, At, inApply, w
  <2> QED  BY <1>6, <2>1
<1>14. CASE Write(p)
  <2> DEFINE r == [w EXCEPT !.at = "back", !.claim = FALSE, !.saw = 0]
  <2>1. w.at = "write" /\ UNCHANGED others /\ Comes(p, r)
    BY <1>14 DEF Write, At, w
  <2>2. 0 \in 0 .. MaxSize /\ 0 \in -1 .. MaxSize /\ "back" \in InModel /\ w.at \in inApply
    BY <2>1, Constants DEF InModel, inApply
  <2>3. Edits(w, r, "back", 0, 0, FALSE)
    BY DEF Edits
  <2> QED  BY <1>4, <2>1, <2>2, <2>3
<1>15. ASSUME NEW yes \in BOOLEAN, Answer(p, yes) PROVE ApplyMoved(p)
  <2>1. w.at = "asked" /\ UNCHANGED others /\ w.at \in inApply /\ w.model \in Models
    BY <1>2, <1>15 DEF Answer, At, inApply, w
  <2>2. \E n \in -1 .. MaxSize : Decides(p, n)
    BY <1>1, <1>3, <1>15, <2>1, Constants DEF Answer, w
  <2> QED  BY <1>6, <2>1, <2>2
<1> QED
  BY <1>7, <1>8, <1>9, <1>10, <1>11, <1>12, <1>13, <1>14, <1>15 DEF Applies, Apply

-----------------------------------------------------------------------------
(* Types *)

LEMMA ApplyTypes ==
    ASSUME TypeInv, NEW p \in Procs, Applies(p)
    PROVE  TypeInv'
<1> DEFINE w == work[p]
<1>1. ApplyMoved(p)
  BY ApplyMoves
<1>2. w \in Works /\ w.put \in -1 .. MaxSize /\ (w.at \in inApply => w.model \in Models)
  BY Fields DEF TypeInv, Carried, InModel
<1>3. SwitchType' /\ WaitType' /\ BudgetType' /\ req' \in Reqs /\ TurnType' /\ ServerType'
  BY <1>1 DEF TypeInv, ApplyMoved, others, switchVars, waitVars, budgetVars, boundVars,
              SwitchType, WaitType, BudgetType, TurnType, ServerType
<1>4. hurt' \in BOOLEAN
  BY DEF Applies, Apply, ProbeFails, Probe, Show, Reconciles, StopsWaiting, Claims, Withdrawn, Write, Answer,
         askVars, TypeInv, BoundType
<1>5. BoundType'
  BY <1>1, <1>4 DEF TypeInv, ApplyMoved, others, boundVars, BoundType
<1>6. WireType'
  <2>1. CASE UNCHANGED wire
    BY <2>1 DEF TypeInv, WireType
  <2>2. CASE Write(p)
    <3>1. w.model \in Models /\ (IF w.put > 0 THEN w.put ELSE 0) \in 0 .. MaxSize
      BY <1>2, <2>2, Constants DEF Write, At, inApply
    <3> QED  BY <2>2, <3>1 DEF Write, Writes, WireType
  <2> QED
    BY <2>1, <2>2 DEF Applies, Apply, ProbeFails, Probe, Show, Reconciles, StopsWaiting, Claims, Withdrawn, Answer
<1>7. AskType'
  <2>1. CASE UNCHANGED askVars
    BY <2>1 DEF TypeInv, AskType, askVars
  <2>2. CASE Claims(p)
    BY <1>2, <2>2 DEF Claims, At, inApply, TypeInv, AskType
  <2>3. CASE Write(p)
    BY <2>3 DEF Write, Released, TypeInv, AskType
  <2>4. ASSUME NEW yes \in BOOLEAN, Answer(p, yes) PROVE AskType'
    BY <1>2, <2>4 DEF Answer, At, inApply, TypeInv, AskType
  <2> QED
    BY <2>1, <2>2, <2>3, <2>4 DEF Applies, Apply, ProbeFails, Probe, Show, Reconciles, StopsWaiting, Withdrawn
<1>8. Carried'
  <2>1. UNCHANGED <<gen, req>>
    BY <1>1 DEF ApplyMoved, others, switchVars
  <2>2. work'[p].model = w.model /\ w.model \in Models /\ work'[p].seen = w.seen /\ work'[p].at \in InModel
    BY <1>1, <1>2 DEF ApplyMoved
  <2>3. work'[p].at \notin {"again", "fits", "adapt", "tell", "send"}
    BY <2>2 DEF InModel, inApply
  <2> QED  BY <1>1, <2>1, <2>2, <2>3, Constants DEF ApplyMoved, TypeInv, Carried
<1> QED
  BY <1>1, <1>3, <1>5, <1>6, <1>7, <1>8 DEF TypeInv, ApplyMoved

\* What a resolution does apart from Apply moves itself only.
Around(g) ==
    \/ Deadline(g) \/ Panic(g) \/ Overtaken(g) \/ Rehands(g) \/ Rehanded(g) \/ Landed(g)
    \/ FitsBudget(g) \/ TriesTurn(g) \/ Tidies(g) \/ Warms(g) \/ Ends(g)
AroundMoved(g) ==
    /\ work[g].at \notin {"none", "done"} /\ work'[g].at # "none" /\ work'[g].seen <= gen
    /\ work'[g].at \in InModel => work'[g].model \in Models
    /\ work'[g].at = "again" => work'[g].tries < MaxRetries
    /\ work'[g].at = "fits" => work'[g].put > 0
    /\ \A q \in Procs \ {g} : work'[q] = work[q]
    /\ WorkType'
    /\ UNCHANGED <<switchVars, req, server, boundVars>>
LEMMA AroundMoves == ASSUME TypeInv, NEW g \in Gens, Around(g) PROVE AroundMoved(g)
<1> DEFINE w == work[g]
<1>1. /\ g \in Procs /\ WorkType /\ w \in Works /\ w.put \in -1 .. MaxSize /\ w.tries \in 0 .. MaxRetries
      /\ w.seen \in 0 .. MaxGen /\ w.seen <= gen /\ (w.at \in InModel => w.model \in Models)
      /\ gen \in 0 .. MaxGen /\ model \in Models /\ (w.at = "again" => w.tries < MaxRetries)
  BY Constants, Fields DEF TypeInv, SwitchType, Carried
<1>2. ASSUME NEW r \in Works, Comes(g, r), w.at \notin {"none", "done"}, r.at # "none", r.seen <= gen,
             r.at \in InModel => r.model \in Models, r.at = "again" => r.tries < MaxRetries,
             r.at = "fits" => r.put > 0,
             UNCHANGED <<switchVars, req, server, boundVars>>
      PROVE  AroundMoved(g)
  <2>1. work'[g] = r /\ (\A q \in Procs \ {g} : work'[q] = work[q]) /\ WorkType'
    BY <1>1, <1>2, Come
  <2> QED  BY <1>2, <2>1 DEF AroundMoved
<1>3. ASSUME NEW a \in {"end", "warm", "tidy", "done", "turn", "fits"}, NEW n \in -1 .. MaxSize
      PROVE  /\ LET r == [w EXCEPT !.at = a] IN r \in Works /\ r.at = a /\ r.seen = w.seen
             /\ LET r == [NoWork EXCEPT !.at = a, !.put = n] IN r \in Works /\ r.at = a /\ r.seen = 0
             /\ LET r == [NoWork EXCEPT !.at = a] IN r \in Works /\ r.at = a /\ r.seen = 0
             /\ a \notin InModel /\ a \notin {"again", "none"}
  <2>0. NoWork \in Works /\ NoWork.seen = 0
    BY <1>1, Fresh
  <2>1. LET r == [w EXCEPT !.at = a] IN r \in Works /\ r.at = a /\ r.seen = w.seen
    BY <1>1 DEF Works
  <2>3. LET r == [NoWork EXCEPT !.at = a] IN r \in Works /\ r.at = a /\ r.seen = 0
    BY <2>0 DEF Works
  <2>2. LET r == [NoWork EXCEPT !.at = a, !.put = n] IN r \in Works /\ r.at = a /\ r.seen = 0
    <3> DEFINE q == [NoWork EXCEPT !.at = a]  r == [NoWork EXCEPT !.at = a, !.put = n]
    <3>1. r = [q EXCEPT !.put = n]
      BY <2>0 DEF Works
    <3>2. q \in Works /\ q.at = a /\ q.seen = 0
      BY <2>3
    <3> HIDE DEF q
    <3>3. [q EXCEPT !.put = n] \in Works /\ [q EXCEPT !.put = n].at = a /\ [q EXCEPT !.put = n].seen = 0
      BY <3>2 DEF Works
    <3> QED  BY <3>1, <3>3
  <2>4. a \notin InModel /\ a \notin {"again", "none"}
    BY DEF InModel, inApply
  <2> QED  BY <2>1, <2>2, <2>3, <2>4
<1>4. CASE Deadline(g)
  <2> DEFINE r == [w EXCEPT !.dead = TRUE]
  <2>1. r \in Works /\ r.at = w.at /\ r.seen = w.seen /\ r.model = w.model /\ r.tries = w.tries
    BY <1>1 DEF Works
  <2>2. Comes(g, r) /\ w.at \in inApply /\ UNCHANGED <<switchVars, req, server, boundVars>>
    BY <1>4 DEF Deadline, others
  <2> QED  BY <1>1, <1>2, <2>1, <2>2 DEF inApply
<1>5. 0 \in 0 .. gen /\ 0 \in 0 .. MaxRetries /\ 0 \in -1 .. MaxSize /\ {"again", "probe", "end", "warm", "tidy", "done", "turn", "fits", "none"} \cap {"back"} = {}
  BY <1>1, Constants
<1>6. ASSUME NEW a \in {"end", "warm", "tidy", "done", "turn"}, w.at \notin {"none", "done"},
             NEW n \in -1 .. MaxSize,
             \/ Comes(g, [w EXCEPT !.at = a]) \/ Comes(g, [NoWork EXCEPT !.at = a, !.put = n])
             \/ Comes(g, [NoWork EXCEPT !.at = a]),
             UNCHANGED <<switchVars, req, server, boundVars>>
      PROVE  AroundMoved(g)
  <2>1. PICK r : Comes(g, r) /\ r \in {[w EXCEPT !.at = a], [NoWork EXCEPT !.at = a, !.put = n], [NoWork EXCEPT !.at = a]}
    BY <1>6
  <2>2. r \in Works /\ r.at = a /\ r.seen \in {w.seen, 0} /\ a \notin InModel /\ a \notin {"again", "none"}
    <3> DEFINE x == [w EXCEPT !.at = a]  y == [NoWork EXCEPT !.at = a, !.put = n]  z == [NoWork EXCEPT !.at = a]
    <3>0. a \in {"end", "warm", "tidy", "done", "turn", "fits"}
      BY <1>6
    <3>1. /\ x \in Works /\ x.at = a /\ x.seen = w.seen
          /\ y \in Works /\ y.at = a /\ y.seen = 0
          /\ z \in Works /\ z.at = a /\ z.seen = 0
          /\ a \notin InModel /\ a \notin {"again", "none"}
      BY <1>3, <1>6, <3>0
    <3>2. r = x \/ r = y \/ r = z
      BY <2>1
    <3> HIDE DEF x, y, z
    <3> QED  BY <3>1, <3>2
  <2> QED  BY <1>1, <1>2, <1>5, <1>6, <2>1, <2>2
<1>7. CASE Panic(g)
  <2>1. Comes(g, [NoWork EXCEPT !.at = "end"]) /\ w.at \in {"probe", "asked"}
        /\ UNCHANGED <<switchVars, req, server, boundVars>>
    BY <1>7 DEF Panic, others
  <2> QED  BY <1>5, <1>6, <2>1
<1>8. CASE Overtaken(g)
  <2> DEFINE r == [NoWork EXCEPT !.at = "again"]
  <2>1. Comes(g, r) /\ w.at = "back" /\ UNCHANGED <<switchVars, req, server, boundVars>>
    BY <1>8 DEF Overtaken, others, At
  <2>2. r \in Works /\ r.at = "again" /\ r.seen = 0 /\ r.tries = 0
    BY <1>1, Fresh, Constants DEF Works, NoWork
  <2> HIDE DEF r
  <2>3. w.at \notin {"none", "done"} /\ r.seen <= gen /\ r.at \notin InModel /\ r.at \notin {"none", "fits"}
        /\ (r.at = "again" => r.tries < MaxRetries)
    BY <1>1, <2>1, <2>2, Constants DEF InModel, inApply
  <2> QED  BY <1>2, <2>1, <2>2, <2>3
<1>9. CASE Rehands(g)
  <2> DEFINE r == [Starts(model) EXCEPT !.again = TRUE, !.seen = gen, !.tries = w.tries + 1]
  <2>1. Comes(g, r) /\ w.at = "again" /\ UNCHANGED <<switchVars, req, server, boundVars>>
    BY <1>9 DEF Rehands, others, At
  <2>2. w.tries + 1 \in 0 .. MaxRetries
    BY <1>1, <2>1, Constants
  <2>3. r \in Works /\ r.at = "probe" /\ r.seen = gen /\ r.model = model
    <3> DEFINE q == Starts(model)
    <3>1. q \in Works /\ q.at = "probe" /\ q.model = model
      BY <1>1, Fresh
    <3> HIDE DEF q
    <3>2. LET o == [q EXCEPT !.again = TRUE, !.seen = gen, !.tries = w.tries + 1]
          IN  o \in Works /\ o.at = "probe" /\ o.seen = gen /\ o.model = model
      BY <1>1, <2>2, <3>1 DEF Works
    <3> QED  BY <3>2 DEF q
  <2> HIDE DEF r
  <2>4. w.at \notin {"none", "done"} /\ r.seen <= gen /\ r.model \in Models /\ r.at \notin {"none", "again", "fits"}
    BY <1>1, <2>1, <2>3
  <2> QED  BY <1>2, <2>1, <2>3, <2>4
<1>10. CASE Rehanded(g)
  <2>1. w.at = "back" /\ UNCHANGED <<switchVars, req, server, boundVars>>
    BY <1>10 DEF Rehanded, others, At
  <2>2. CASE Comes(g, [NoWork EXCEPT !.at = "end", !.tries = 0])
    <3> DEFINE r == [NoWork EXCEPT !.at = "end", !.tries = 0]
    <3>1. r \in Works /\ r.at = "end" /\ r.seen = 0 /\ Comes(g, r)
      BY <1>1, <1>5, <2>2, Fresh DEF Works
    <3> HIDE DEF r
    <3> QED  BY <1>1, <1>2, <2>1, <2>2, <3>1, Constants DEF InModel, inApply
  <2>3. CASE w.tries # MaxRetries /\ Comes(g, [NoWork EXCEPT !.at = "again", !.tries = w.tries])
    <3> DEFINE r == [NoWork EXCEPT !.at = "again", !.tries = w.tries]
    <3>1. r \in Works /\ r.at = "again" /\ r.seen = 0 /\ r.tries = w.tries /\ Comes(g, r)
      BY <1>1, <2>3, Fresh, Constants DEF Works
    <3> HIDE DEF r
    <3> QED  BY <1>1, <1>2, <2>1, <2>3, <3>1, Constants DEF InModel, inApply
  <2> QED
    BY <1>10, <2>2, <2>3 DEF Rehanded, GivesUp
<1>11. CASE Landed(g)
  <2>1. \E a \in {"fits", "end"} : Comes(g, [NoWork EXCEPT !.at = a, !.put = w.put]) /\ (a = "fits" => w.put > 0)
    BY <1>11 DEF Landed
  <2>2. w.at = "back" /\ UNCHANGED <<switchVars, req, server, boundVars>>
    BY <1>11 DEF Landed, others, At
  <2>3. CASE Comes(g, [NoWork EXCEPT !.at = "end", !.put = w.put])
    BY <1>1, <1>6, <2>2, <2>3
  <2>4. CASE Comes(g, [NoWork EXCEPT !.at = "fits", !.put = w.put]) /\ w.put > 0
    <3> DEFINE r == [NoWork EXCEPT !.at = "fits", !.put = w.put]
    <3>1. r \in Works /\ r.at = "fits" /\ r.seen = 0 /\ r.put = w.put /\ Comes(g, r)
      BY <1>1, <2>4, Fresh DEF Works
    <3> HIDE DEF r
    <3> QED  BY <1>1, <1>2, <2>2, <2>4, <3>1, Constants DEF InModel, inApply
  <2> QED  BY <2>1, <2>3, <2>4
<1>12. CASE FitsBudget(g)
  <2>1. Comes(g, [NoWork EXCEPT !.at = "turn"]) /\ w.at = "fits" /\ UNCHANGED <<switchVars, req, server, boundVars>>
    BY <1>12 DEF FitsBudget, rest, At
  <2> QED  BY <1>5, <1>6, <2>1
<1>13. CASE TriesTurn(g) \/ Tidies(g) \/ Warms(g) \/ Ends(g)
  <2>1. \E a \in {"tidy", "warm", "end", "done"} : Comes(g, [w EXCEPT !.at = a])
    BY <1>13 DEF TriesTurn, Tidies, Warms, Ends, Went
  <2>2. w.at \in {"turn", "tidy", "warm", "end"} /\ UNCHANGED <<switchVars, req, server, boundVars>>
    BY <1>13 DEF TriesTurn, Tidies, Warms, Ends, rest, At
  <2> QED  BY <1>5, <1>6, <2>1, <2>2
<1> QED
  BY <1>4, <1>7, <1>8, <1>9, <1>10, <1>11, <1>12, <1>13 DEF Around

LEMMA AroundTypes ==
    ASSUME TypeInv, NEW g \in Gens, Around(g)
    PROVE  TypeInv'
<1> USE DEF others, rest, switchVars, waitVars, budgetVars, askVars, boundVars
<1>1. AroundMoved(g) /\ g \in Procs
  BY AroundMoves, Constants
<1>2. SwitchType' /\ req' \in Reqs /\ ServerType'
  BY <1>1 DEF AroundMoved, TypeInv, SwitchType, ServerType
<1>3. WaitType'
  <2>1. CASE UNCHANGED waitVars
    BY <1>1, <2>1 DEF AroundMoved, TypeInv, WaitType
  <2>2. CASE Ends(g)
    <3>1. gen' = gen /\ gen \in Nat /\ resolving \in 0 .. gen /\ open \subseteq Gens
      BY <1>1, Constants DEF AroundMoved, TypeInv, WaitType, SwitchType
    <3>2. resolving' \in {0, resolving} /\ open' \subseteq open
      BY <2>2 DEF Ends
    <3> QED  BY <3>1, <3>2 DEF WaitType
  <2> QED
    BY <2>1, <2>2 DEF Around, Deadline, Panic, Overtaken, Rehands, Rehanded, Landed, FitsBudget, TriesTurn, Tidies, Warms
<1>4. WireType'
  <2>1. wire' \in {wire, Cleared}
    BY DEF Around, Deadline, Panic, Overtaken, Rehands, Rehanded, Landed, FitsBudget, TriesTurn, Tidies, Warms, Ends
  <2> QED  BY <2>1, Constants DEF Cleared, TypeInv, WireType
<1>5. BudgetType'
  <2>1. CASE UNCHANGED budgetVars
    BY <2>1 DEF TypeInv, BudgetType
  <2>2. CASE FitsBudget(g)
    <3>1. work[g].put \in 0 .. MaxSize
      BY <1>1, <2>2, Fields, Constants DEF FitsBudget, At, TypeInv, Carried
    <3> QED  BY <2>2, <3>1 DEF FitsBudget, Fits, BudgetType
  <2> QED
    BY <2>1, <2>2 DEF Around, Deadline, Panic, Overtaken, Rehands, Rehanded, Landed, TriesTurn, Tidies, Warms, Ends
<1>6. AskType'
  <2>1. CASE UNCHANGED askVars
    BY <2>1 DEF TypeInv, AskType
  <2>2. CASE Panic(g)
    BY <2>2 DEF Panic, Released, TypeInv, AskType
  <2> QED
    BY <2>1, <2>2 DEF Around, Deadline, Overtaken, Rehands, Rehanded, Landed, FitsBudget, TriesTurn, Tidies, Warms, Ends
<1>7. TurnType'
  <2>1. CASE UNCHANGED <<turn, tokens, prefill>>
    BY <2>1 DEF TypeInv, TurnType
  <2>2. CASE TriesTurn(g)
    BY <1>1, <2>2 DEF TriesTurn, TypeInv, TurnType
  <2>3. CASE Tidies(g)
    <3>1. tokens \in 1 .. MaxSize /\ tokens' \in (1 .. tokens) \cup {tokens} /\ turn' = None /\ prefill' = prefill
      BY <2>3 DEF Tidies, TypeInv, TurnType, Sizes
    <3>2. tokens' \in 1 .. MaxSize
      BY <3>1, Constants
    <3> QED  BY <3>1, <3>2 DEF TypeInv, TurnType, Sizes
  <2>4. CASE Warms(g)
    BY <2>4 DEF Warms, TypeInv, TurnType, SwitchType
  <2> QED
    BY <2>1, <2>2, <2>3, <2>4 DEF Around, Deadline, Panic, Overtaken, Rehands, Rehanded, Landed, FitsBudget, Ends
<1>8. hurt' \in BOOLEAN
  BY DEF Around, Deadline, Panic, Overtaken, Rehands, Rehanded, Landed, FitsBudget, TriesTurn, Tidies, Warms, Ends,
         TypeInv, BoundType
<1>9. BoundType'
  BY <1>1, <1>8 DEF AroundMoved, TypeInv, BoundType
<1>10. Carried'
  <2>1. work'[0] = work[0] /\ gen' = gen /\ req' = req
    BY <1>1, Constants DEF AroundMoved
  <2> QED  BY <1>1, <2>1 DEF AroundMoved, TypeInv, Carried
<1> QED
  BY <1>1, <1>2, <1>3, <1>4, <1>5, <1>6, <1>7, <1>9, <1>10 DEF TypeInv, AroundMoved

\* What the request does apart from Apply.
Serves ==
    \/ Runs \/ Locks \/ Await \/ Wakes \/ Status \/ Adapts \/ Compares \/ Tells \/ Compacts
    \/ Send \/ Replied \/ Recovers \/ Recovered \/ Cancelled
Serving == {"idle", "locks", "await", "wait", "status", "adapt", "tell", "compact", "send", "reply", "refused"}
ServesMoved ==
    /\ \A q \in Gens : work'[q] = work[q]
    /\ WorkType'
    /\ \/ /\ work[0].at \in inApply /\ work'[0] = [work[0] EXCEPT !.dead = TRUE] /\ UNCHANGED req
       \/ /\ work[0].at = "refused" /\ work'[0] = Starts(model)
       \/ /\ work[0].at \notin inApply /\ work'[0].at \in Serving /\ work'[0].claim \in {work[0].claim, FALSE}
          /\ work'[0].seen \in {work[0].seen, gen, 0}
          /\ work'[0].at \in LetThrough =>
                \/ work[0].at \in LetThrough /\ work'[0].seen = work[0].seen
                \/ resolving = 0 /\ work'[0].seen = gen
    /\ UNCHANGED <<switchVars, waitVars, askVars, boundVars, hurt>>
LEMMA ServesMoves == ASSUME TypeInv, Serves PROVE ServesMoved
<1> DEFINE w == work[0]
<1>1. WorkType /\ w \in Works /\ gen \in 0 .. MaxGen /\ model \in Models /\ 0 \in Procs /\ Gens = Procs \ {0}
  BY Constants, Fields DEF TypeInv, SwitchType
<1>2. UNCHANGED <<switchVars, waitVars, askVars, boundVars, hurt>>
  BY DEF Serves, Runs, Locks, Await, Wakes, Status, Adapts, Compares, Tells, Compacts, Send, Replied, Recovers,
         Recovered, Cancelled, quietly
<1>3. ASSUME NEW r \in Works, Comes(0, r)
      PROVE  work'[0] = r /\ (\A q \in Gens : work'[q] = work[q]) /\ WorkType'
  BY <1>1, <1>3, Come
<1>4. ASSUME NEW a \in Serving, w.at \notin inApply,
             Comes(0, [w EXCEPT !.at = a]), a \in LetThrough => w.at \in LetThrough
      PROVE  ServesMoved
  <2> DEFINE r == [w EXCEPT !.at = a]
  <2>1. r \in Works /\ r.at = a /\ r.claim = w.claim /\ r.seen = w.seen
    BY <1>1 DEF Works, Serving
  <2>2. Comes(0, r)
    BY <1>4
  <2> HIDE DEF r
  <2> QED  BY <1>2, <1>3, <1>4, <2>1, <2>2 DEF ServesMoved
<1>5. ASSUME NEW a \in {"idle", "await"}, w.at \notin inApply, Comes(0, [Idle EXCEPT !.at = a])
      PROVE  ServesMoved
  <2> DEFINE r == [Idle EXCEPT !.at = a]
  <2>1. r \in Works /\ r.at = a /\ r.claim = FALSE /\ r.seen = 0
    BY <1>1, Fresh DEF Works
  <2>2. Comes(0, r)
    BY <1>5
  <2> HIDE DEF r
  <2> QED  BY <1>2, <1>3, <1>5, <2>1, <2>2 DEF ServesMoved, Serving, LetThrough
<1>6. ASSUME Over, w.at \notin inApply PROVE ServesMoved
  <2>1. Comes(0, Idle) /\ Idle \in Works /\ Idle.at = "idle" /\ Idle.claim = FALSE /\ Idle.seen = 0
    BY <1>1, <1>6, Fresh DEF Over
  <2>2. work'[0] = Idle /\ (\A q \in Gens : work'[q] = work[q]) /\ WorkType'
    BY <1>3, <2>1
  <2> QED  BY <1>2, <1>6, <2>1, <2>2 DEF ServesMoved, Serving, LetThrough
<1>7. ASSUME NEW a \in Serving, NEW b \in Serving, At(0, b), Asks(a), a \in LetThrough => b \in LetThrough
      PROVE  ServesMoved
  <2>1. w.at \notin inApply
    BY <1>7 DEF At, Serving, inApply
  <2> QED  BY <1>4, <1>7, <2>1 DEF Asks, Went, At
<1> HIDE DEF w
<1>8. CASE Runs
  BY <1>7, <1>8 DEF Runs, Serving, LetThrough
<1>9. CASE Locks
  BY <1>7, <1>9 DEF Locks, Serving, LetThrough
<1>10. CASE Await
  <2>1. CASE resolving = 0 /\ Comes(0, [w EXCEPT !.at = "status", !.seen = gen])
    <3> DEFINE r == [w EXCEPT !.at = "status", !.seen = gen]
    <3>1. r \in Works /\ r.at = "status" /\ r.claim = w.claim /\ r.seen = gen
      BY <1>1 DEF Works
    <3>2. Comes(0, r) /\ w.at = "await"
      BY <1>10, <2>1 DEF Await, At, w
    <3> HIDE DEF r
    <3> QED  BY <1>2, <1>3, <2>1, <3>1, <3>2 DEF ServesMoved, Serving, inApply, w
  <2>2. CASE Asks("wait")
    BY <1>7, <1>10, <2>2 DEF Await, Serving, LetThrough
  <2> QED  BY <1>10, <2>1, <2>2 DEF Await, w
<1>11. CASE Wakes
  BY <1>7, <1>11 DEF Wakes, Serving, LetThrough
<1>12. CASE Status
  BY <1>7, <1>12 DEF Status, Serving, LetThrough
<1>13. CASE Adapts
  BY <1>7, <1>13 DEF Adapts, Serving, LetThrough
<1>14. CASE Compares
  BY <1>7, <1>14 DEF Compares, Serving, LetThrough
<1>15. CASE Tells
  BY <1>7, <1>15 DEF Tells, Serving, LetThrough
<1>16. CASE Compacts
  BY <1>7, <1>16 DEF Compacts, Serving, LetThrough
<1>17. CASE Send
  BY <1>7, <1>17 DEF Send, Serving, LetThrough
<1>18. CASE Replied
  BY <1>5, <1>6, <1>18 DEF Replied, At, inApply, w
<1>19. CASE Recovers
  <2>1. w.at = "refused" /\ w.at \notin inApply /\ (Over \/ Comes(0, Starts(model)))
    BY <1>19 DEF Recovers, At, inApply, w
  <2>2. CASE Comes(0, Starts(model))
    BY <1>1, <1>2, <1>3, <2>1, <2>2, Fresh DEF ServesMoved, w
  <2> QED  BY <1>6, <2>1, <2>2
<1>20. CASE Recovered
  <2>1. w.at = "back" /\ w.at \notin inApply /\ (Over \/ Comes(0, [Idle EXCEPT !.at = "await"]))
    BY <1>20 DEF Recovered, At, inApply, w
  <2> QED  BY <1>5, <1>6, <2>1
<1>21. CASE Cancelled
  <2>1. CASE w.at \in {"wait", "status", "compact", "send", "reply"} /\ Over
    BY <1>6, <2>1 DEF inApply
  <2>2. CASE w.at \in inApply /\ Comes(0, [w EXCEPT !.dead = TRUE]) /\ UNCHANGED req
    <3>1. [w EXCEPT !.dead = TRUE] \in Works
      BY <1>1 DEF Works
    <3> QED  BY <1>2, <1>3, <2>2, <3>1 DEF ServesMoved, w
  <2> QED  BY <1>21, <2>1, <2>2 DEF Cancelled, w
<1> QED
  BY <1>8, <1>9, <1>10, <1>11, <1>12, <1>13, <1>14, <1>15, <1>16, <1>17, <1>18, <1>19, <1>20, <1>21 DEF Serves

\* The sizes a step may come to.
LEMMA Amounts ==
    ASSUME TypeInv
    PROVE  /\ \A m \in Models : RunsAt(m) \in 0 .. MaxSize
           /\ \A n \in Grown : n \in Sizes
           /\ \A n \in 1 .. tokens : n \in Sizes
           /\ \A m \in Models : server[m] \in 0 .. MaxSize /\ Conf[m] \in 0 .. MaxSize
<1>1. wire.num \in 0 .. MaxSize /\ tokens \in 1 .. MaxSize
  BY DEF TypeInv, WireType, TurnType, Sizes
<1> QED  BY <1>1, Constants DEF RunsAt, Grown, Sizes, TypeInv, ServerType

LEMMA ServesReq ==
    ASSUME TypeInv, Serves
    PROVE  /\ req' \in Reqs
           /\ work'[0].at \in {"adapt", "tell"} => req'.of \in Models
           /\ work'[0].at = "send" => req'.sent \in Models
<1>1. ServesMoved /\ work[0] \in Works /\ req \in Reqs /\ NoReq \in Reqs /\ model \in Models
      /\ resolving \in 0 .. MaxGen /\ server[model] \in 0 .. MaxSize
      /\ (work[0].at \in {"adapt", "tell"} => req.of \in Models) /\ (work[0].at = "send" => req.sent \in Models)
  BY ServesMoves, Amounts, Fields, Fresh, Constants DEF TypeInv, SwitchType, WaitType, Carried
<1>2. ASSUME NEW a, Asks(a) PROVE work'[0].at = a
  <2>1. Comes(0, [work[0] EXCEPT !.at = a]) /\ 0 \in Procs /\ WorkType
    BY <1>2, Constants DEF Asks, Went, TypeInv
  <2>2. work'[0] = [work[0] EXCEPT !.at = a]
    BY <2>1, Come
  <2> QED  BY <1>1, <2>2 DEF Works
<1>3. ASSUME NEW a, Comes(0, [Idle EXCEPT !.at = a]) PROVE work'[0].at = a
  <2>1. 0 \in Procs /\ WorkType /\ Idle \in Works
    BY <1>1, Constants, Fresh DEF TypeInv
  <2>2. work'[0] = [Idle EXCEPT !.at = a]
    BY <1>3, <2>1, Come
  <2> QED  BY <2>1, <2>2 DEF Works
<1>4. Over => work'[0].at = "idle" /\ req' = NoReq
  <2>1. 0 \in Procs /\ WorkType /\ Idle.at = "idle"
    BY <1>1, Constants, Fresh DEF TypeInv
  <2> QED  BY <2>1, Come DEF Over
<1>5. [req EXCEPT !.of = None, !.size = 0] \in Reqs
  <2>1. 0 \in 0 .. MaxSize
    BY Constants
  <2> QED  BY <1>1, <2>1 DEF Reqs
<1>6. CASE Runs \/ Locks
  BY <1>1, <1>2, <1>6 DEF Runs, Locks
<1>7. CASE Await
  <2>1. CASE Asks("wait") /\ req' = [req EXCEPT !.ch = resolving]
    BY <1>1, <1>2, <2>1 DEF Reqs
  <2>2. CASE Comes(0, [work[0] EXCEPT !.at = "status", !.seen = gen]) /\ req' = req
    <3>1. 0 \in Procs /\ WorkType
      BY Constants DEF TypeInv
    <3>2. work'[0] = [work[0] EXCEPT !.at = "status", !.seen = gen]
      BY <2>2, <3>1, Come
    <3>3. work'[0].at = "status"
      BY <1>1, <3>2 DEF Works
    <3> QED  BY <1>1, <2>2, <3>3
  <2> QED  BY <1>7, <2>1, <2>2 DEF Await
<1>8. CASE Wakes
  BY <1>1, <1>2, <1>8, Constants DEF Wakes, Reqs
<1>9. CASE Status
  <2>1. CASE Asks("adapt") /\ req' = [req EXCEPT !.of = model, !.size = server[model]]
    BY <1>1, <1>2, <2>1 DEF Reqs
  <2>2. CASE Asks("adapt") /\ req' = [req EXCEPT !.of = model]
    BY <1>1, <1>2, <2>2 DEF Reqs
  <2>3. CASE Asks("compact") /\ req' = req
    BY <1>1, <1>2, <2>3
  <2> QED  BY <1>9, <2>1, <2>2, <2>3 DEF Status
<1>10. CASE Adapts
  BY <1>1, <1>2, <1>10 DEF Adapts, Reqs
<1>11. CASE Compares
  <2>1. CASE Asks("compact") /\ req' = [req EXCEPT !.of = None, !.size = 0]
    BY <1>1, <1>2, <1>5, <2>1
  <2>2. CASE Asks("tell") /\ req' = req
    BY <1>1, <1>2, <1>11, <2>2 DEF Compares, At
  <2> QED  BY <1>11, <2>1, <2>2 DEF Compares
<1>12. CASE Tells
  BY <1>1, <1>2, <1>5, <1>12 DEF Tells
<1>13. CASE Compacts
  BY <1>1, <1>2, <1>13 DEF Compacts, Reqs
<1>14. CASE Send
  <2>1. RunsAt(req.sent) \in 0 .. MaxSize
    BY <1>1, <1>14, Amounts DEF Send, At
  <2>2. CASE Asks("reply") /\ req' = req
    BY <1>1, <1>2, <2>2
  <2>3. CASE Asks("refused") /\ req' = [req EXCEPT !.size = RunsAt(req.sent)]
    BY <1>1, <1>2, <2>1, <2>3 DEF Reqs
  <2> QED  BY <1>14, <2>2, <2>3 DEF Send
<1>15. CASE Replied
  <2>1. CASE Comes(0, [Idle EXCEPT !.at = "await"]) /\ req' = [NoReq EXCEPT !.tried = req.tried]
    BY <1>1, <1>3, <2>1 DEF Reqs
  <2> QED  BY <1>1, <1>4, <1>15, <2>1 DEF Replied
<1>16. CASE Recovers
  <2>1. CASE Comes(0, Starts(model)) /\ req' = [req EXCEPT !.tried = TRUE]
    <3>1. 0 \in Procs /\ WorkType /\ Starts(model).at = "probe"
      BY <1>1, Constants, Fresh DEF TypeInv
    <3>2. work'[0].at = "probe"
      BY <2>1, <3>1, Come
    <3> QED  BY <1>1, <2>1, <3>2 DEF Reqs
  <2> QED  BY <1>1, <1>4, <1>16, <2>1 DEF Recovers
<1>17. CASE Recovered
  <2>1. CASE Comes(0, [Idle EXCEPT !.at = "await"]) /\ req' = [NoReq EXCEPT !.tried = TRUE]
    BY <1>1, <1>3, <2>1 DEF Reqs
  <2> QED  BY <1>1, <1>4, <1>17, <2>1 DEF Recovered
<1>18. CASE Cancelled
  <2>1. CASE work[0].at \in inApply /\ Comes(0, [work[0] EXCEPT !.dead = TRUE]) /\ req' = req
    <3>1. 0 \in Procs /\ WorkType
      BY Constants DEF TypeInv
    <3>2. work'[0] = [work[0] EXCEPT !.dead = TRUE]
      BY <2>1, <3>1, Come
    <3>3. work'[0].at = work[0].at
      BY <1>1, <3>2 DEF Works
    <3> QED  BY <1>1, <2>1, <3>3
  <2> QED  BY <1>1, <1>4, <1>18, <2>1 DEF Cancelled
<1> QED
  BY <1>6, <1>7, <1>8, <1>9, <1>10, <1>11, <1>12, <1>13, <1>14, <1>15, <1>16, <1>17, <1>18 DEF Serves

LEMMA ServesTypes ==
    ASSUME TypeInv, Serves
    PROVE  TypeInv'
<1> USE DEF quietly, switchVars, waitVars, budgetVars, askVars, boundVars
<1>1. ServesMoved /\ 0 \in Procs
  BY ServesMoves, Constants
<1>2. SwitchType' /\ WaitType' /\ AskType' /\ BoundType'
  BY <1>1 DEF ServesMoved, TypeInv, SwitchType, WaitType, AskType, BoundType
<1>3. model \in Models /\ req \in Reqs /\ req.size \in 0 .. MaxSize
      /\ (work[0].at = "tell" => req.of \in Models) /\ (work[0].at = "send" => req.sent \in Models)
  BY DEF TypeInv, SwitchType, Carried, Reqs
<1>4. WireType'
  <2>1. CASE wire' = wire
    BY <2>1 DEF TypeInv, WireType
  <2>2. CASE \E n \in 0 .. MaxSize, m \in Models : Writes(n, m, 0)
    BY <2>2 DEF Writes, WireType
  <2>3. CASE Adapts
    BY <1>3, <2>1, <2>2, <2>3, Amounts DEF Adapts
  <2>4. CASE Tells
    BY <1>3, <2>2, <2>4, Amounts DEF Tells, At
  <2> QED
    BY <2>1, <2>3, <2>4 DEF Serves, Runs, Locks, Await, Wakes, Status, Compares, Compacts, Send, Replied, Recovers,
                            Recovered, Cancelled
<1>5. BudgetType'
  <2>1. CASE UNCHANGED budgetVars
    BY <2>1 DEF TypeInv, BudgetType
  <2>2. CASE Compares
    BY <1>3, <2>2 DEF Compares, TypeInv, BudgetType
  <2>3. CASE Replied
    BY <2>3 DEF Replied, TypeInv, BudgetType
  <2>4. CASE Recovered
    <3>1. (IF work[0].put > 0 THEN work[0].put ELSE req.size) \in 0 .. MaxSize
      BY <1>1, <1>3, Fields, Constants DEF TypeInv
    <3> QED  BY <2>4, <3>1 DEF Recovered, Fits, TypeInv, BudgetType
  <2> QED
    BY <2>1, <2>2, <2>3, <2>4 DEF Serves, Runs, Locks, Await, Wakes, Status, Adapts, Tells, Compacts, Send,
                                  Recovers, Cancelled
<1>6. tokens' \in Sizes
  BY Amounts DEF Serves, Runs, Locks, Await, Wakes, Status, Adapts, Compares, Tells, Compacts, Send, Replied, Recovers,
                 Recovered, Cancelled, TypeInv, TurnType
<1>7. turn' \in Procs \cup {None} /\ prefill' \in Models \cup {None}
  BY <1>1 DEF Serves, Runs, Locks, Await, Wakes, Status, Adapts, Compares, Tells, Compacts, Send, Replied, Recovers,
                 Recovered, Cancelled, Over, TypeInv, TurnType
<1>8. ServerType'
  <2>1. CASE server' = server
    BY <2>1 DEF TypeInv, ServerType
  <2>2. CASE Send
    <3>1. RunsAt(req.sent) \in 0 .. MaxSize /\ server' = [server EXCEPT ![req.sent] = RunsAt(req.sent)]
      BY <1>3, <2>2, Amounts DEF Send, At
    <3> QED  BY <3>1 DEF TypeInv, ServerType
  <2> QED
    BY <2>1, <2>2 DEF Serves, Runs, Locks, Await, Wakes, Status, Adapts, Compares, Tells, Compacts, Replied, Recovers,
                      Recovered, Cancelled
<1>9. Carried'
  <2>1. gen \in Nat /\ work[0] \in Works /\ gen' = gen /\ Starts(model).at = "probe" /\ Starts(model).seen = 0
        /\ Starts(model).model = model
    BY <1>1, <1>3, Fields, Fresh, Constants DEF TypeInv, SwitchType, ServesMoved
  <2>2. /\ work'[0].seen <= gen /\ (work'[0].at \in InModel => work'[0].model \in Models)
        /\ work'[0].at \notin {"again", "fits"}
    <3>1. CASE work[0].at \in inApply /\ work'[0] = [work[0] EXCEPT !.dead = TRUE]
      <4>1. work'[0].at = work[0].at /\ work'[0].seen = work[0].seen /\ work'[0].model = work[0].model
        BY <2>1, <3>1 DEF Works
      <4> QED  BY <1>1, <3>1, <4>1 DEF TypeInv, Carried, InModel, inApply
    <3>2. CASE work'[0] = Starts(model)
      BY <1>3, <2>1, <3>2
    <3>3. CASE work'[0].at \in Serving /\ work'[0].seen \in {work[0].seen, gen, 0}
      BY <1>1, <2>1, <3>3 DEF TypeInv, Carried, Serving, InModel, inApply
    <3> QED  BY <1>1, <3>1, <3>2, <3>3 DEF ServesMoved
  <2> QED  BY <1>1, <2>1, <2>2, ServesReq, Constants DEF ServesMoved, TypeInv, Carried
<1> QED
  BY <1>1, <1>2, <1>4, <1>5, <1>6, <1>7, <1>8, <1>9, ServesReq DEF TypeInv, TurnType, ServesMoved

LEMMA InitTypes == Init => TypeInv
<1> SUFFICES ASSUME Init PROVE TypeInv
  OBVIOUS
<1>1. model \in Models /\ window \in 0 .. MaxSize /\ server \in [Models -> 0 .. MaxSize]
  BY Constants DEF Init
<1>2. WorkType /\ (\A p \in Procs : work[p].seen = 0 /\ work[p].at \in {"idle", "none"}) /\ req \in Reqs
  BY <1>1, Fresh DEF Init, WorkType
<1>3. SwitchType /\ WaitType /\ WireType /\ BudgetType /\ AskType /\ TurnType /\ ServerType /\ BoundType
  <2>1. 0 \in 0 .. MaxGen /\ 0 \in 0 .. MaxMeddle /\ 1 \in 1 .. MaxSize
    BY Constants
  <2>2. SwitchType /\ AskType /\ ServerType /\ BoundType
    BY <1>1, <2>1 DEF Init, SwitchType, AskType, ServerType, BoundType
  <2>6. BudgetType
    BY <1>1 DEF Init, BudgetType
  <2>3. WireType
    BY <1>1 DEF Init, WireType
  <2>4. WaitType
    BY DEF Init, WaitType
  <2>5. TurnType
    BY <2>1 DEF Init, TurnType, Sizes
  <2> QED  BY <2>2, <2>3, <2>4, <2>5, <2>6
<1> QED  BY <1>1, <1>2, <1>3, Constants DEF TypeInv, Carried, InModel, inApply, SwitchType

LEMMA SwitchTypes ==
    ASSUME TypeInv, \/ \E m \in Models : SetModel(m)
                    \/ SwitchClears \/ ResolveModel \/ Prefills
                    \/ \E m \in Models, n \in 0 .. MaxSize : Meddle(m, n)
    PROVE  TypeInv'
<1> USE DEF switchVars, waitVars, budgetVars, askVars, boundVars
<1>1. gen \in 0 .. MaxGen /\ now.gens \in 0 .. MaxGen /\ model \in Models
  BY Constants DEF TypeInv, SwitchType, BoundType
<1>2. ASSUME NEW g \in Procs, Comes(g, Starts(model)), gen' \in gen .. MaxGen, UNCHANGED req
      PROVE  WorkType' /\ Carried'
  <2>1. work'[g] = Starts(model) /\ (\A q \in Procs \ {g} : work'[q] = work[q]) /\ WorkType'
    BY <1>1, <1>2, Come, Fresh DEF TypeInv
  <2>2. /\ \A p \in Procs : work'[p] = Starts(model) \/ work'[p] = work[p]
        /\ Starts(model).at = "probe" /\ Starts(model).seen = 0 /\ Starts(model).model \in Models
    BY <1>1, <2>1, Fresh
  <2>3. \A p \in Procs : work'[p].seen <= gen'
    BY <1>1, <1>2, <2>2, Fields, Constants DEF TypeInv, Carried
  <2>4. /\ \A p \in Procs : work'[p].at \in InModel => work'[p].model \in Models
        /\ \A p \in Procs : work'[p].at = "again" => work'[p].tries < MaxRetries
        /\ \A p \in Procs : work'[p].at = "fits" => work'[p].put > 0
        /\ work'[0].at \in {"adapt", "tell"} => req'.of \in Models
        /\ work'[0].at = "send" => req'.sent \in Models
    BY <1>2, <2>2, Constants DEF TypeInv, Carried
  <2> QED  BY <2>1, <2>3, <2>4 DEF Carried
<1>3. CASE \E m \in Models : SetModel(m)
  <2>1. PICK m \in Models : SetModel(m)
    BY <1>3
  <2>2. gen' = gen + 1 /\ gen' \in 1 .. MaxGen /\ gen + 1 \in Gens
    BY <1>1, <2>1, Constants DEF SetModel, Gens
  <2>3. SwitchType' /\ WaitType'
    BY <2>1, <2>2, Constants DEF SetModel, Begins, TypeInv, SwitchType, WaitType
  <2>4. Carried'
    <3>1. \A p \in Procs : work[p].seen \in Nat
      BY Fields, Constants DEF TypeInv
    <3> QED  BY <1>1, <2>1, <2>2, <3>1, Constants DEF SetModel, TypeInv, Carried
  <2> QED
    BY <2>1, <2>3, <2>4 DEF SetModel, TypeInv, WireType, BudgetType, AskType, WorkType, TurnType, ServerType, BoundType
<1>4. CASE SwitchClears
  <2>1. gen \in Procs /\ gen' \in gen .. MaxGen /\ UNCHANGED <<gen, model>>
    BY <1>1, <1>4, Constants DEF SwitchClears, Procs
  <2>2. WorkType' /\ Carried'
    BY <1>2, <1>4, <2>1 DEF SwitchClears
  <2>3. WireType'
    BY <1>4, Constants DEF SwitchClears, Cleared, TypeInv, WireType
  <2> QED
    BY <1>4, <2>2, <2>3 DEF SwitchClears, TypeInv, SwitchType, WaitType, BudgetType, AskType, TurnType, ServerType,
                            BoundType
<1>5. CASE ResolveModel
  <2>1. 1 \in Procs /\ gen' = 1 /\ gen' \in gen .. MaxGen /\ 1 \in Gens /\ 1 \in 0 .. MaxGen
    BY <1>1, <1>5, Constants DEF ResolveModel, Procs, Gens
  <2>2. WorkType' /\ Carried'
    BY <1>2, <1>5, <2>1 DEF ResolveModel
  <2>3. SwitchType' /\ WaitType'
    BY <1>5, <2>1, Constants DEF ResolveModel, Begins, TypeInv, SwitchType, WaitType
  <2> QED
    BY <1>5, <2>2, <2>3 DEF ResolveModel, TypeInv, WireType, BudgetType, AskType, TurnType, ServerType, BoundType
<1>6. CASE Prefills
  <2>1. ServerType'
    BY <1>6, Amounts DEF Prefills, TypeInv, TurnType, ServerType
  <2> QED
    BY <1>6, <2>1 DEF Prefills, TypeInv, SwitchType, WaitType, WireType, BudgetType, AskType, WorkType, TurnType,
                      BoundType, Carried
<1>7. CASE \E m \in Models, n \in 0 .. MaxSize : Meddle(m, n)
  <2>1. ServerType'
    BY <1>7 DEF Meddle, TypeInv, ServerType
  <2>2. BoundType'
    BY <1>7, Constants DEF Meddle, TypeInv, BoundType
  <2> QED
    BY <1>7, <2>1, <2>2 DEF Meddle, TypeInv, SwitchType, WaitType, WireType, BudgetType, AskType, WorkType, TurnType,
                      Carried
<1> QED  BY <1>3, <1>4, <1>5, <1>6, <1>7

\* The steps of the whole.
LEMMA Steps ==
    ASSUME [Next]_vars
    PROVE  \/ \E p \in Procs : Applies(p)
           \/ \E g \in Gens : Around(g)
           \/ Serves
           \/ \E m \in Models : SetModel(m)
           \/ SwitchClears \/ ResolveModel \/ Prefills
           \/ \E m \in Models, n \in 0 .. MaxSize : Meddle(m, n)
           \/ UNCHANGED vars
  BY Constants DEF Next, Request, Resolves, Applies, Around, Serves

LEMMA TypeStep == TypeInv /\ [Next]_vars => TypeInv'
<1> SUFFICES ASSUME TypeInv, [Next]_vars PROVE TypeInv'
  OBVIOUS
<1>1. CASE UNCHANGED vars
  BY <1>1 DEF vars, switchVars, waitVars, budgetVars, askVars, boundVars, TypeInv, SwitchType, WaitType, WireType,
              BudgetType, AskType, WorkType, TurnType, ServerType, BoundType, Carried
<1> QED  BY <1>1, Steps, ApplyTypes, AroundTypes, ServesTypes, SwitchTypes

-----------------------------------------------------------------------------
(* Questions and what is written *)

QInv == Questions /\ Rules

\* A step that asks nothing, answers nothing and takes back no question.
LEMMA Unasked ==
    ASSUME TypeInv, QInv, UNCHANGED askVars, UNCHANGED now, NEW p \in Procs,
           \A q \in Procs \ {p} : work'[q] = work[q], ~work[p].claim, ~work'[p].claim, work'[p].at # "asked",
           work'[p].at \in {"probe", "show"} => work'[p].saw = 0,
           work'[p].at = "consent" => work'[p].saw > 0 /\ Conf[work'[p].model] > 0,
           work'[p].at = "write" /\ work'[p].saw > 0 /\ now.mode = "ask" => Ruled(work'[p])
    PROVE  QInv'
<1> USE DEF askVars
<1>1. \A q \in Procs : work'[q].claim => work'[q] = work[q] /\ q # p
  OBVIOUS
<1>2. \A m \in asking : \E q \in Procs : Holds(q, m)'
  <2> SUFFICES ASSUME NEW m \in asking PROVE \E q \in Procs : Holds(q, m)'
    OBVIOUS
  <2>1. PICK q \in Procs : Holds(q, m)
    BY DEF QInv, Questions
  <2>2. q # p
    BY <2>1 DEF Holds
  <2> QED  BY <2>1, <2>2 DEF Holds
<1>3. Questions'
  BY <1>1, <1>2 DEF QInv, Questions, Holds
<1>4. Rules'
  BY DEF QInv, Rules, Ruled
<1> QED  BY <1>3, <1>4 DEF QInv

\* ... one that takes back its caller's question, if it has one ...
LEMMA TakenBack ==
    ASSUME QInv, UNCHANGED now, UNCHANGED <<asked, agreed>>, NEW p \in Procs, asking' = Released(p),
           \A q \in Procs \ {p} : work'[q] = work[q], ~work'[p].claim,
           work'[p].at \notin {"probe", "show", "consent", "asked", "write"}
    PROVE  QInv'
<1>1. \A q \in Procs : work'[q].claim => work'[q] = work[q] /\ q # p
  OBVIOUS
<1>2. \A q \in Procs : work'[q].claim => work[q].model \in asking'
  BY <1>1 DEF Released, QInv, Questions, Holds
<1>3. \A m \in asking' : \E q \in Procs : Holds(q, m)'
  <2> SUFFICES ASSUME NEW m \in asking' PROVE \E q \in Procs : Holds(q, m)'
    OBVIOUS
  <2>1. PICK q \in Procs : Holds(q, m)
    BY DEF Released, QInv, Questions
  <2>2. q # p
    BY <2>1 DEF Released, Holds
  <2> QED  BY <2>1, <2>2 DEF Holds
<1>4. Questions'
  <2>1. \A q \in Procs : work'[q].claim => work'[q].at \in {"asked", "write"} /\ work'[q].model \in asking'
    BY <1>1, <1>2 DEF QInv, Questions
  <2>2. ASSUME NEW q \in Procs, work'[q].at = "asked" PROVE work'[q].claim /\ work'[q].model \notin asked'
    <3>1. q # p
      BY <2>2
    <3> QED  BY <2>2, <3>1 DEF QInv, Questions
  <2>3. \A q, o \in Procs : work'[q].claim /\ Holds(o, work[q].model)' => q = o
    BY <1>1 DEF QInv, Questions, Holds
  <2> QED  BY <1>3, <2>1, <2>2, <2>3 DEF Questions
<1>5. Rules'
  <2>1. ASSUME NEW q \in Procs \ {p} PROVE work'[q] = work[q] /\ (Ruled(work[q])' <=> Ruled(work[q]))
    BY DEF Ruled
  <2> QED  BY <2>1 DEF QInv, Rules
<1> QED  BY <1>4, <1>5 DEF QInv

\* ... and one that changes nothing the question depends on.
LEMMA SameAsked ==
    ASSUME QInv, UNCHANGED askVars, UNCHANGED now,
           \A q \in Procs : /\ work'[q].at = work[q].at /\ work'[q].claim = work[q].claim
                            /\ work'[q].model = work[q].model /\ work'[q].saw = work[q].saw
                            /\ work'[q].put = work[q].put
    PROVE  QInv'
  BY DEF QInv, Questions, Rules, Ruled, Holds, askVars

LEMMA ApplyAsks ==
    ASSUME TypeInv, QInv, NEW p \in Procs, Applies(p)
    PROVE  QInv'
<1> DEFINE w == work[p]
<1>1. /\ WorkType /\ w \in Works /\ w.saw \in 0 .. MaxSize /\ UNCHANGED now
      /\ \A q \in Procs \ {p} : work'[q] = work[q]
  BY Fields, ApplyMoves DEF TypeInv, ApplyMoved, others, boundVars
<1>2. w.at \in inApply => /\ w.model \in Models /\ server[w.model] \in 0 .. MaxSize
                          /\ Conf[w.model] \in 0 .. MaxSize
  BY Constants DEF TypeInv, Carried, InModel, ServerType
<1>3. /\ w.at \notin {"asked", "write"} => ~w.claim
      /\ w.at \in {"probe", "show"} => w.saw = 0
      /\ w.at \in {"consent", "asked"} => w.saw > 0 /\ Conf[w.model] > 0
  BY DEF QInv, Questions, Rules
<1>4. ASSUME NEW r, Comes(p, r) PROVE work'[p] = r
  BY <1>1, <1>4, Come
<1>5. ASSUME NEW n, Decides(p, n)
      PROVE  /\ work'[p].at = "write" /\ work'[p].put = n /\ work'[p].saw = w.saw /\ work'[p].claim = w.claim
             /\ work'[p].model = w.model
  <2>1. work'[p] = [w EXCEPT !.at = "write", !.put = n]
    BY <1>4, <1>5 DEF Decides
  <2> QED  BY <1>1, <2>1 DEF Works
<1>6. CASE ProbeFails(p)
  BY <1>1, <1>3, <1>5, <1>6, Unasked DEF ProbeFails, At
<1>7. CASE Probe(p)
  <2>1. w.at = "probe" /\ ~w.claim /\ w.saw = 0 /\ UNCHANGED askVars
    BY <1>3, <1>7 DEF Probe, At
  <2>2. CASE \E n : Decides(p, n)
    BY <1>1, <1>5, <2>1, <2>2, Unasked
  <2>3. CASE /\ Comes(p, [w EXCEPT !.at = "consent", !.saw = server[w.model]])
             /\ Conf[w.model] > 0 /\ server[w.model] # 0
    <3>1. work'[p] = [w EXCEPT !.at = "consent", !.saw = server[w.model]]
      BY <1>4, <2>3
    <3>2. work'[p].at = "consent" /\ work'[p].saw = server[w.model] /\ ~work'[p].claim /\ work'[p].model = w.model
      BY <1>1, <2>1, <3>1 DEF Works
    <3>3. server[w.model] > 0
      BY <1>2, <2>1, <2>3, Constants DEF inApply
    <3> QED  BY <1>1, <2>1, <2>3, <3>2, <3>3, Unasked
  <2>4. CASE Went(p, "show")
    <3>1. work'[p] = [w EXCEPT !.at = "show"]
      BY <1>4, <2>4 DEF Went
    <3>2. work'[p].at = "show" /\ work'[p].saw = 0 /\ ~work'[p].claim
      BY <1>1, <2>1, <3>1 DEF Works
    <3> QED  BY <1>1, <2>1, <3>2, Unasked
  <2> QED  BY <1>7, <2>2, <2>3, <2>4 DEF Probe
<1>8. CASE Show(p)
  <2>1. w.at = "show" /\ ~w.claim /\ w.saw = 0 /\ UNCHANGED askVars /\ \E n : Decides(p, n)
    BY <1>3, <1>8 DEF Show, At
  <2> QED  BY <1>1, <1>5, <2>1, Unasked
<1>9. CASE Reconciles(p)
  <2>1. w.at = "consent" /\ ~w.claim /\ UNCHANGED askVars
    BY <1>3, <1>9 DEF Reconciles, At
  <2>2. PICK n : /\ Decides(p, n)
                 /\ now.mode = "ask" => w.model \in asked /\ n = IF w.model \in agreed THEN Conf[w.model] ELSE w.saw
    BY <1>9 DEF Reconciles
  <2>3. now.mode = "ask" => Ruled(work'[p])
    BY <1>5, <2>2 DEF Ruled
  <2> QED  BY <1>1, <1>5, <2>1, <2>2, <2>3, Unasked
<1>10. CASE StopsWaiting(p)
  <2>1. w.at = "consent" /\ ~w.claim /\ UNCHANGED askVars
    BY <1>3, <1>10 DEF StopsWaiting, At
  <2>2. work'[p] = [w EXCEPT !.at = "back", !.put = w.saw, !.saw = 0]
    BY <1>4, <1>10 DEF StopsWaiting
  <2>3. work'[p].at = "back" /\ ~work'[p].claim
    BY <1>1, <2>1, <2>2 DEF Works
  <2> QED  BY <1>1, <2>1, <2>3, Unasked
<1>11. CASE Claims(p)
  <2>1. w.at = "consent" /\ ~w.claim /\ w.model \notin asking \cup asked /\ asking' = asking \cup {w.model}
        /\ UNCHANGED <<asked, agreed>>
    BY <1>3, <1>11 DEF Claims, At
  <2>2. work'[p] = [w EXCEPT !.at = "asked", !.claim = TRUE]
    BY <1>4, <1>11 DEF Claims
  <2>3. work'[p].at = "asked" /\ work'[p].claim /\ work'[p].model = w.model /\ work'[p].saw = w.saw
    BY <1>1, <2>2 DEF Works
  <2>4. \A q \in Procs : work[q].claim => work[q].model # w.model /\ q # p
    BY <2>1 DEF QInv, Questions
  <2>5. \A m \in asking' : \E q \in Procs : Holds(q, m)'
    <3> SUFFICES ASSUME NEW m \in asking' PROVE \E q \in Procs : Holds(q, m)'
      OBVIOUS
    <3>1. CASE m = w.model
      BY <2>3, <3>1 DEF Holds
    <3>2. CASE m \in asking
      <4>1. PICK q \in Procs : Holds(q, m)
        BY <3>2 DEF QInv, Questions
      <4> QED  BY <1>1, <2>4, <4>1 DEF Holds
    <3> QED  BY <2>1, <3>1, <3>2
  <2>6. Questions'
    BY <1>1, <2>1, <2>3, <2>4, <2>5 DEF QInv, Questions, Holds
  <2>7. Rules'
    BY <1>1, <1>3, <2>1, <2>3 DEF QInv, Rules, Ruled
  <2> QED  BY <2>6, <2>7 DEF QInv
<1>12. CASE Withdrawn(p)
  <2>1. /\ w.at = "asked" /\ w.claim /\ w.model \notin agreed /\ Decides(p, w.saw) /\ UNCHANGED askVars
        /\ w.model \in asking
    BY <1>12 DEF Withdrawn, At, QInv, Questions, TypeInv, AskType
  <2>2. Ruled(work[p])'
    BY <1>5, <2>1 DEF Ruled, askVars
  <2>3. Questions'
    <3>1. \A q \in Procs : work'[q].claim = work[q].claim /\ work'[q].model = work[q].model
      BY <1>1, <1>5, <2>1
    <3>2. ASSUME NEW q \in Procs
          PROVE  /\ work'[q].claim => work'[q].at \in {"asked", "write"}
                 /\ work'[q].at = "asked" => work[q].at = "asked"
      <4>1. CASE q = p
        BY <1>5, <2>1, <4>1
      <4>2. CASE q # p
        BY <1>1, <4>2 DEF QInv, Questions
      <4> QED  BY <4>1, <4>2
    <3> QED  BY <2>1, <3>1, <3>2 DEF QInv, Questions, Holds, askVars
  <2>4. Rules'
    <3>1. ASSUME NEW q \in Procs \ {p} PROVE work'[q] = work[q] /\ (Ruled(work[q])' <=> Ruled(work[q]))
      BY <1>1, <2>1 DEF Ruled, askVars
    <3>2. work'[p].at = "write"
      BY <1>5, <2>1
    <3> QED  BY <1>1, <2>2, <3>1, <3>2 DEF QInv, Rules
  <2> QED  BY <2>3, <2>4 DEF QInv
<1>13. CASE Write(p)
  <2> DEFINE r == [w EXCEPT !.at = "back", !.claim = FALSE, !.saw = 0]
  <2>1. w.at = "write" /\ UNCHANGED <<asked, agreed>> /\ asking' = Released(p) /\ work'[p] = r
    BY <1>4, <1>13 DEF Write, At
  <2>2. work'[p].at = "back" /\ work'[p].claim = FALSE
    BY <1>1, <2>1 DEF Works
  <2> QED  BY <1>1, <2>1, <2>2, TakenBack
<1>14. ASSUME NEW yes \in BOOLEAN, Answer(p, yes) PROVE QInv'
  <2> DEFINE n == IF yes THEN Conf[w.model] ELSE w.saw
  <2>1. /\ w.at = "asked" /\ w.claim /\ w.model \notin asked /\ Decides(p, n) /\ UNCHANGED asking
        /\ asked' = asked \cup {w.model} /\ w.model \in asking /\ w.model \notin agreed
        /\ agreed' = IF yes THEN agreed \cup {w.model} ELSE agreed
    BY <1>14 DEF Answer, At, QInv, Questions, TypeInv, AskType
  <2>2. Ruled(work[p])'
    BY <1>5, <2>1 DEF Ruled
  <2>3. \A q \in Procs \ {p} : work[q].claim => work[q].model # w.model
    BY <2>1 DEF QInv, Questions, Holds
  <2>4. \A q \in Procs \ {p} : work[q].at = "write" /\ Ruled(work[q]) => Ruled(work[q])'
    BY <1>1, <2>1, <2>3 DEF Ruled
  <2>5. Questions'
    <3>1. \A q \in Procs : work'[q].claim = work[q].claim /\ work'[q].model = work[q].model
      BY <1>1, <1>5, <2>1
    <3>2. ASSUME NEW q \in Procs
          PROVE  /\ work'[q].claim => work'[q].at \in {"asked", "write"}
                 /\ work'[q].at = "asked" => work[q].at = "asked" /\ q # p
      <4>1. CASE q = p
        BY <1>5, <2>1, <4>1
      <4>2. CASE q # p
        BY <1>1, <4>2 DEF QInv, Questions
      <4> QED  BY <4>1, <4>2
    <3>3. \A q \in Procs : work'[q].at = "asked" => work'[q].claim /\ work'[q].model \notin asked'
      BY <2>1, <2>3, <3>1, <3>2 DEF QInv, Questions
    <3> QED  BY <2>1, <3>1, <3>2, <3>3 DEF QInv, Questions, Holds
  <2>6. Rules'
    <3>1. work'[p].at = "write" /\ \A q \in Procs \ {p} : work'[q] = work[q]
      BY <1>1, <1>5, <2>1
    <3> QED  BY <1>1, <2>2, <2>4, <3>1 DEF QInv, Rules
  <2> QED  BY <2>5, <2>6 DEF QInv
<1> QED
  BY <1>6, <1>7, <1>8, <1>9, <1>10, <1>11, <1>12, <1>13, <1>14 DEF Applies, Apply

\* Where a resolution comes to, apart from Apply.
Parting == {"end", "again", "fits", "turn", "tidy", "warm", "done"}
LEMMA AroundFields ==
    ASSUME TypeInv, NEW g \in Gens, Around(g)
    PROVE  \/ Deadline(g) /\ work[g].at \in inApply /\ work'[g] = [work[g] EXCEPT !.dead = TRUE]
           \/ /\ work'[g].claim \in {work[g].claim, FALSE} /\ (Panic(g) \/ work[g].at \notin inApply)
              /\ \/ work'[g].at \in Parting
                 \/ /\ Rehands(g) /\ work'[g].at = "probe" /\ work'[g].saw = 0 /\ work'[g].model = model
                    /\ work'[g].again /\ work'[g].seen = gen
<1> DEFINE w == work[g]
<1>1. /\ g \in Procs /\ WorkType /\ w \in Works /\ model \in Models /\ NoWork \in Works /\ ~NoWork.claim
      /\ w.tries \in 0 .. MaxRetries /\ gen \in 0 .. MaxGen
  BY Constants, Fields, Fresh DEF TypeInv, SwitchType
<1>2. ASSUME NEW r, Comes(g, r) PROVE work'[g] = r
  BY <1>1, <1>2, Come
<1>3. ASSUME NEW a \in Parting, NEW n,
             \/ Comes(g, [w EXCEPT !.at = a]) \/ Comes(g, [NoWork EXCEPT !.at = a])
             \/ Comes(g, [NoWork EXCEPT !.at = a, !.put = n]) \/ Comes(g, [NoWork EXCEPT !.at = a, !.tries = n])
      PROVE  work'[g].at \in Parting /\ work'[g].claim \in {w.claim, FALSE}
  <2>1. PICK r \in {[w EXCEPT !.at = a], [NoWork EXCEPT !.at = a],
                    [NoWork EXCEPT !.at = a, !.put = n], [NoWork EXCEPT !.at = a, !.tries = n]} : Comes(g, r)
    BY <1>3
  <2>2. r.at = a /\ r.claim \in {w.claim, FALSE}
    <3>1. [w EXCEPT !.at = a].at = a /\ [w EXCEPT !.at = a].claim = w.claim
      BY <1>1 DEF Works
    <3>2. /\ [NoWork EXCEPT !.at = a].at = a /\ [NoWork EXCEPT !.at = a].claim = NoWork.claim
          /\ [NoWork EXCEPT !.at = a, !.put = n].at = a /\ [NoWork EXCEPT !.at = a, !.put = n].claim = NoWork.claim
          /\ [NoWork EXCEPT !.at = a, !.tries = n].at = a
          /\ [NoWork EXCEPT !.at = a, !.tries = n].claim = NoWork.claim
      BY <1>1 DEF Works
    <3>3. NoWork.claim = FALSE
      BY DEF NoWork
    <3> QED  BY <2>1, <3>1, <3>2, <3>3
  <2> QED  BY <1>2, <2>1, <2>2
<1>4. CASE Deadline(g)
  BY <1>2, <1>4 DEF Deadline
<1>5. CASE Rehands(g)
  <2> DEFINE r == [Starts(model) EXCEPT !.again = TRUE, !.seen = gen, !.tries = w.tries + 1]
  <2>1. Comes(g, r) /\ w.at = "again"
    BY <1>5 DEF Rehands, At
  <2>2. r.at = "probe" /\ r.saw = 0 /\ r.model = model /\ r.again /\ r.seen = gen /\ r.claim = FALSE
    <3>1. Starts(model) \in Works /\ Starts(model).at = "probe" /\ Starts(model).saw = 0 /\ Starts(model).model = model
      BY <1>1, Fresh
    <3>2. Starts(model).claim = FALSE
      BY DEF Starts, NoWork
    <3> QED  BY <3>1, <3>2 DEF Works
  <2>3. work'[g] = r
    BY <1>2, <2>1
  <2> HIDE DEF r
  <2> QED  BY <1>5, <2>1, <2>2, <2>3 DEF inApply
<1>6. CASE Panic(g)
  <2>1. Comes(g, [NoWork EXCEPT !.at = "end"])
    BY <1>6 DEF Panic
  <2> QED  BY <1>3, <1>6, <2>1 DEF Parting
<1>7. CASE Overtaken(g)
  <2>1. Comes(g, [NoWork EXCEPT !.at = "again"]) /\ w.at = "back"
    BY <1>7 DEF Overtaken, At
  <2> QED  BY <1>3, <2>1 DEF Parting, inApply
<1>8. CASE Rehanded(g)
  <2>1. \E a \in {"end", "again"}, n \in {0, w.tries} : Comes(g, [NoWork EXCEPT !.at = a, !.tries = n])
    BY <1>8 DEF Rehanded
  <2>2. w.at = "back"
    BY <1>8 DEF Rehanded, At
  <2> QED  BY <1>3, <2>1, <2>2 DEF Parting, inApply
<1>9. CASE Landed(g)
  <2>1. \E a \in {"fits", "end"} : Comes(g, [NoWork EXCEPT !.at = a, !.put = w.put])
    BY <1>9 DEF Landed
  <2>2. w.at = "back"
    BY <1>9 DEF Landed, At
  <2> QED  BY <1>3, <2>1, <2>2 DEF Parting, inApply
<1>10. CASE FitsBudget(g)
  <2>1. Comes(g, [NoWork EXCEPT !.at = "turn"]) /\ w.at = "fits"
    BY <1>10 DEF FitsBudget, At
  <2> QED  BY <1>3, <2>1 DEF Parting, inApply
<1>11. CASE TriesTurn(g) \/ Tidies(g) \/ Warms(g) \/ Ends(g)
  <2>1. \E a \in {"tidy", "warm", "end", "done"} : Comes(g, [w EXCEPT !.at = a])
    BY <1>11 DEF TriesTurn, Tidies, Warms, Ends, Went
  <2>2. w.at \in {"turn", "tidy", "warm", "end"}
    BY <1>11 DEF TriesTurn, Tidies, Warms, Ends, At
  <2> QED  BY <1>3, <2>1, <2>2 DEF Parting, inApply
<1> QED
  BY <1>4, <1>5, <1>6, <1>7, <1>8, <1>9, <1>10, <1>11 DEF Around

LEMMA AroundAsks ==
    ASSUME TypeInv, QInv, NEW g \in Gens, Around(g)
    PROVE  QInv'
<1> DEFINE w == work[g]
<1>1. /\ g \in Procs /\ w \in Works /\ UNCHANGED now /\ \A q \in Procs \ {g} : work'[q] = work[q]
  BY Fields, AroundMoves, Constants DEF TypeInv, AroundMoved, boundVars
<1>2. CASE Deadline(g) /\ work'[g] = [w EXCEPT !.dead = TRUE]
  <2>1. /\ work'[g].at = w.at /\ work'[g].claim = w.claim /\ work'[g].model = w.model /\ work'[g].saw = w.saw
        /\ work'[g].put = w.put
    BY <1>1, <1>2 DEF Works
  <2>2. UNCHANGED askVars
    BY <1>2 DEF Deadline
  <2> QED  BY <1>1, <2>1, <2>2, SameAsked
<1>3. CASE work[g].at \notin inApply /\ work'[g].claim \in {work[g].claim, FALSE}
           /\ (work'[g].at \in Parting \/ (work'[g].at = "probe" /\ work'[g].saw = 0)) /\ ~Panic(g) /\ ~Deadline(g)
  <2>1. ~w.claim /\ ~work'[g].claim
    BY <1>1, <1>3 DEF QInv, Questions, inApply
  <2>2. UNCHANGED askVars
    BY <1>3 DEF Around, Overtaken, Rehands, Rehanded, Landed, FitsBudget, TriesTurn, Tidies, Warms, Ends, rest
  <2> QED  BY <1>1, <1>3, <2>1, <2>2, Unasked DEF Parting
<1>4. CASE Panic(g)
  <2>1. work'[g] = [NoWork EXCEPT !.at = "end"] /\ UNCHANGED <<asked, agreed>> /\ asking' = Released(g)
    BY <1>1, <1>4, Come DEF Panic, TypeInv
  <2>2. work'[g].at = "end" /\ work'[g].claim = FALSE
    BY <2>1 DEF NoWork
  <2> QED  BY <1>1, <2>1, <2>2, TakenBack
<1>5. CASE /\ w.at \notin inApply /\ work'[g].claim \in {w.claim, FALSE} /\ ~Panic(g)
           /\ (work'[g].at \in Parting \/ (work'[g].at = "probe" /\ work'[g].saw = 0))
  <2>1. ~Deadline(g)
    BY <1>5 DEF Deadline
  <2> QED  BY <1>3, <1>5, <2>1
<1>6. CASE ~Panic(g) /\ ~(Deadline(g) /\ work'[g] = [w EXCEPT !.dead = TRUE])
  <2>1. /\ w.at \notin inApply /\ work'[g].claim \in {w.claim, FALSE}
        /\ (work'[g].at \in Parting \/ (work'[g].at = "probe" /\ work'[g].saw = 0))
    BY <1>6, AroundFields
  <2> QED  BY <1>5, <1>6, <2>1
<1> QED
  BY <1>2, <1>4, <1>6

LEMMA ServesAsks ==
    ASSUME TypeInv, QInv, Serves
    PROVE  QInv'
<1> DEFINE w == work[0]
<1>1. /\ 0 \in Procs /\ w \in Works /\ UNCHANGED now /\ UNCHANGED askVars
      /\ (\A q \in Procs \ {0} : work'[q] = work[q]) /\ model \in Models
  BY Fields, ServesMoves, Constants DEF TypeInv, SwitchType, ServesMoved, boundVars
<1>2. CASE work'[0] = [w EXCEPT !.dead = TRUE]
  <2>1. /\ work'[0].at = w.at /\ work'[0].claim = w.claim /\ work'[0].model = w.model /\ work'[0].saw = w.saw
        /\ work'[0].put = w.put
    BY <1>1, <1>2 DEF Works
  <2> QED  BY <1>1, <2>1, SameAsked
<1>3. CASE w.at = "refused" /\ work'[0] = Starts(model)
  <2>1. ~w.claim /\ ~work'[0].claim /\ work'[0].at = "probe" /\ work'[0].saw = 0
    BY <1>1, <1>3, Fresh DEF QInv, Questions
  <2> QED  BY <1>1, <2>1, Unasked
<1>4. CASE w.at \notin inApply /\ work'[0].at \in Serving /\ work'[0].claim \in {w.claim, FALSE}
  <2>1. ~w.claim /\ ~work'[0].claim
    BY <1>1, <1>4 DEF QInv, Questions, inApply
  <2> QED  BY <1>1, <1>4, <2>1, Unasked DEF Serving
<1> QED  BY <1>2, <1>3, <1>4, ServesMoves DEF ServesMoved

\* A resolution starts where there was none.
LEMMA StartAsks ==
    ASSUME TypeInv, QInv, NEW g \in Procs, work[g].at = "none", Comes(g, Starts(model)), UNCHANGED <<askVars, now>>
    PROVE  QInv'
<1>1. model \in Models /\ work'[g] = Starts(model) /\ \A q \in Procs \ {g} : work'[q] = work[q]
  BY Come DEF TypeInv, SwitchType
<1>2. ~work[g].claim /\ ~work'[g].claim /\ work'[g].at = "probe" /\ work'[g].saw = 0
  BY <1>1, Fresh DEF QInv, Questions
<1> QED  BY <1>1, <1>2, Unasked

LEMMA AskStep == TypeInv /\ QInv /\ Waits /\ [Next]_vars => QInv'
<1> SUFFICES ASSUME TypeInv, QInv, Waits, [Next]_vars PROVE QInv'
  OBVIOUS
<1> USE DEF boundVars
<1>1. gen \in 0 .. MaxGen /\ gen \in Procs
  BY Constants DEF TypeInv, SwitchType, Procs
<1>2. CASE SwitchClears
  BY <1>1, <1>2, StartAsks DEF SwitchClears, Waits
<1>3. CASE ResolveModel
  <2>1. 1 \in Procs /\ 1 \in Gens /\ gen = 0
    BY <1>1, <1>3, Constants DEF ResolveModel, TypeInv, BoundType, Procs, Gens
  <2> QED  BY <1>3, <2>1, StartAsks DEF ResolveModel, Waits
<1>4. CASE \/ \E m \in Models : SetModel(m)
           \/ Prefills \/ (\E m \in Models, n \in 0 .. MaxSize : Meddle(m, n)) \/ UNCHANGED vars
  <2>1. UNCHANGED <<work, askVars, now>>
    BY <1>4 DEF SetModel, Prefills, Meddle, vars
  <2> QED  BY <2>1, SameAsked
<1> QED  BY <1>2, <1>3, <1>4, Steps, ApplyAsks, AroundAsks, ServesAsks

-----------------------------------------------------------------------------
(* Who waits for what *)

LEMMA WaitStep == TypeInv /\ Waits /\ [Next]_vars => Waits'
<1> SUFFICES ASSUME TypeInv, Waits, [Next]_vars PROVE Waits'
  OBVIOUS
<1> USE DEF switchVars, waitVars
<1>1. /\ gen \in 0 .. MaxGen /\ gen \in Nat /\ resolving \in 0 .. gen /\ switching \in BOOLEAN /\ 0 \in Procs
      /\ Gens = 1 .. MaxGen /\ Procs = Gens \cup {0} /\ (gen > 0 => gen \in Gens)
  BY Constants DEF TypeInv, SwitchType, WaitType, Gens, Procs
<1>2. ASSUME UNCHANGED <<switchVars, waitVars>>,
             \A g \in Gens : work[g].at \in {"none", "done"} => work'[g].at = work[g].at,
             work'[0].at \in LetThrough =>
                \/ work[0].at \in LetThrough /\ work'[0].seen = work[0].seen
                \/ resolving = 0 /\ work'[0].seen = gen
      PROVE  Waits'
  BY <1>1, <1>2 DEF Waits
<1>3. ASSUME NEW p \in Procs, Applies(p) PROVE Waits'
  <2>1. /\ \A q \in Procs \ {p} : work'[q] = work[q]
        /\ work[p].at \in inApply /\ work'[p].at \in InModel
        /\ UNCHANGED <<switchVars, waitVars>>
    BY <1>3, ApplyMoves DEF ApplyMoved, others
  <2> QED  BY <1>1, <1>2, <2>1 DEF inApply, InModel, LetThrough
<1>4. ASSUME NEW g \in Gens, Around(g), ~Ends(g) PROVE Waits'
  <2>1. /\ \A q \in Procs \ {g} : work'[q] = work[q]
        /\ work[g].at \notin {"none", "done"} /\ UNCHANGED switchVars
    BY <1>4, AroundMoves DEF AroundMoved
  <2>2. UNCHANGED waitVars
    BY <1>4 DEF Around, Deadline, Panic, Overtaken, Rehands, Rehanded, Landed, FitsBudget, TriesTurn, Tidies, Warms,
                rest, others
  <2>3. work'[0] = work[0]
    BY <1>1, <2>1
  <2> QED  BY <1>1, <1>2, <2>1, <2>2, <2>3
<1>5. ASSUME NEW g \in Gens, Ends(g) PROVE Waits'
  <2>1. /\ \A q \in Procs \ {g} : work'[q] = work[q]
        /\ work[g].at \notin {"none", "done"} /\ UNCHANGED switchVars
    BY <1>5, AroundMoves DEF AroundMoved, Around
  <2>2. work'[g] = [work[g] EXCEPT !.at = "done"] /\ work[g] \in Works
    BY <1>1, <1>5, Come, Fields DEF Ends, Went, TypeInv
  <2>3. work'[g].at = "done"
    BY <2>2 DEF Works
  <2>4. resolving' = (IF resolving = g THEN 0 ELSE resolving) /\ work'[0] = work[0]
    BY <1>1, <1>5, <2>1 DEF Ends
  <2>5. g # 0 /\ g <= gen /\ (switching => g # gen)
    BY <1>1, <2>1 DEF Waits
  <2>6. /\ resolving' \in {0, gen'}
        /\ switching' => gen' > 0 /\ resolving' = gen' /\ work'[gen'].at = "none"
    BY <1>1, <2>1, <2>4, <2>5 DEF Waits
  <2>7. \A q \in Gens : q > gen' => work'[q].at = "none"
    BY <1>1, <2>1, <2>5 DEF Waits
  <2>8. resolving' = 0 /\ gen' > 0 => work'[gen'].at = "done"
    BY <1>1, <2>1, <2>3, <2>4, <2>5 DEF Waits
  <2>9. work'[0].at \in LetThrough /\ work'[0].seen = gen' /\ gen' > 0 => work'[gen'].at = "done"
    BY <1>1, <2>1, <2>3, <2>4 DEF Waits
  <2> QED  BY <2>6, <2>7, <2>8, <2>9 DEF Waits
<1>6. CASE Serves
  <2>1. ServesMoved /\ work[0] \in Works /\ model \in Models
    BY <1>1, <1>6, ServesMoves, Fields DEF TypeInv, SwitchType
  <2>2. CASE work[0].at \in inApply /\ work'[0] = [work[0] EXCEPT !.dead = TRUE]
    <3>1. work'[0].at = work[0].at
      BY <2>1, <2>2 DEF Works
    <3> QED  BY <1>2, <2>1, <2>2, <3>1 DEF ServesMoved, inApply, LetThrough
  <2>3. CASE work'[0] = Starts(model)
    <3>1. work'[0].at = "probe"
      BY <2>1, <2>3, Fresh
    <3> QED  BY <1>2, <2>1, <3>1 DEF ServesMoved, LetThrough
  <2>4. CASE work'[0].at \in LetThrough =>
                \/ work[0].at \in LetThrough /\ work'[0].seen = work[0].seen
                \/ resolving = 0 /\ work'[0].seen = gen
    BY <1>2, <2>1, <2>4 DEF ServesMoved
  <2> QED  BY <2>1, <2>2, <2>3, <2>4 DEF ServesMoved
<1>7. CASE \E m \in Models : SetModel(m)
  <2>1. PICK m \in Models : SetModel(m)
    BY <1>7
  <2>2. gen' = gen + 1 /\ gen' \in Gens /\ resolving' = gen' /\ switching' /\ work' = work
    BY <1>1, <2>1, Constants DEF SetModel, Begins, TypeInv, BoundType
  <2>3. work[0].seen <= gen /\ work[0].seen \in Nat
    BY <1>1, Fields, Constants DEF TypeInv, Carried
  <2> QED  BY <1>1, <2>2, <2>3 DEF Waits
<1>8. ASSUME NEW g \in Gens, work[g].at = "none", Comes(g, Starts(model)), resolving' = g, gen' = g, ~switching',
             \A k \in Gens : k > g => work[k].at = "none", work[0].seen < g \/ gen = g
      PROVE  Waits'
  <2>1. work'[g] = Starts(model) /\ (\A q \in Procs \ {g} : work'[q] = work[q]) /\ g # 0 /\ g \in Nat
    BY <1>1, <1>8, Come DEF TypeInv
  <2>2. work'[0] = work[0] /\ \A k \in Gens : k > g => work'[k].at = "none"
    BY <1>1, <1>8, <2>1
  <2>3. work[0].at \in LetThrough => work[0].seen # g
    BY <1>1, <1>8 DEF Waits
  <2> QED  BY <1>8, <2>1, <2>2, <2>3 DEF Waits
<1>9. CASE SwitchClears
  <2>1. gen \in Gens /\ Comes(gen, Starts(model)) /\ work[gen].at = "none" /\ resolving' = gen /\ gen' = gen /\ ~switching'
    BY <1>1, <1>9 DEF SwitchClears, Waits
  <2> QED  BY <1>8, <2>1 DEF Waits
<1>10. CASE ResolveModel
  <2>1. 1 \in Gens /\ gen = 0 /\ Comes(1, Starts(model)) /\ resolving' = 1 /\ gen' = 1 /\ ~switching'
    BY <1>1, <1>10, Constants DEF ResolveModel, Begins, TypeInv, BoundType
  <2>2. work[0].seen < 1 /\ \A k \in Gens : work[k].at = "none"
    BY <1>1, <2>1, Fields, Constants DEF TypeInv, Carried, Waits
  <2> QED  BY <1>8, <2>1, <2>2
<1>11. CASE Prefills \/ (\E m \in Models, n \in 0 .. MaxSize : Meddle(m, n)) \/ UNCHANGED vars
  <2>1. UNCHANGED <<work, switchVars, waitVars>>
    BY <1>11 DEF Prefills, Meddle, vars
  <2> QED  BY <1>2, <2>1
<1> QED  BY <1>3, <1>4, <1>5, <1>6, <1>7, <1>9, <1>10, <1>11, Steps

-----------------------------------------------------------------------------
(* What is on the wire *)

\* Nobody's work changes in what the wire depends on, nor the wire.
LEMMA WireKept ==
    ASSUME TypeInv, WireOf, Wired, UNCHANGED <<switchVars, wire, hurt>>,
           \A p \in Procs : /\ work'[p].at = work[p].at /\ work'[p].model = work[p].model
                            /\ work'[p].put = work[p].put /\ work'[p].again = work[p].again
                            /\ work'[p].seen = work[p].seen
    PROVE  WireOf' /\ Wired'
  BY Constants DEF WireOf, Wired, Overtook, Turned, Owes, NoWindow, switchVars

LEMMA ApplyWrites ==
    ASSUME TypeInv, QInv, WireOf, NEW p \in Procs, Applies(p)
    PROVE  /\ work'[p].at = "write" => work'[p].put > 0 \/ hurt' \/ NoWindow(work'[p].model)
           /\ work'[p].at = "show" => Conf[work'[p].model] = 0
           /\ hurt => hurt'
           /\ work'[p].at = "back" => StopsWaiting(p) \/ Write(p)
           /\ ~Write(p) => wire' = wire
<1> DEFINE w == work[p]
<1>1. /\ w \in Works /\ WorkType /\ work'[p].model = w.model /\ (w.at \in inApply => w.model \in Models)
      /\ (w.at \in {"consent", "asked"} => w.saw > 0 /\ Conf[w.model] > 0) /\ hurt \in BOOLEAN
  BY Fields, ApplyMoves DEF TypeInv, Carried, InModel, ApplyMoved, QInv, Rules, BoundType
<1>2. \A m \in Models : Own[m] \in 0 .. MaxSize /\ server[m] \in 0 .. MaxSize /\ Conf[m] \in 0 .. MaxSize
  BY Constants DEF TypeInv, ServerType
<1>3. ASSUME NEW r, Comes(p, r) PROVE work'[p] = r
  BY <1>1, <1>3, Come
<1>4. ASSUME NEW n, Decides(p, n) PROVE work'[p].at = "write" /\ work'[p].put = n
  <2>1. work'[p] = [w EXCEPT !.at = "write", !.put = n]
    BY <1>3, <1>4 DEF Decides
  <2> QED  BY <1>1, <2>1 DEF Works
<1>5. CASE ProbeFails(p)
  BY <1>4, <1>5 DEF ProbeFails
<1>6. CASE Probe(p)
  <2>1. w.at = "probe" /\ UNCHANGED <<wire, hurt>> /\ w.model \in Models
    BY <1>1, <1>6 DEF Probe, At, inApply
  <2>2. CASE (Conf[w.model] > 0 /\ Decides(p, Conf[w.model])) \/ (server[w.model] > 0 /\ Decides(p, server[w.model]))
    BY <1>4, <2>1, <2>2
  <2>3. CASE Comes(p, [w EXCEPT !.at = "consent", !.saw = server[w.model]])
    <3>1. work'[p].at = "consent"
      BY <1>1, <1>3, <2>3 DEF Works
    <3> QED  BY <2>1, <3>1
  <2>4. CASE Conf[w.model] = 0 /\ Went(p, "show")
    <3>1. work'[p].at = "show"
      BY <1>1, <1>3, <2>4 DEF Works, Went
    <3> QED  BY <1>1, <2>1, <2>4, <3>1
  <2>5. \/ Conf[w.model] > 0 /\ Decides(p, Conf[w.model])
        \/ server[w.model] > 0 /\ Decides(p, server[w.model])
        \/ Comes(p, [w EXCEPT !.at = "consent", !.saw = server[w.model]])
        \/ Conf[w.model] = 0 /\ Went(p, "show")
    BY <1>6 DEF Probe
  <2> QED  BY <2>2, <2>3, <2>4, <2>5
<1>7. CASE Show(p)
  <2>1. w.at = "show" /\ wire' = wire /\ w.model \in Models /\ Conf[w.model] = 0
    BY <1>1, <1>7 DEF Show, At, inApply, WireOf
  <2>2. CASE hurt' = hurt /\ Decides(p, IF server[w.model] > 0 THEN server[w.model] ELSE Own[w.model])
    <3> DEFINE n == IF server[w.model] > 0 THEN server[w.model] ELSE Own[w.model]
    <3>2. work'[p].put = n
      BY <1>4, <2>2
    <3>3. n > 0 \/ Own[w.model] = 0
      BY <1>2, <2>1, Constants
    <3>1. work'[p].put > 0 \/ Own[w.model] = 0
      BY <3>2, <3>3
    <3> QED  BY <1>1, <1>4, <2>1, <2>2, <3>1 DEF NoWindow
  <2>3. CASE hurt' = TRUE /\ Decides(p, -1)
    BY <1>4, <2>1, <2>3
  <2> QED  BY <1>7, <2>2, <2>3 DEF Show
<1>8. CASE Reconciles(p)
  <2>1. w.at = "consent" /\ UNCHANGED <<wire, hurt>> /\ \E n \in {w.saw, Conf[w.model]} : Decides(p, n)
    BY <1>8 DEF Reconciles, At
  <2> QED  BY <1>1, <1>4, <2>1
<1>9. CASE StopsWaiting(p)
  <2>1. UNCHANGED <<wire, hurt>> /\ work'[p] = [w EXCEPT !.at = "back", !.put = w.saw, !.saw = 0]
    BY <1>3, <1>9 DEF StopsWaiting
  <2>2. work'[p].at = "back"
    BY <1>1, <2>1 DEF Works
  <2> QED  BY <1>9, <2>1, <2>2
<1>10. CASE Claims(p)
  <2>1. UNCHANGED <<wire, hurt>> /\ work'[p] = [w EXCEPT !.at = "asked", !.claim = TRUE]
    BY <1>3, <1>10 DEF Claims
  <2>2. work'[p].at = "asked"
    BY <1>1, <2>1 DEF Works
  <2> QED  BY <2>1, <2>2
<1>11. CASE Withdrawn(p)
  BY <1>1, <1>4, <1>11 DEF Withdrawn, At
<1>12. CASE Write(p)
  <2>1. UNCHANGED hurt /\ work'[p] = [w EXCEPT !.at = "back", !.claim = FALSE, !.saw = 0]
    BY <1>3, <1>12 DEF Write
  <2>2. work'[p].at = "back"
    BY <1>1, <2>1 DEF Works
  <2> QED  BY <1>12, <2>1, <2>2
<1>13. ASSUME NEW yes \in BOOLEAN, Answer(p, yes)
       PROVE  work'[p].at = "write" /\ work'[p].put > 0 /\ UNCHANGED <<wire, hurt>>
  <2>1. w.at = "asked" /\ UNCHANGED <<wire, hurt>> /\ \E n \in {w.saw, Conf[w.model]} : Decides(p, n)
    BY <1>13 DEF Answer, At
  <2> QED  BY <1>1, <1>4, <2>1
<1> QED
  BY <1>5, <1>6, <1>7, <1>8, <1>9, <1>10, <1>11, <1>12, <1>13 DEF Applies, Apply

LEMMA ApplyWire ==
    ASSUME TypeInv, QInv, WireOf, Wired, NEW p \in Procs, Applies(p)
    PROVE  WireOf' /\ Wired'
<1> USE DEF switchVars
<1>1. ApplyMoved(p) /\ UNCHANGED <<model, gen, switching>>
  BY ApplyMoves DEF ApplyMoved, others
<1>2. \A q \in Procs : Overtook(q)' = Overtook(q) /\ work'[q].model = work[q].model
  BY <1>1 DEF Overtook, ApplyMoved
<1>3. WireOf'
  <2>1. \A g \in Gens : (work[g].at \in InModel /\ ~Overtook(g) => work[g].model = model)'
    BY <1>1, <1>2, Constants DEF WireOf, ApplyMoved, InModel
  <2>2. \A q \in Procs : (work[q].at = "write" => work[q].put > 0 \/ hurt \/ NoWindow(work[q].model))'
    BY <1>1, ApplyWrites DEF WireOf, ApplyMoved, NoWindow
  <2>3. \A q \in Procs : (work[q].at = "show" => Conf[work[q].model] = 0)'
    BY <1>1, ApplyWrites DEF WireOf, ApplyMoved
  <2> QED  BY <2>1, <2>2, <2>3 DEF WireOf
<1>4. \A g \in Gens : Turned(g) => Turned(g)'
  BY <1>1, <1>2, Constants DEF Turned, ApplyMoved, inApply
<1>5. \A q \in Procs \ {p} : Owes(q) => Owes(q)'
  BY <1>1, <1>2 DEF Owes, Turned, ApplyMoved
<1>6. CASE ~Write(p)
  <2>1. wire' = wire /\ (hurt => hurt')
    BY <1>6, ApplyWrites
  <2>2. Owes(p) => \E q \in Procs : Owes(q)'
    <3>1. CASE work'[p].at \in inApply
      BY <3>1 DEF Owes
    <3>2. CASE work'[p].at = "back"
      <4>1. work[p].at = "consent" /\ work[p].model \in asking
        BY <1>6, <3>2, ApplyWrites DEF StopsWaiting, At
      <4>2. PICK h \in Procs : Holds(h, work[p].model)
        BY <4>1 DEF QInv, Questions
      <4>3. work[h].at \in {"asked", "write"} /\ h # p
        BY <4>1, <4>2 DEF QInv, Questions, Holds
      <4>4. Owes(h)
        BY <4>3 DEF Owes, inApply
      <4> QED  BY <1>5, <4>3, <4>4
    <3> QED  BY <1>1, <3>1, <3>2 DEF ApplyMoved, InModel
  <2>3. Wired'
    BY <1>1, <1>4, <1>5, <2>1, <2>2 DEF Wired, NoWindow
  <2> QED  BY <1>3, <2>3
<1>7. CASE Write(p)
  <2> DEFINE w == work[p]
  <2>1. /\ w.at = "write" /\ hurt' = hurt /\ wire'.of = w.model
        /\ (w.put > 0 => wire'.num > 0) /\ (wire'.by = "loader" => p # 0)
    BY <1>7 DEF Write, Writes, At
  <2>2. work'[p].at = "back"
    <3>1. w \in Works /\ WorkType
      BY Fields DEF TypeInv
    <3>2. work'[p] = [w EXCEPT !.at = "back", !.claim = FALSE, !.saw = 0]
      BY <1>7, <3>1, Come DEF Write
    <3> QED  BY <3>1, <3>2 DEF Works
  <2>3. p # 0 => p \in Gens
    BY Constants
  <2>4. p # 0 /\ w.model # model => Turned(p)' /\ Owes(p)'
    BY <1>2, <2>1, <2>2, <2>3 DEF WireOf, Turned, Owes, InModel, inApply
  <2>5. wire'.num = 0 /\ ~hurt => NoWindow(w.model)
    BY <2>1 DEF WireOf
  <2>6. Wired'
    BY <1>1, <2>1, <2>3, <2>4, <2>5 DEF Wired, NoWindow
  <2> QED  BY <1>3, <2>6
<1> QED  BY <1>6, <1>7

LEMMA AroundWire ==
    ASSUME TypeInv, WireOf, Wired, NEW g \in Gens, Around(g)
    PROVE  WireOf' /\ Wired'
<1> DEFINE w == work[g]
<1> USE DEF switchVars
<1>1. /\ g \in Procs /\ WorkType /\ w \in Works /\ UNCHANGED <<model, gen, switching>>
      /\ \A q \in Procs \ {g} : work'[q] = work[q]
  BY Fields, AroundMoves, Constants DEF TypeInv, AroundMoved
<1>2. \A q \in Procs \ {g} : /\ q \in Gens => (Turned(q) <=> Turned(q)')
                             /\ Owes(q) <=> Owes(q)'
  BY <1>1 DEF Turned, Owes, Overtook
<1>3. CASE Deadline(g)
  <2>1. UNCHANGED <<wire, hurt, switchVars>> /\ work'[g] = [w EXCEPT !.dead = TRUE]
    BY <1>1, <1>3, Come DEF Deadline, others
  <2>2. /\ work'[g].at = w.at /\ work'[g].model = w.model /\ work'[g].put = w.put /\ work'[g].again = w.again
        /\ work'[g].seen = w.seen
    BY <1>1, <2>1 DEF Works
  <2> QED  BY <1>1, <2>1, <2>2, WireKept
<1>4. ASSUME ~Deadline(g) PROVE work'[g].at \in Parting \/ (Rehands(g) /\ work'[g].at = "probe" /\ work'[g].model = model)
  BY <1>4, AroundFields
<1>5. hurt => hurt'
  BY DEF Around, Deadline, Panic, Overtaken, Rehands, Rehanded, Landed, FitsBudget, TriesTurn, Tidies, Warms, Ends, rest
<1>6. ~Deadline(g) => WireOf'
  <2> SUFFICES ASSUME ~Deadline(g) PROVE WireOf'
    OBVIOUS
  <2>1. work'[g].at \notin {"write", "show"} /\ (work'[g].at \in InModel => work'[g].model = model)
    BY <1>4 DEF Parting, InModel, inApply
  <2>2. \A k \in Gens : (work[k].at \in InModel /\ ~Overtook(k) => work[k].model = model)'
    BY <1>1, <2>1, Constants DEF WireOf, Overtook
  <2>3. \A q \in Procs : (work[q].at = "write" => work[q].put > 0 \/ hurt \/ NoWindow(work[q].model))'
    BY <1>1, <1>5, <2>1 DEF WireOf, NoWindow
  <2>4. \A q \in Procs : (work[q].at = "show" => Conf[work[q].model] = 0)'
    BY <1>1, <2>1 DEF WireOf
  <2> QED  BY <2>2, <2>3, <2>4 DEF WireOf
\* The wire stays, and g was not to take it back.
<1>7. ASSUME wire' = wire, ~Turned(g), hurt' \/ ~Owes(g) \/ Owes(g)'
      PROVE  Wired'
  <2>1. (\E k \in Gens : Turned(k)) => \E k \in Gens : Turned(k)'
    BY <1>2, <1>7, Constants
  <2>2. ~hurt' /\ (\E q \in Procs : Owes(q)) => \E q \in Procs : Owes(q)'
    BY <1>1, <1>2, <1>7
  <2> QED  BY <1>1, <1>5, <1>7, <2>1, <2>2 DEF Wired, NoWindow
\* The wire is taken back, and g goes on or has failed.
<1>8. ASSUME wire' = Cleared, hurt' \/ Owes(g)'
      PROVE  Wired'
  <2>1. wire'.num = 0
    BY <1>8 DEF Cleared, TypeInv, WireType
  <2> QED  BY <1>1, <1>8, <2>1 DEF Wired
<1>9. CASE Panic(g) /\ ~Deadline(g)
  <2>1. wire' = wire /\ hurt' /\ w.at # "back"
    BY <1>9 DEF Panic
  <2>2. ~Turned(g)
    BY <2>1 DEF Turned
  <2> QED  BY <1>6, <1>7, <1>9, <2>1, <2>2
<1>10. CASE Overtaken(g)
  <2>1. wire' = Cleared /\ Comes(g, [NoWork EXCEPT !.at = "again"])
    BY <1>10 DEF Overtaken
  <2>2. work'[g].at = "again"
    BY <1>1, <2>1, Come, Fresh DEF NoWork
  <2>3. Owes(g)' /\ ~Deadline(g)
    BY <1>10, <2>2 DEF Owes, Deadline, Overtaken, At, inApply
  <2> QED  BY <1>6, <1>8, <2>1, <2>3
<1>11. CASE Rehands(g)
  <2>1. wire' = wire /\ w.at = "again"
    BY <1>11 DEF Rehands, At
  <2>2. ~Deadline(g) /\ work'[g].at = "probe"
    <3>1. ~Deadline(g)
      BY <2>1 DEF Deadline, inApply
    <3>2. Comes(g, [Starts(model) EXCEPT !.again = TRUE, !.seen = gen, !.tries = w.tries + 1])
      BY <1>11 DEF Rehands
    <3>3. work'[g] = [Starts(model) EXCEPT !.again = TRUE, !.seen = gen, !.tries = w.tries + 1]
      BY <1>1, <3>2, Come
    <3>4. work'[g].at = "probe"
      BY <3>3 DEF Starts, NoWork
    <3> QED  BY <3>1, <3>4
  <2>3. ~Turned(g) /\ Owes(g)'
    BY <2>1, <2>2 DEF Turned, Owes, inApply
  <2> QED  BY <1>6, <1>7, <2>1, <2>2, <2>3
<1>12. CASE Rehanded(g)
  <2> DEFINE failed == w.put = -1 \/ w.dead
             over == w.seen # gen /\ GivesUp(w)
  <2>1. /\ w.at = "back" /\ w.again /\ ~Deadline(g)
        /\ wire' = IF failed \/ w.seen # gen THEN Cleared ELSE wire
        /\ failed \/ over => hurt'
    BY <1>12 DEF Rehanded, At, Deadline, inApply
  <2>2. ~failed /\ ~over /\ w.seen # gen => work'[g].at = "again"
    <3> SUFFICES ASSUME ~failed, ~over, w.seen # gen PROVE work'[g].at = "again"
      OBVIOUS
    <3>1. Comes(g, [NoWork EXCEPT !.at = "again", !.tries = w.tries])
      BY <1>12 DEF Rehanded
    <3>2. work'[g] = [NoWork EXCEPT !.at = "again", !.tries = w.tries]
      BY <1>1, <3>1, Come
    <3> QED  BY <3>2 DEF NoWork
  <2>3. CASE failed \/ w.seen # gen
    <3>1. wire' = Cleared /\ (hurt' \/ work'[g].at = "again")
      BY <2>1, <2>2, <2>3
    <3>2. hurt' \/ Owes(g)'
      BY <3>1 DEF Owes
    <3> QED  BY <1>6, <1>8, <2>1, <3>1, <3>2
  <2>4. CASE ~failed /\ w.seen = gen
    <3>1. wire' = wire /\ ~Turned(g) /\ ~Owes(g)
      BY <2>1, <2>4 DEF Turned, Overtook, Owes, inApply
    <3> QED  BY <1>6, <1>7, <2>1, <3>1
  <2> QED  BY <2>3, <2>4
<1>13. CASE Landed(g)
  <2>1. wire' = wire /\ ~Turned(g) /\ ~Owes(g) /\ ~Deadline(g)
    BY <1>13 DEF Landed, At, Stale, Turned, Overtook, Owes, Deadline, inApply
  <2> QED  BY <1>6, <1>7, <2>1
<1>14. CASE FitsBudget(g) \/ TriesTurn(g) \/ Tidies(g) \/ Warms(g) \/ Ends(g)
  <2>1. wire' = wire /\ w.at \in {"fits", "turn", "tidy", "warm", "end"}
    BY <1>14 DEF FitsBudget, TriesTurn, Tidies, Warms, Ends, At, rest
  <2>2. ~Turned(g) /\ ~Owes(g) /\ ~Deadline(g)
    BY <2>1 DEF Turned, Owes, Deadline, inApply
  <2> QED  BY <1>6, <1>7, <2>1, <2>2
<1> QED
  BY <1>3, <1>9, <1>10, <1>11, <1>12, <1>13, <1>14 DEF Around

LEMMA ServesWire ==
    ASSUME TypeInv, WireOf, Wired, Serves
    PROVE  WireOf' /\ Wired'
<1> USE DEF switchVars
<1>1. /\ ServesMoved /\ 0 \in Procs /\ Gens = Procs \ {0} /\ UNCHANGED <<model, gen, switching, hurt>>
      /\ work[0] \in Works /\ model \in Models /\ \A g \in Gens : work'[g] = work[g]
  BY ServesMoves, Fields, Constants DEF TypeInv, SwitchType, ServesMoved
<1>2. /\ work'[0].at \in inApply \/ work[0].at \notin inApply
      /\ work'[0].at \in {"write", "show"} =>
            work'[0].at = work[0].at /\ work'[0].put = work[0].put /\ work'[0].model = work[0].model
  <2>1. CASE work[0].at \in inApply /\ work'[0] = [work[0] EXCEPT !.dead = TRUE]
    BY <1>1, <2>1 DEF Works
  <2>2. CASE work'[0] = Starts(model)
    BY <1>1, <2>2, Fresh DEF inApply
  <2>3. CASE work[0].at \notin inApply /\ work'[0].at \in Serving
    BY <2>3 DEF Serving
  <2> QED  BY <1>1, <2>1, <2>2, <2>3 DEF ServesMoved
<1>3. \A g \in Gens : /\ Overtook(g)' = Overtook(g)
                      /\ Turned(g)' <=> Turned(g)
                      /\ Owes(g)' <=> Owes(g)
  BY <1>1 DEF Overtook, Turned, Owes
<1>4. Owes(0) => Owes(0)'
  BY <1>1, <1>2 DEF Owes
<1>5. WireOf'
  <2>1. \A g \in Gens : (work[g].at \in InModel /\ ~Overtook(g) => work[g].model = model)'
    BY <1>1, <1>3 DEF WireOf
  <2>2. \A q \in Procs : (work[q].at = "write" => work[q].put > 0 \/ hurt \/ NoWindow(work[q].model))'
    BY <1>1, <1>2 DEF WireOf, NoWindow
  <2>3. \A q \in Procs : (work[q].at = "show" => Conf[work[q].model] = 0)'
    BY <1>1, <1>2 DEF WireOf
  <2> QED  BY <2>1, <2>2, <2>3 DEF WireOf
<1>6. wire' = wire \/ wire'.by = "request"
  BY DEF Serves, Runs, Locks, Await, Wakes, Status, Adapts, Compares, Tells, Compacts, Send, Replied, Recovers,
         Recovered, Cancelled, Writes
<1>7. Wired'
  BY <1>1, <1>3, <1>4, <1>6 DEF Wired, NoWindow
<1> QED  BY <1>5, <1>7

LEMMA SwitchWire ==
    ASSUME TypeInv, Waits, WireOf, Wired, \/ \E m \in Models : SetModel(m)
                                          \/ SwitchClears \/ ResolveModel
    PROVE  WireOf' /\ Wired'
<1>1. /\ gen \in 0 .. MaxGen /\ gen \in Nat /\ Procs \subseteq Nat /\ Gens = 1 .. MaxGen /\ Procs = Gens \cup {0}
      /\ model \in Models /\ \A p \in Procs : work[p].seen \in Nat /\ work[p].seen <= gen
  BY Fields, Constants DEF TypeInv, SwitchType, Carried, Gens, Procs
<1>2. CASE \E m \in Models : SetModel(m)
  <2>1. gen' = gen + 1 /\ switching' /\ UNCHANGED <<work, hurt>>
    BY <1>2 DEF SetModel
  <2>2. \A g \in Gens : work[g].at \in InModel => g <= gen
    BY <1>1 DEF Waits, InModel, inApply
  <2>3. \A g \in Gens : (work[g].at \in InModel => Overtook(g))'
    BY <1>1, <2>1, <2>2 DEF Overtook
  <2>4. WireOf'
    BY <2>1, <2>3 DEF WireOf, NoWindow
  <2>5. Wired'
    BY <2>1 DEF Wired
  <2> QED  BY <2>4, <2>5
<1>3. ASSUME NEW g \in Gens, work'[g] = Starts(model), \A q \in Procs \ {g} : work'[q] = work[q], gen' = g,
             model' = model, hurt' = hurt, \A k \in Gens : work[k].at \in InModel => gen' = gen
      PROVE  /\ WireOf' /\ Owes(g)'
             /\ gen = 0 => \A k \in Gens : Turned(k) => Turned(k)'
  <2>1. work'[g].at = "probe" /\ work'[g].model = model
    BY <1>1, <1>3, Fresh
  <2>2. Owes(g)'
    BY <2>1 DEF Owes, inApply
  <2>3. \A k \in Gens : (work[k].at \in InModel /\ ~Overtook(k) => work[k].model = model)'
    BY <1>1, <1>3, <2>1 DEF WireOf, Overtook
  <2>4. \A q \in Procs : (work[q].at = "write" => work[q].put > 0 \/ hurt \/ NoWindow(work[q].model))'
    BY <1>3, <2>1 DEF WireOf, NoWindow
  <2>5. \A q \in Procs : (work[q].at = "show" => Conf[work[q].model] = 0)'
    BY <1>3, <2>1 DEF WireOf
  <2>6. gen = 0 => \A k \in Gens : ~Turned(k)
    BY <1>1, <1>3 DEF Turned, InModel
  <2> QED  BY <2>2, <2>3, <2>4, <2>5, <2>6 DEF WireOf
<1>4. CASE SwitchClears
  <2>1. gen \in Gens /\ gen' = gen /\ model' = model /\ hurt' = hurt /\ wire' = Cleared /\ Comes(gen, Starts(model))
    BY <1>1, <1>4 DEF SwitchClears, Waits
  <2>2. work'[gen] = Starts(model) /\ \A q \in Procs \ {gen} : work'[q] = work[q]
    BY <1>1, <2>1, Come DEF TypeInv
  <2>3. WireOf' /\ Owes(gen)'
    BY <1>3, <2>1, <2>2
  <2>4. wire'.num = 0
    BY <2>1 DEF Cleared, TypeInv, WireType
  <2> QED  BY <1>1, <2>1, <2>3, <2>4 DEF Wired
<1>5. CASE ResolveModel
  <2>1. 1 \in Gens /\ gen = 0 /\ gen' = 1 /\ UNCHANGED <<model, hurt, wire, switching>> /\ Comes(1, Starts(model))
    BY <1>1, <1>5, Constants DEF ResolveModel, TypeInv, BoundType
  <2>2. work'[1] = Starts(model) /\ \A q \in Procs \ {1} : work'[q] = work[q]
    BY <1>1, <2>1, Come DEF TypeInv
  <2>3. \A k \in Gens : work[k].at = "none"
    BY <1>1, <2>1 DEF Waits
  <2>4. WireOf' /\ Owes(1)'
    BY <1>3, <2>1, <2>2, <2>3 DEF InModel, inApply
  <2>5. \A k \in Gens : ~Turned(k)
    BY <2>3 DEF Turned
  <2> QED  BY <1>1, <2>1, <2>4, <2>5 DEF Wired
<1> QED  BY <1>2, <1>4, <1>5

LEMMA WireStep == TypeInv /\ QInv /\ Waits /\ WireOf /\ Wired /\ [Next]_vars => WireOf' /\ Wired'
<1> SUFFICES ASSUME TypeInv, QInv, Waits, WireOf, Wired, [Next]_vars PROVE WireOf' /\ Wired'
  OBVIOUS
<1>1. CASE Prefills \/ (\E m \in Models, n \in 0 .. MaxSize : Meddle(m, n)) \/ UNCHANGED vars
  <2>1. UNCHANGED <<work, switchVars, wire, hurt>>
    BY <1>1 DEF Prefills, Meddle, vars, switchVars
  <2> QED  BY <2>1, WireKept
<1> QED  BY <1>1, Steps, ApplyWire, AroundWire, ServesWire, SwitchWire

-----------------------------------------------------------------------------
(* The properties *)

LEMMA InitInv == Init => Inv
<1> SUFFICES ASSUME Init PROVE Inv
  OBVIOUS
<1>1. TypeInv
  BY InitTypes
<1>2. \A p \in Procs : work[p].at \in {"idle", "none"} /\ ~work[p].claim /\ (p # 0 => work[p].at = "none")
  BY Fresh DEF Init
<1>3. Questions /\ Rules
  BY <1>2 DEF Init, Questions, Rules
<1>4. Waits
  BY <1>2, Constants DEF Init, Waits, LetThrough
<1>5. WireOf
  BY <1>2, Constants DEF WireOf, InModel, inApply
<1>6. Wired
  <2>1. server[model] \in 0 .. MaxSize /\ Conf[model] \in 0 .. MaxSize /\ Own[model] \in 0 .. MaxSize
    BY Constants DEF Init
  <2>2. window = IF Conf[model] > 0 /\ (server[model] = 0 \/ now.mode = "always") THEN Conf[model]
                 ELSE IF server[model] > 0 THEN server[model] ELSE Own[model]
    BY DEF Init
  <2>3. window = 0 => NoWindow(model)
    BY <2>1, <2>2, Constants DEF NoWindow
  <2>4. wire.num = window /\ wire.of = model
    BY DEF Init
  <2> QED  BY <2>3, <2>4 DEF Wired
<1> QED  BY <1>1, <1>3, <1>4, <1>5, <1>6 DEF Inv

LEMMA InvHolds == Spec => []Inv
<1>1. Inv /\ [Next]_vars => Inv'
  BY TypeStep, AskStep, WaitStep, WireStep DEF Inv, QInv
<1> QED  BY <1>1, InitInv, PTL DEF Spec

\* Every field holds a value of its type, the sizes on the wire and in the
\* budget among them, and the rounds of a hand-back stay within
\* maxResolveRetries (reapplyCurrent in loop.go).
THEOREM TypeCorrect == Spec => []TypeOK
<1>1. Inv => TypeOK
  BY DEF Inv, TypeInv, TypeOK, SwitchType, WaitType, WireType, BudgetType, AskType, WorkType, TurnType, ServerType,
         BoundType
<1> QED  BY <1>1, InvHolds, PTL

\* When every resolution is over, what they have left on the wire is the window
\* of the session's model, in whatever order the backend answered them, or
\* nothing after a failure (resolveModel and reapplyCurrent in loop.go).
THEOREM WireEndsRight == Spec => []WireSettles
<1>1. Inv => WireSettles
  <2> SUFFICES ASSUME Inv, ~switching, wire.by = "loader", \A g \in Gens : work[g].at \in {"none", "done"},
                      work[0].at \notin inApply
               PROVE  \/ wire.num > 0 /\ wire.of = model
                      \/ wire.num = 0 /\ (hurt \/ NoWindow(model))
    BY DEF WireSettles, NoWindow
  <2>1. wire.num \in Nat
    BY Constants DEF Inv, TypeInv, WireType
  <2>2. \A g \in Gens : ~Turned(g)
    BY DEF Turned
  <2>3. \A p \in Procs : ~Owes(p)
    BY <2>2, Constants DEF Owes, inApply
  <2> QED  BY <2>1, <2>2, <2>3 DEF Inv, Wired
<1> QED  BY <1>1, InvHolds, PTL

\* A question is asked of nobody who has answered it or is asked it now.
LEMMA AsksOnce ==
    ASSUME Inv, [Next]_vars, NEW m \in asking' \ asking
    PROVE  m \notin asked \cup asking
<1>1. CASE \E p \in Procs : Applies(p)
  BY <1>1 DEF Applies, Apply, ProbeFails, Probe, Show, Reconciles, StopsWaiting, Claims, Withdrawn, Write, Answer,
              Released, askVars
<1>2. CASE \E g \in Gens : Around(g)
  BY <1>2 DEF Around, Deadline, Panic, Overtaken, Rehands, Rehanded, Landed, FitsBudget, TriesTurn, Tidies, Warms, Ends,
              Released, askVars, rest
<1>3. CASE Serves
  BY <1>3, ServesMoves DEF Inv, ServesMoved, askVars
<1> QED
  BY <1>1, <1>2, <1>3, Steps DEF SetModel, SwitchClears, ResolveModel, Prefills, Meddle, vars, askVars

\* Nobody but its writer brings a resolution from the write to what follows.
LEMMA WritesRule ==
    ASSUME Inv, [Next]_vars, NEW p \in Procs, work[p].at = "write", work'[p].at = "back"
    PROVE  Write(p)
<1>1. CASE \E q \in Procs : Applies(q)
  <2>1. PICK q \in Procs : Applies(q)
    BY <1>1
  <2>2. q = p
    BY <2>1, ApplyMoves DEF Inv, ApplyMoved
  <2>3. StopsWaiting(p) \/ Write(p)
    BY <2>1, <2>2, ApplyWrites DEF Inv, QInv
  <2> QED  BY <2>3 DEF StopsWaiting, At
<1>2. CASE \E g \in Gens : Around(g)
  <2>1. PICK g \in Gens : Around(g)
    BY <1>2
  <2>2. g = p /\ work[g] \in Works
    BY <2>1, AroundMoves, Fields DEF Inv, TypeInv, AroundMoved
  <2>3. ~Panic(g)
    BY <2>2 DEF Panic
  <2>4. work'[g] = [work[g] EXCEPT !.dead = TRUE]
    BY <2>1, <2>2, <2>3, AroundFields DEF Inv, inApply
  <2> QED  BY <2>2, <2>4 DEF Works
<1>3. CASE Serves
  <2>1. ServesMoved /\ work[0] \in Works /\ 0 \in Procs
    BY <1>3, ServesMoves, Fields, Constants DEF Inv, TypeInv
  <2>2. p = 0
    BY <2>1, Constants DEF ServesMoved
  <2>3. work'[0] = [work[0] EXCEPT !.dead = TRUE]
    BY <2>1, <2>2 DEF ServesMoved, inApply
  <2> QED  BY <2>1, <2>2, <2>3 DEF Works
<1>4. ASSUME NEW g \in Procs, work[g].at = "none", Comes(g, Starts(model)) PROVE FALSE
  BY <1>4, Come DEF Inv, TypeInv
<1>5. CASE SwitchClears \/ ResolveModel
  <2>1. gen \in Procs /\ (1 \in Gens => 1 \in Procs) /\ (ResolveModel => gen = 0 /\ 1 \in Gens)
    BY Constants DEF Inv, TypeInv, SwitchType, BoundType, Procs, Gens, ResolveModel
  <2>2. \/ work[gen].at = "none" /\ Comes(gen, Starts(model))
        \/ work[1].at = "none" /\ Comes(1, Starts(model)) /\ 1 \in Gens
    BY <1>5, <2>1 DEF SwitchClears, ResolveModel, Inv, Waits
  <2> QED  BY <1>4, <2>1, <2>2
<1> QED
  BY <1>1, <1>2, <1>3, <1>5, Steps DEF SetModel, Prefills, Meddle, vars

\* A person is asked once for a model and by one caller at a time, and what a
\* caller that found it held at another size puts on the wire is what was
\* answered (Loader.reconcile in loader.go).
THEOREM AnswersRule == Spec => AnswerRules
<1> DEFINE A ==
      /\ \A m \in asking' \ asking : m \notin asked \cup asking
      /\ \A p \in Procs : work[p].at = "write" /\ work'[p].at = "back" /\ work[p].saw > 0 /\ now.mode = "ask"
          => wire'.num = IF work[p].model \in agreed THEN Conf[work[p].model] ELSE work[p].saw
<1>1. Inv /\ [Next]_vars => A
  <2> SUFFICES ASSUME Inv, [Next]_vars,
                      NEW p \in Procs, work[p].at = "write", work'[p].at = "back", work[p].saw > 0, now.mode = "ask"
               PROVE  wire'.num = IF work[p].model \in agreed THEN Conf[work[p].model] ELSE work[p].saw
    BY AsksOnce
  <2>1. Ruled(work[p]) /\ work[p].model \in Models
    BY DEF Inv, Rules, TypeInv, Carried, InModel, inApply
  <2>2. work[p].saw \in Nat /\ Conf[work[p].model] \in Nat
    BY <2>1, Fields, Constants DEF Inv, TypeInv
  <2>3. wire'.num = IF work[p].put > 0 THEN work[p].put ELSE 0
    <3>1. Writes(IF work[p].put > 0 THEN work[p].put ELSE 0, work[p].model, p)
      BY WritesRule DEF Write
    <3> QED  BY <3>1 DEF Writes
  <2> QED  BY <2>1, <2>2, <2>3 DEF Ruled
<1>2. Spec => [][A]_vars
  BY <1>1, InvHolds, PTL DEF Spec
<1> QED  BY <1>2 DEF AnswerRules

\* A request that has met no switch since it was let through goes out when the
\* resolution of its model is over (awaitWindow and endResolve in loop.go).
THEOREM RequestsWaitOut == Spec => WaitsOut
<1> DEFINE A == work[0].at = "send" /\ work'[0].at \in {"reply", "refused"} /\ work[0].seen = gen /\ gen > 0
                  => work[gen].at = "done"
<1>1. Inv => A
  BY DEF Inv, Waits, LetThrough
<1>2. Spec => [][A]_vars
  BY <1>1, InvHolds, PTL DEF Spec
<1> QED  BY <1>2 DEF WaitsOut
=============================================================================
