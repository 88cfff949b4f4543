------------------------------ MODULE JobLines ------------------------------
(***************************************************************************)
(* What a running job and the main model say to each other: the job's      *)
(* questions, stall notices and hand-back (internal/agent/jobs.go,         *)
(* inbox.go, supervisor.go and the ends of runSub and askMain in           *)
(* subagents.go).                                                          *)
(*                                                                         *)
(* Every line goes to the agent's queue first and to the run's event       *)
(* channel second.  A turn takes the whole queue before each model call; a *)
(* `jobs wait` takes an event and then its line out of the queue.  The     *)
(* queue has its own lock, never taken under the runner's mu, so a         *)
(* decision made under one is carried out under the other a step later.    *)
(* Nothing here depends on the order of the queue's lines: a turn takes    *)
(* them all, in one step, and RemoveWhere takes every copy of one.         *)
(*                                                                         *)
(* Module SubAgents has how a job gets its slot and its step; here a job   *)
(* is dispatched in one step.  Any time may pass between two steps, so     *)
(* each sweep of the supervisor finds some set of jobs quiet for           *)
(* stall_after and some set past max_runtime, and what only restarts a     *)
(* clock (a wait's end, a reply put in the job's own inbox) is no step.    *)
(***************************************************************************)
EXTENDS Integers, Sequences

CONSTANTS
    Jobs,       \* jobs dispatched in the session, in document order
    Texts,      \* what a question may say
    MaxAsks,    \* questions one job asks (a bound)
    EventCap,   \* the capacity of a run's event channel, 8 in the code
    Limit,      \* the stall that stops a job: 3, on a headless run 2
    Repliers,   \* who answers: the main model's turn, the operator's /task reply
    None

Reasons == {"stopped", "stalled", "out of time"}

ASSUME JobLinesAssumption ==
    /\ Jobs \subseteq Nat /\ None \notin Texts \cup Jobs /\ None \notin Reasons
    /\ MaxAsks \in Nat /\ EventCap \in Nat \ {0, 1} /\ Limit \in Nat \ {0, 1}
    /\ "main" \in Repliers

\* A line of the queue.  Two of one job and kind are told apart by their text
\* only; a stall notice says which stall it is.
Lines == [job : Jobs, kind : {"ask"}, text : Texts]
             \cup [job : Jobs, kind : {"stall"}, text : 1 .. Limit - 1]
             \cup [job : Jobs, kind : {"done"}, text : {None}]
Line(j, kind, text) == [job |-> j, kind |-> kind, text |-> text]
HandBackLine(j) == Line(j, "done", None)

\* None is the empty string, which no line is.
ASSUME NoneAssumption == None \notin Lines

VARIABLES
    phase,      \* where each job's goroutine is
    saying,     \* the text of the question askMain is about to queue or send
    asks,       \* how many questions it has asked: the number of its last one
    question,   \* subRun.question, as the number of the open ask, 0 for ""
    askLine,    \* subRun.askLine
    reply,      \* subRun.reply: the number of the ask the answer was for, or 0
    timedOut, cancelled,
    stopReason,
    stalls, stalled, stallLine,
    events,     \* subRun.events
    queue,      \* inbox.items: how often each of the jobs' lines is queued
    answering,  \* ReplyAsk between its lock and its send
    main,       \* the main model's turn, or where its JobWait is
    sup,        \* where the supervisor's sweep is
    handed      \* times the hand-back was put to the main model (history)

run == <<phase, saying>>
ask == <<asks, question, askLine, reply, timedOut>>
stop == <<cancelled, stopReason>>
stall == <<stalls, stalled, stallLine>>
talk == <<events, queue, handed>>
vars == <<run, ask, stop, stall, talk, answering, main, sup>>

\* In s.runs; in s.jobsDone.
Alive == {"starting", "working", "clearing", "asking", "asked", "queued",
          "lined", "parked", "answered", "ended"}
Gone == {"removed", "handing", "told", "closed"}
Running(j) == phase[j] \in Alive
Finished(j) == phase[j] \in Gone

\* Where run.waiting is "" for long enough to matter: an ask is a tool call,
\* a wait from its start to its end.
Quietable(j) == phase[j] \in {"starting", "working", "ended"}

-----------------------------------------------------------------------------
\* The queue and the event channel.

Queued(line) == queue[line] > 0
Unread == {line \in Lines : Queued(line)}

Enqueue(line) == queue' = [queue EXCEPT ![line] = @ + 1]

\* RemoveWhere, by text: every copy goes.
Without(line) == [queue EXCEPT ![line] = 0]
Empty == [line \in Lines |-> 0]

\* Mutant: a full channel drops the new event.
SendEventFirst(j, line) ==
    events' = [events EXCEPT ![j] = IF Len(@) < EventCap THEN Append(@, line) ELSE @]

\* Never blocks: a full channel drops its oldest event.
SendEvent(j, line) ==
    events' = [events EXCEPT ![j] =
        Append(IF Len(@) < EventCap THEN @ ELSE Tail(@), line)]

\* The main model reads lines, each as often as it is among them.
Reads(lines) == handed' = [j \in Jobs |-> handed[j] + lines[HandBackLine(j)]]

-----------------------------------------------------------------------------
\* The job's goroutine.

Phase(j, from, to) == phase[j] \in from /\ phase' = [phase EXCEPT ![j] = to]

\* DispatchJob installs the run and starts it.
Dispatch(j) ==
    /\ Phase(j, {"none"}, "starting")
    /\ UNCHANGED <<saying, ask, stop, stall, talk, answering, main, sup>>

\* runSub after the consent, with the scratch agent installed.
Starts(j) ==
    /\ Phase(j, {"starting"}, "working")
    /\ UNCHANGED <<saying, ask, stop, stall, talk, answering, main, sup>>

\* noteActivity, its part under mu: a tool call ended or output came.
NoteActivity(j) ==
    /\ phase[j] \in {"working", "answered"}
    /\ stalls' = [stalls EXCEPT ![j] = 0]
    /\ stalled' = [stalled EXCEPT ![j] = FALSE]
    /\ phase' = [phase EXCEPT ![j] = IF stalled[j] THEN "clearing" ELSE "working"]
    /\ UNCHANGED <<saying, ask, stop, stallLine, talk, answering, main, sup>>

\* ... and its RemoveWhere, after.
TakesNoticeBack(j) ==
    /\ Phase(j, {"clearing"}, "working")
    /\ queue' = Without(stallLine[j])
    /\ UNCHANGED <<saying, ask, stop, stall, events, handed, answering, main, sup>>

\* Run returns with an answer or an error; a refused consent, a provider
\* that cannot be built and a recovered panic end a run that never started.
RunEnds(j) ==
    /\ Phase(j, {"starting", "working"}, "ended")
    /\ UNCHANGED <<saying, ask, stop, stall, talk, answering, main, sup>>

-----------------------------------------------------------------------------
\* askMain.  The calls of one response run one after the other with no look
\* at the context, so a job may ask again although it was cancelled.

\* An answer left in the buffer belonged to a question that timed out.
AskDrains(j) ==
    /\ asks[j] < MaxAsks
    /\ Phase(j, {"working"}, "asking")
    /\ reply' = [reply EXCEPT ![j] = 0]
    /\ UNCHANGED <<saying, asks, question, askLine, timedOut, stop, stall, talk, answering, main, sup>>

\* Refused while an earlier question is still open.
AskRefused(j) ==
    /\ question[j] # 0
    /\ Phase(j, {"asking"}, "answered")
    /\ UNCHANGED <<saying, ask, stop, stall, talk, answering, main, sup>>

AskRegisters(j, text) ==
    /\ question[j] = 0
    /\ Phase(j, {"asking"}, "asked")
    /\ saying' = [saying EXCEPT ![j] = text]
    /\ asks' = [asks EXCEPT ![j] = @ + 1]
    /\ question' = [question EXCEPT ![j] = asks[j] + 1]
    /\ askLine' = [askLine EXCEPT ![j] = None]
    /\ UNCHANGED <<reply, timedOut, stop, stall, talk, answering, main, sup>>

AskQueues(j) ==
    /\ Phase(j, {"asked"}, "queued")
    /\ Enqueue(Line(j, "ask", saying[j]))
    /\ UNCHANGED <<saying, ask, stop, stall, events, handed, answering, main, sup>>

AskLined(j) ==
    /\ Phase(j, {"queued"}, "lined")
    /\ askLine' = [askLine EXCEPT ![j] = Line(j, "ask", saying[j])]
    /\ UNCHANGED <<saying, asks, question, reply, timedOut, stop, stall, talk, answering, main, sup>>

AskSends(j) ==
    /\ Phase(j, {"lined"}, "parked")
    /\ SendEvent(j, Line(j, "ask", saying[j]))
    /\ saying' = [saying EXCEPT ![j] = None]
    /\ UNCHANGED <<ask, stop, stall, queue, handed, answering, main, sup>>

\* The three ways out of the select; the tool call ends with each.
Answered(j) ==
    /\ reply[j] # 0
    /\ Phase(j, {"parked"}, "answered")
    /\ reply' = [reply EXCEPT ![j] = 0]
    /\ UNCHANGED <<saying, asks, question, askLine, timedOut, stop, stall, talk, answering, main, sup>>

AskTimesOut(j) ==
    /\ Phase(j, {"parked"}, "answered")
    /\ timedOut' = [timedOut EXCEPT ![j] = TRUE]
    /\ cancelled' = [cancelled EXCEPT ![j] = TRUE]
    /\ UNCHANGED <<saying, asks, question, askLine, reply, stopReason, stall, talk, answering, main, sup>>

AskCancelled(j) ==
    /\ cancelled[j]
    /\ Phase(j, {"parked"}, "answered")
    /\ UNCHANGED <<saying, ask, stop, stall, talk, answering, main, sup>>

-----------------------------------------------------------------------------
\* The end of runSub.

\* settleSub closes the step (module SubAgents); then endLine and jobsDone are
\* written with the delete from runs.
Removes(j) ==
    /\ Phase(j, {"ended"}, "removed")
    /\ UNCHANGED <<saying, ask, stop, stall, talk, answering, main, sup>>

HandsBack(j) ==
    /\ Phase(j, {"removed"}, "handing")
    /\ Enqueue(HandBackLine(j))
    /\ UNCHANGED <<saying, ask, stop, stall, events, handed, answering, main, sup>>

SendsHandBack(j) ==
    /\ Phase(j, {"handing"}, "told")
    /\ SendEvent(j, HandBackLine(j))
    /\ UNCHANGED <<saying, ask, stop, stall, queue, handed, answering, main, sup>>

\* close(done), after the run's parting schedule.
Closes(j) ==
    /\ Phase(j, {"told"}, "closed")
    /\ UNCHANGED <<saying, ask, stop, stall, talk, answering, main, sup>>

-----------------------------------------------------------------------------
\* The supervisor: one sweep is a look at the queue, one critical section
\* over every job, then each decision carried out.

Idle == [at |-> "idle", read |-> {}, acts |-> {}]

SweepReads ==
    /\ sup.at = "idle"
    /\ sup' = [sup EXCEPT !.at = "judging", !.read = {l \in Unread : l.kind = "stall"}]
    /\ UNCHANGED <<run, ask, stop, stall, talk, answering, main>>

\* Mutant: an unread notice holds nothing back.
NoticeUnreadNever(j) == FALSE

\* Mutant: a job on its way out is judged again.
JudgedAgain(j) == Running(j)

\* What a sweep says of one job: nothing of one already on its way out, or
\* whose last notice is unread.
Judged(j) == Running(j) /\ stopReason[j] = None
NoticeUnread(j) == stallLine[j] \in sup.read

SweepJudges(quiet, late) ==
    LET spent == {j \in late : Judged(j)}
        stalling == {j \in quiet \ spent : Judged(j) /\ Quietable(j) /\ ~NoticeUnread(j)}
        stopping == {j \in stalling : stalls[j] + 1 >= Limit}
        noticed == stalling \ stopping
        notice == [j \in Jobs |-> Line(j, "stall", stalls[j] + 1)]
        acts == {[job |-> j, line |-> notice[j]] : j \in noticed}
                    \cup {[job |-> j, line |-> None] : j \in spent \cup stopping}
    IN  /\ sup.at = "judging"
        /\ stopReason' = [j \in Jobs |-> IF j \in spent THEN "out of time"
                              ELSE IF j \in stopping THEN "stalled" ELSE stopReason[j]]
        /\ stalls' = [j \in Jobs |-> IF j \in stalling THEN stalls[j] + 1 ELSE stalls[j]]
        /\ stalled' = [j \in Jobs |-> stalled[j] \/ j \in stalling]
        /\ stallLine' = [j \in Jobs |-> IF j \in noticed THEN notice[j] ELSE stallLine[j]]
        /\ sup' = IF acts = {} THEN Idle ELSE [at |-> "acting", read |-> {}, acts |-> acts]
        /\ UNCHANGED <<run, ask, cancelled, talk, answering, main>>

\* The decisions are carried out in document order.
Acting(at) == sup.at = at
TheAct == CHOOSE a \in sup.acts : \A b \in sup.acts : a.job <= b.job
ActDone == sup' = IF sup.acts = {TheAct} THEN Idle
                  ELSE [sup EXCEPT !.at = "acting", !.acts = @ \ {TheAct}]

\* The second look under mu, before the notice is queued.
StillStalled(a) == Running(a.job) /\ stalled[a.job] /\ stallLine[a.job] = a.line

ActRechecks ==
    /\ Acting("acting") /\ TheAct.line # None
    /\ IF StillStalled(TheAct) THEN sup' = [sup EXCEPT !.at = "queueing"] ELSE ActDone
    /\ UNCHANGED <<run, ask, stop, stall, talk, answering, main>>

ActQueues ==
    /\ Acting("queueing")
    /\ Enqueue(TheAct.line)
    /\ sup' = [sup EXCEPT !.at = "sending"]
    /\ UNCHANGED <<run, ask, stop, stall, events, handed, answering, main>>

ActSends ==
    /\ Acting("sending")
    /\ SendEvent(TheAct.job, TheAct.line)
    /\ ActDone
    /\ UNCHANGED <<run, ask, stop, stall, queue, handed, answering, main>>

\* Mutant: the second look is asked of a stop, too.
ActCancelsStalled ==
    /\ Acting("acting") /\ TheAct.line = None
    /\ cancelled' = [cancelled EXCEPT ![TheAct.job] = @ \/ stalled[TheAct.job]]
    /\ ActDone
    /\ UNCHANGED <<run, ask, stopReason, stall, talk, answering, main>>

ActCancels ==
    /\ Acting("acting") /\ TheAct.line = None
    /\ cancelled' = [cancelled EXCEPT ![TheAct.job] = TRUE]
    /\ ActDone
    /\ UNCHANGED <<run, ask, stopReason, stall, talk, answering, main>>

-----------------------------------------------------------------------------
\* The main model's turn, and the operator beside it.

NoAnswer == [job |-> None, ask |-> 0]
AtTurn == [at |-> "turn", waits |-> {}, got |-> None, open |-> {}]
InTurn == main.at = "turn" /\ answering["main"] = NoAnswer
Free(r) == answering[r] = NoAnswer /\ (r = "main" => InTurn)

\* deliverInbox before a model call, or the turn an idle UI starts.
Deliver ==
    /\ InTurn /\ Unread # {}
    /\ Reads(queue)
    /\ queue' = Empty
    /\ UNCHANGED <<run, ask, stop, stall, events, answering, main, sup>>

\* JobStop and StopSubAgent.
Stops(j) ==
    /\ Running(j)
    /\ stopReason' = [stopReason EXCEPT ![j] = "stopped"]
    /\ cancelled' = [cancelled EXCEPT ![j] = TRUE]
    /\ UNCHANGED <<run, ask, stall, talk, answering, main, sup>>

\* Mutant: the last question is answered whether or not it is open.
ReplyClaimsUnasked(r, j) ==
    /\ Free(r) /\ Running(j) /\ asks[j] # 0
    /\ question' = [question EXCEPT ![j] = 0]
    /\ answering' = [answering EXCEPT ![r] = [job |-> j, ask |-> asks[j]]]
    /\ UNCHANGED <<run, asks, askLine, reply, timedOut, stop, stall, talk, main, sup>>

\* ReplyAsk up to its unlock, then its send, which blocks while the buffer
\* of one is full.
ReplyClaims(r, j) ==
    /\ Free(r) /\ Running(j) /\ question[j] # 0
    /\ question' = [question EXCEPT ![j] = 0]
    /\ answering' = [answering EXCEPT ![r] = [job |-> j, ask |-> question[j]]]
    /\ UNCHANGED <<run, asks, askLine, reply, timedOut, stop, stall, talk, main, sup>>

ReplySends(r) ==
    /\ answering[r] # NoAnswer /\ reply[answering[r].job] = 0
    /\ reply' = [reply EXCEPT ![answering[r].job] = answering[r].ask]
    /\ answering' = [answering EXCEPT ![r] = NoAnswer]
    /\ UNCHANGED <<run, asks, question, askLine, timedOut, stop, stall, talk, main, sup>>

\* JobExtend.
Extends(j) ==
    /\ InTurn /\ Running(j)
    /\ stalled' = [stalled EXCEPT ![j] = FALSE]
    /\ UNCHANGED <<run, ask, stop, stalls, stallLine, talk, answering, main, sup>>

-----------------------------------------------------------------------------
\* JobWait, on one job or on all that run.

WaitBegins(js) ==
    /\ InTurn /\ js # {} /\ \A j \in js : Running(j)
    /\ main' = [main EXCEPT !.at = "looking", !.waits = js]
    /\ UNCHANGED <<run, ask, stop, stall, talk, answering, sup>>

WaitOne(j) == WaitBegins({j})
WaitAny == WaitBegins({j \in Jobs : Running(j)})

WaitOnFinished(j) ==
    /\ InTurn /\ Finished(j)
    /\ main' = [main EXCEPT !.at = "taking", !.got = HandBackLine(j)]
    /\ UNCHANGED <<run, ask, stop, stall, talk, answering, sup>>

\* openAskLine: the parked asks under mu, then the queue.
WaitLooks ==
    /\ main.at = "looking"
    /\ LET open == {j \in main.waits : Running(j) /\ question[j] # 0 /\ askLine[j] # None}
       IN  main' = [main EXCEPT !.at = "peeking", !.open = {askLine[j] : j \in open}]
    /\ UNCHANGED <<run, ask, stop, stall, talk, answering, sup>>

WaitPeeks ==
    /\ main.at = "peeking"
    /\ main' = IF \E line \in main.open : ~Queued(line) THEN AtTurn
               ELSE [main EXCEPT !.at = "waiting", !.open = {}]
    /\ UNCHANGED <<run, ask, stop, stall, talk, answering, sup>>

\* The select: an event, a closed done, or the deadline.
WaitHears(j) ==
    /\ main.at = "waiting" /\ j \in main.waits /\ events[j] # <<>>
    /\ main' = [main EXCEPT !.at = "judging", !.got = Head(events[j])]
    /\ events' = [events EXCEPT ![j] = Tail(@)]
    /\ UNCHANGED <<run, ask, stop, stall, queue, handed, answering, sup>>

WaitHearsEnd(j) ==
    /\ main.at = "waiting" /\ j \in main.waits /\ phase[j] = "closed"
    /\ main' = [main EXCEPT !.at = "taking", !.got = HandBackLine(j)]
    /\ UNCHANGED <<run, ask, stop, stall, talk, answering, sup>>

WaitTimesOut ==
    /\ main.at = "waiting"
    /\ main' = AtTurn
    /\ UNCHANGED <<run, ask, stop, stall, talk, answering, sup>>

\* jobEventLive.
Live(line) ==
    CASE line.kind = "done" -> TRUE
      [] line.kind = "ask" -> Running(line.job) /\ question[line.job] # 0
      [] line.kind = "stall" -> Running(line.job) /\ stalled[line.job]

WaitJudges ==
    /\ main.at = "judging"
    /\ main' = IF Live(main.got) THEN [main EXCEPT !.at = "taking"]
               ELSE [main EXCEPT !.at = "looking", !.got = None]
    /\ UNCHANGED <<run, ask, stop, stall, talk, answering, sup>>

\* Mutant: what the wait heard is returned whether or not it was queued.
WaitTakesAnyway ==
    /\ main.at = "taking"
    /\ queue' = Without(main.got)
    /\ Reads([Empty EXCEPT ![main.got] = 1])
    /\ main' = AtTurn
    /\ UNCHANGED <<run, ask, stop, stall, events, answering, sup>>

\* A line still queued is the answer; an unqueued hand-back is reported as
\* delivered earlier; any other unqueued line is stale and the wait goes on.
WaitTakes ==
    /\ main.at = "taking"
    /\ queue' = Without(main.got)
    /\ IF Queued(main.got) \/ main.got.kind = "done"
       THEN /\ main' = AtTurn
            /\ IF Queued(main.got) THEN Reads([Empty EXCEPT ![main.got] = 1]) ELSE UNCHANGED handed
       ELSE /\ main' = [main EXCEPT !.at = "looking", !.got = None]
            /\ UNCHANGED handed
    /\ UNCHANGED <<run, ask, stop, stall, events, answering, sup>>

-----------------------------------------------------------------------------
Init ==
    /\ phase = [j \in Jobs |-> "none"]
    /\ saying = [j \in Jobs |-> None]
    /\ asks = [j \in Jobs |-> 0]
    /\ question = [j \in Jobs |-> 0]
    /\ askLine = [j \in Jobs |-> None]
    /\ reply = [j \in Jobs |-> 0]
    /\ timedOut = [j \in Jobs |-> FALSE]
    /\ cancelled = [j \in Jobs |-> FALSE]
    /\ stopReason = [j \in Jobs |-> None]
    /\ stalls = [j \in Jobs |-> 0]
    /\ stalled = [j \in Jobs |-> FALSE]
    /\ stallLine = [j \in Jobs |-> None]
    /\ events = [j \in Jobs |-> <<>>]
    /\ queue = Empty
    /\ answering = [r \in Repliers |-> NoAnswer]
    /\ main = AtTurn
    /\ sup = Idle
    /\ handed = [j \in Jobs |-> 0]

JobStep(j) ==
    \/ Dispatch(j) \/ Starts(j) \/ NoteActivity(j) \/ TakesNoticeBack(j)
    \/ RunEnds(j)
    \/ AskDrains(j) \/ AskRefused(j)
    \/ \E text \in Texts : AskRegisters(j, text)
    \/ AskQueues(j) \/ AskLined(j) \/ AskSends(j)
    \/ Answered(j) \/ AskTimesOut(j) \/ AskCancelled(j)
    \/ Removes(j) \/ HandsBack(j) \/ SendsHandBack(j) \/ Closes(j)

Sweep ==
    \/ SweepReads
    \/ \E quiet, late \in SUBSET Jobs : SweepJudges(quiet, late)
    \/ ActRechecks \/ ActQueues \/ ActSends \/ ActCancels

WaitStep ==
    \/ WaitLooks \/ WaitPeeks \/ WaitTimesOut \/ WaitJudges \/ WaitTakes
    \/ \E j \in Jobs : WaitHears(j) \/ WaitHearsEnd(j)

MainStep ==
    \/ Deliver \/ WaitAny \/ WaitStep
    \/ \E j \in Jobs : WaitOne(j) \/ WaitOnFinished(j) \/ Extends(j)

Next ==
    \/ MainStep \/ Sweep
    \/ \E j \in Jobs : JobStep(j) \/ Stops(j)
    \/ \E r \in Repliers : ReplySends(r) \/ \E j \in Jobs : ReplyClaims(r, j)

Spec == Init /\ [][Next]_vars
\* Goroutines that can run do, time passes, and a turn's loop delivers the
\* queue before each model call however many waits lie between.  A job has to
\* do nothing by itself: it may stay in its model call until it is cancelled.
\* A cancelled job ends once the calls of its last response are through.
JobGoesOn(j) ==
    \/ TakesNoticeBack(j) \/ (phase[j] = "answered" /\ NoteActivity(j))
    \/ AskRefused(j) \/ \E text \in Texts : AskRegisters(j, text)
    \/ AskQueues(j) \/ AskLined(j) \/ AskSends(j)
    \/ Answered(j) \/ AskTimesOut(j) \/ AskCancelled(j)
    \/ Removes(j) \/ HandsBack(j) \/ SendsHandBack(j) \/ Closes(j)

Fairness ==
    /\ \A j \in Jobs :
        /\ WF_vars(JobGoesOn(j))
        /\ SF_vars(cancelled[j] /\ RunEnds(j))
        /\ SF_vars(\E late \in SUBSET Jobs : j \in late /\ SweepJudges({}, late))
    /\ \A r \in Repliers : WF_vars(ReplySends(r))
    /\ WF_vars(Sweep) /\ WF_vars(WaitStep) /\ SF_vars(Deliver)

FairSpec == Spec /\ Fairness

-----------------------------------------------------------------------------
\* The variables hold values of their types.
TypeOK ==
    /\ phase \in [Jobs -> Alive \cup Gone \cup {"none"}]
    /\ saying \in [Jobs -> Texts \cup {None}]
    /\ asks \in [Jobs -> 0 .. MaxAsks] /\ question \in [Jobs -> 0 .. MaxAsks]
    /\ reply \in [Jobs -> 0 .. MaxAsks]
    /\ askLine \in [Jobs -> Lines \cup {None}] /\ stallLine \in [Jobs -> Lines \cup {None}]
    /\ timedOut \in [Jobs -> BOOLEAN] /\ cancelled \in [Jobs -> BOOLEAN]
    /\ stopReason \in [Jobs -> Reasons \cup {None}]
    /\ stalls \in [Jobs -> 0 .. Limit] /\ stalled \in [Jobs -> BOOLEAN]
    /\ events \in [Jobs -> Seq(Lines)] /\ \A j \in Jobs : Len(events[j]) <= EventCap
    /\ queue \in [Lines -> Nat]
    /\ answering \in [Repliers -> {NoAnswer} \cup [job : Jobs, ask : 1 .. MaxAsks]]
    /\ main \in [at : {"turn", "looking", "peeking", "waiting", "judging", "taking"},
                 waits : SUBSET Jobs, got : Lines \cup {None}, open : SUBSET Lines]
    /\ sup \in [at : {"idle", "judging", "acting", "queueing", "sending"},
                read : SUBSET Lines, acts : SUBSET [job : Jobs, line : Lines \cup {None}]]
    /\ handed \in [Jobs -> Nat]

\* No hand-back is put to the main model twice, and one it has had is not in
\* the queue: the drain of a turn and the answer of a wait, which heard of
\* the same line through the channel, never both give it (dispatch-jobs
\* design section 4: "the main model never reads a line twice").
HandedOnce == \A j \in Jobs :
    handed[j] + queue[HandBackLine(j)] <= 1

\* A wait never sleeps beside news it would have to return: a job of its
\* parked on an open question, or stalled with the notice unread, has an
\* event for it in the channel, although the channel drops events, earlier
\* waits have thrown stale ones away and a turn may have read the line.
NoDeafWait == main.at = "waiting" => \A j \in main.waits :
    (\/ phase[j] = "parked" /\ question[j] # 0
     \/ Running(j) /\ stalled[j] /\ Queued(stallLine[j]) /\ sup.at # "sending")
        => events[j] # <<>>

\* Of one job there is never a second unread stall notice, and a sweep
\* counts no stall against a job whose notice is unread, although it reads
\* the queue before it takes mu and queues the notice after (supervisor.go:
\* "nothing is counted against a job whose notice nobody has seen").
NoticeRead == [][\A j \in Jobs :
    stalls'[j] > stalls[j] => ~\E line \in Unread :
        line.job = j /\ line.kind = "stall"]_vars

\* The answer that ends a job's question was given to that question: one
\* that was on its way when the question ended otherwise is not taken for
\* the next.  A cancelled job is left out: there ReplyAsk may still be
\* between its lock and its send when the next question is registered.
AnswersItsAsk == [][\A j \in Jobs :
    phase[j] = "parked" /\ phase'[j] = "answered" /\ reply'[j] # reply[j]
        => cancelled[j] \/ reply[j] = asks[j]]_vars

\* A job that does nothing any more is ended by the supervisor, and every
\* job that ends is reported: the main model gets its hand-back.
HandedOver == \A j \in Jobs : phase[j] = "working" ~> handed[j] = 1

=============================================================================
