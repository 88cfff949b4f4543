--------------------------- MODULE JobLinesProofs ---------------------------
(***************************************************************************)
(* Proofs about JobLines, for any set of jobs, questions and repliers and  *)
(* any bounds: types, that no hand-back is read twice, that a job is never *)
(* charged a stall beside an unread notice, that no wait sleeps beside     *)
(* news, and that a job that goes on only takes the answer to its question.*)
(***************************************************************************)
EXTENDS JobLines, SequenceTheorems, WellFoundedInduction, TLAPS

-----------------------------------------------------------------------------
(* The inductive invariant *)

\* What the supervisor has at hand at each place of its sweep.
Sweeping ==
    /\ sup.at \in {"idle", "judging"} <=> sup.acts = {}
    /\ sup.at \in {"queueing", "sending"} => TheAct.line # None

\* Types, by the variables that move together, and the bounds that a place
\* or an outcome stands for.
RunType ==
    /\ phase \in [Jobs -> Alive \cup Gone \cup {"none"}] /\ saying \in [Jobs -> Texts \cup {None}]
    /\ \A j \in Jobs : phase[j] \in {"asked", "queued", "lined"} => saying[j] \in Texts
AskType ==
    /\ asks \in [Jobs -> 0 .. MaxAsks] /\ question \in [Jobs -> 0 .. MaxAsks]
    /\ reply \in [Jobs -> 0 .. MaxAsks]
    /\ askLine \in [Jobs -> Lines \cup {None}] /\ timedOut \in [Jobs -> BOOLEAN]
AskingType == \A j \in Jobs : phase[j] = "asking" => asks[j] < MaxAsks
StopType == cancelled \in [Jobs -> BOOLEAN] /\ stopReason \in [Jobs -> Reasons \cup {None}]
StallType ==
    /\ stalls \in [Jobs -> 0 .. Limit] /\ stalled \in [Jobs -> BOOLEAN]
    /\ stallLine \in [Jobs -> Lines \cup {None}]
LimitType == \A j \in Jobs : stopReason[j] = None => stalls[j] < Limit
EventType == events \in [Jobs -> Seq(Lines)] /\ \A j \in Jobs : Len(events[j]) <= EventCap
QueueType == queue \in [Lines -> Nat]
HandedType == handed \in [Jobs -> Nat]
ReplyType == answering \in [Repliers -> {NoAnswer} \cup [job : Jobs, ask : 1 .. MaxAsks]]
MainType == main \in [at : {"turn", "looking", "peeking", "waiting", "judging", "taking"},
                      waits : SUBSET Jobs, got : Lines \cup {None}, open : SUBSET Lines]
SupType ==
    /\ sup \in [at : {"idle", "judging", "acting", "queueing", "sending"},
                read : SUBSET Lines, acts : SUBSET [job : Jobs, line : Lines \cup {None}]]
    /\ Sweeping
TypeInv ==
    /\ RunType /\ AskType /\ AskingType /\ StopType /\ StallType /\ LimitType
    /\ EventType /\ QueueType /\ HandedType /\ ReplyType /\ MainType /\ SupType

\* The hand-back is queued once, as its job's goroutine passes, and is from
\* then on either in the queue or read.
HandedBack == {"handing", "told", "closed"}
Handing == \A j \in Jobs :
    /\ handed[j] + queue[HandBackLine(j)] <= 1
    /\ phase[j] \notin HandedBack => handed[j] + queue[HandBackLine(j)] = 0

\* The only notice of a job there ever is in the queue, or on its way there,
\* is its last; and what the sweep has read of the queue is all there is
\* until the sweep has decided.
Notices ==
    /\ \A j \in Jobs : stallLine[j] # None => stallLine[j].kind = "stall" /\ stallLine[j].job = j
    /\ \A a \in sup.acts : a.line # None => a.line = stallLine[a.job]
    /\ \A line \in Unread : line.kind = "stall" =>
        /\ line = stallLine[line.job]
        /\ sup.at = "judging" => line \in sup.read

\* Of a job that was not cancelled, one question at most is open, or claimed
\* by one replier, or answered: its last; and the job is still in the call
\* that asked it.
Asked(j) == phase[j] \in {"asked", "queued", "lined", "parked"}
Claimed(j, r) == answering[r].job = j
AnswerOf(j) == ~cancelled[j] =>
    /\ question[j] \in {0, asks[j]} /\ reply[j] \in {0, asks[j]}
    /\ \A r \in Repliers : Claimed(j, r) => answering[r].ask = asks[j]
    /\ ~Asked(j) => question[j] = 0 /\ reply[j] = 0 /\ \A r \in Repliers : ~Claimed(j, r)
    /\ question[j] # 0 => reply[j] = 0 /\ \A r \in Repliers : ~Claimed(j, r)
    /\ reply[j] # 0 => \A r \in Repliers : ~Claimed(j, r)
    /\ \A r, q \in Repliers : Claimed(j, r) /\ Claimed(j, q) => r = q
Answers == \A j \in Jobs : AnswerOf(j)

LineInv == Handing /\ Notices
Inv == TypeInv /\ LineInv /\ Answers

-----------------------------------------------------------------------------
(* Lines, and the decision that is carried out next *)

LEMMA LineTypes ==
    /\ \A j \in Jobs, text \in Texts : Line(j, "ask", text) \in Lines
    /\ \A j \in Jobs, n \in 1 .. Limit - 1 : Line(j, "stall", n) \in Lines
    /\ \A j \in Jobs : HandBackLine(j) \in Lines
  BY DEF Lines, Line, HandBackLine

LEMMA LineFields ==
    \A line \in Lines : line.job \in Jobs /\ line.kind \in {"ask", "stall", "done"}
  BY DEF Lines

\* Two jobs have two hand-backs, and no other line is taken for one.
LEMMA HandBacksApart ==
    /\ \A j \in Jobs : HandBackLine(j).kind = "done" /\ HandBackLine(j).job = j
    /\ \A j, k \in Jobs : HandBackLine(j) = HandBackLine(k) => j = k
    /\ \A j, kind, text : Line(j, kind, text).kind = kind /\ Line(j, kind, text).job = j
  BY DEF HandBackLine, Line

\* The jobs have an order, so among the decisions left there is a first.
LEMMA ActChosen ==
    ASSUME SupType, sup.acts # {}
    PROVE  TheAct \in sup.acts /\ TheAct.job \in Jobs /\ TheAct.line \in Lines \cup {None}
<1> DEFINE S == {a.job : a \in sup.acts}
<1>1. sup.acts \subseteq [job : Jobs, line : Lines \cup {None}]
  BY DEF SupType
<1>2. S \subseteq Nat /\ S # {}
  BY <1>1, JobLinesAssumption
<1>3. PICK m \in S : \A k \in S : m <= k
  <2> DEFINE R == OpToRel(<, Nat)
  <2>0. IsWellFoundedOn(R, Nat)
    BY NatLessThanWellFounded, Zenon
  <2> HIDE DEF R, S
  <2>1. PICK m \in S : \A k \in S : <<k, m>> \notin R
    <3>1. \E x \in S : \A y \in S : ~(<<y, x>> \in R)
      BY <1>2, <2>0, WFMin, Zenon
    <3> QED  BY <3>1
  <2>2. \A k \in S : ~(k < m)
    BY <1>2, <2>1 DEF R, OpToRel
  <2> QED  BY <1>2, <2>2
<1>4. \E a \in sup.acts : \A b \in sup.acts : a.job <= b.job
  BY <1>3
<1>5. TheAct \in sup.acts
  BY <1>4 DEF TheAct
<1> QED  BY <1>1, <1>5

\* An event channel keeps its type and its bound.
LEMMA SendTypes ==
    ASSUME NEW j \in Jobs, NEW line \in Lines,
           EventType, SendEvent(j, line)
    PROVE  EventType'
<1> DEFINE kept == IF Len(events[j]) < EventCap THEN events[j] ELSE Tail(events[j])
<1>1. EventCap \in Nat /\ EventCap >= 2
  BY JobLinesAssumption
<1>2. /\ events \in [Jobs -> Seq(Lines)] /\ \A k \in Jobs : Len(events[k]) <= EventCap
      /\ events' = [events EXCEPT ![j] = Append(kept, line)]
  BY DEF SendEvent, EventType
<1>3. kept \in Seq(Lines) /\ Len(kept) < EventCap
  <2>1. CASE Len(events[j]) < EventCap
    BY <1>2, <2>1
  <2>2. CASE ~(Len(events[j]) < EventCap)
    <3>1. Len(events[j]) = EventCap /\ events[j] # <<>>
      BY <1>1, <1>2, <2>2, EmptySeq, LenProperties
    <3>2. Tail(events[j]) \in Seq(Lines) /\ Len(Tail(events[j])) = Len(events[j]) - 1
      BY <1>2, <3>1, HeadTailProperties
    <3> QED  BY <1>1, <2>2, <3>1, <3>2
  <2> QED  BY <2>1, <2>2
<1>4. Append(kept, line) \in Seq(Lines) /\ Len(Append(kept, line)) = Len(kept) + 1
  BY <1>3, AppendProperties
<1>5. Len(kept) \in Nat
  BY <1>3, LenProperties
<1>6. Len(Append(kept, line)) <= EventCap
  BY <1>1, <1>3, <1>4, <1>5
<1> HIDE DEF kept
<1> QED  BY <1>2, <1>4, <1>6 DEF EventType

-----------------------------------------------------------------------------
(* Types *)

\* What a step leaves alone keeps its type.
LEMMA TypeFrames ==
    ASSUME TypeInv
    PROVE  /\ UNCHANGED run => RunType'
           /\ UNCHANGED <<asks, question, askLine, reply, timedOut>> => AskType'
           /\ UNCHANGED <<phase, asks>> => AskingType'
           /\ UNCHANGED <<cancelled, stopReason>> => StopType'
           /\ UNCHANGED <<stalls, stalled, stallLine>> => StallType'
           /\ UNCHANGED <<stopReason, stalls>> => LimitType'
           /\ UNCHANGED events => EventType'
           /\ UNCHANGED queue => QueueType'
           /\ UNCHANGED handed => HandedType'
           /\ UNCHANGED answering => ReplyType'
           /\ UNCHANGED main => MainType'
           /\ UNCHANGED sup => SupType'
<1>1. UNCHANGED run => RunType'
  BY DEF TypeInv, RunType, run
<1>2. /\ UNCHANGED <<asks, question, askLine, reply, timedOut>> => AskType'
      /\ UNCHANGED <<phase, asks>> => AskingType'
  BY DEF TypeInv, AskType, AskingType
<1>3. /\ UNCHANGED <<cancelled, stopReason>> => StopType'
      /\ UNCHANGED <<stalls, stalled, stallLine>> => StallType'
      /\ UNCHANGED <<stopReason, stalls>> => LimitType'
  BY DEF TypeInv, StopType, StallType, LimitType
<1>4. /\ UNCHANGED events => EventType'
      /\ UNCHANGED queue => QueueType'
      /\ UNCHANGED handed => HandedType'
  BY DEF TypeInv, EventType, QueueType, HandedType
<1>5. /\ UNCHANGED answering => ReplyType'
      /\ UNCHANGED main => MainType'
      /\ UNCHANGED sup => SupType'
  BY DEF TypeInv, ReplyType, MainType, SupType, Sweeping, TheAct
<1> QED  BY <1>1, <1>2, <1>3, <1>4, <1>5

LEMMA TypeInit == Init => TypeInv
<1> SUFFICES ASSUME Init PROVE TypeInv
  OBVIOUS
<1>1. RunType /\ AskType /\ AskingType
  BY JobLinesAssumption DEF Init, RunType, AskType, AskingType
<1>2. StopType /\ StallType /\ LimitType
  BY JobLinesAssumption DEF Init, StopType, StallType, LimitType
<1>3. EventType /\ QueueType /\ HandedType
  <2>1. <<>> \in Seq(Lines) /\ Len(<<>>) = 0
    BY EmptySeq
  <2> QED  BY <2>1, JobLinesAssumption DEF Init, EventType, QueueType, HandedType, Empty
<1>4. ReplyType /\ MainType /\ SupType
  BY DEF Init, ReplyType, MainType, SupType, AtTurn, Idle, Sweeping
<1> QED  BY <1>1, <1>2, <1>3, <1>4 DEF TypeInv

\* A goroutine goes from one place to another.
LEMMA PhaseTypes ==
    ASSUME TypeInv, NEW j \in Jobs, NEW from, NEW to \in Alive \cup Gone, Phase(j, from, to)
    PROVE  /\ to \notin {"asked", "queued", "lined"} /\ UNCHANGED saying => RunType'
           /\ to # "asking" /\ UNCHANGED asks => AskingType'
<1>1. phase' = [phase EXCEPT ![j] = to] /\ phase \in [Jobs -> Alive \cup Gone \cup {"none"}]
  BY DEF TypeInv, Phase, RunType
<1>2. ASSUME to \notin {"asked", "queued", "lined"}, UNCHANGED saying PROVE RunType'
  BY <1>1, <1>2 DEF TypeInv, RunType
<1>3. ASSUME to # "asking", UNCHANGED asks PROVE AskingType'
  BY <1>1, <1>3 DEF TypeInv, AskingType
<1> QED  BY <1>2, <1>3

LEMMA QueueTypes ==
    ASSUME TypeInv, NEW line,
           Enqueue(line) \/ queue' = Without(line) \/ queue' = Empty
    PROVE  QueueType'
  BY DEF TypeInv, QueueType, Enqueue, Without, Empty

\* What a job's goroutine does outside its questions.
LEMMA WorkTypes ==
    ASSUME TypeInv, NEW j \in Jobs,
           \/ Dispatch(j) \/ Starts(j) \/ NoteActivity(j) \/ TakesNoticeBack(j) \/ RunEnds(j)
           \/ Removes(j) \/ HandsBack(j) \/ SendsHandBack(j) \/ Closes(j)
    PROVE  TypeInv'
<1> USE DEF Alive, Gone, ask, stop, stall, talk
<1>1. CASE Dispatch(j)
  BY <1>1, PhaseTypes, TypeFrames DEF TypeInv, Dispatch
<1>2. CASE Starts(j)
  BY <1>2, PhaseTypes, TypeFrames DEF TypeInv, Starts
<1>3. CASE NoteActivity(j)
  <2>1. RunType' /\ AskingType'
    BY <1>3 DEF TypeInv, NoteActivity, RunType, AskingType
  <2>2. StallType' /\ LimitType'
    BY <1>3, JobLinesAssumption DEF TypeInv, NoteActivity, StallType, LimitType
  <2> QED  BY <1>3, <2>1, <2>2, TypeFrames DEF TypeInv, NoteActivity
<1>4. CASE TakesNoticeBack(j)
  BY <1>4, PhaseTypes, QueueTypes, TypeFrames DEF TypeInv, TakesNoticeBack
<1>5. CASE RunEnds(j)
  BY <1>5, PhaseTypes, TypeFrames DEF TypeInv, RunEnds
<1>6. CASE Removes(j)
  BY <1>6, PhaseTypes, TypeFrames DEF TypeInv, Removes
<1>7. CASE HandsBack(j)
  BY <1>7, PhaseTypes, QueueTypes, TypeFrames DEF TypeInv, HandsBack
<1>8. CASE SendsHandBack(j)
  <2>1. EventType'
    BY <1>8, LineTypes, SendTypes DEF TypeInv, SendsHandBack
  <2> QED  BY <1>8, <2>1, PhaseTypes, TypeFrames DEF TypeInv, SendsHandBack
<1>9. CASE Closes(j)
  BY <1>9, PhaseTypes, TypeFrames DEF TypeInv, Closes
<1> QED  BY <1>1, <1>2, <1>3, <1>4, <1>5, <1>6, <1>7, <1>8, <1>9
\* A question, from the tool call to its end.
LEMMA AskTypes ==
    ASSUME TypeInv, NEW j \in Jobs,
           \/ AskDrains(j) \/ AskRefused(j) \/ (\E text \in Texts : AskRegisters(j, text))
           \/ AskQueues(j) \/ AskLined(j) \/ AskSends(j)
           \/ Answered(j) \/ AskTimesOut(j) \/ AskCancelled(j)
    PROVE  TypeInv'
<1> USE DEF Alive, Gone, ask, stop, stall, talk
<1>0. MaxAsks \in Nat
  BY JobLinesAssumption
<1>1. CASE AskDrains(j)
  <2>1. RunType' /\ AskingType'
    BY <1>1 DEF AskDrains, Phase, TypeInv, RunType, AskingType
  <2>2. AskType'
    BY <1>0, <1>1 DEF AskDrains, TypeInv, AskType
  <2> QED  BY <1>1, <2>1, <2>2, TypeFrames DEF AskDrains, TypeInv
<1>2. CASE AskRefused(j)
  BY <1>2, PhaseTypes, TypeFrames DEF TypeInv, AskRefused
<1>3. ASSUME NEW text \in Texts, AskRegisters(j, text) PROVE TypeInv'
  <2>1. RunType' /\ AskingType'
    BY <1>3 DEF AskRegisters, Phase, TypeInv, RunType, AskingType, AskType
  <2>2. AskType'
    BY <1>0, <1>3 DEF AskRegisters, Phase, TypeInv, AskType, AskingType
  <2> QED  BY <1>3, <2>1, <2>2, TypeFrames DEF AskRegisters, TypeInv
<1>4. CASE AskQueues(j)
  <2>1. RunType' /\ AskingType'
    BY <1>4 DEF AskQueues, Phase, TypeInv, RunType, AskingType
  <2> QED  BY <1>4, <2>1, QueueTypes, TypeFrames DEF AskQueues, TypeInv
<1>5. CASE AskLined(j)
  <2>1. RunType' /\ AskingType' /\ saying[j] \in Texts
    BY <1>5 DEF AskLined, Phase, TypeInv, RunType, AskingType
  <2>2. AskType'
    BY <1>5, <2>1, LineTypes DEF AskLined, TypeInv, AskType
  <2> QED  BY <1>5, <2>1, <2>2, TypeFrames DEF AskLined, TypeInv
<1>6. CASE AskSends(j)
  <2>1. RunType' /\ AskingType' /\ saying[j] \in Texts
    BY <1>6 DEF AskSends, Phase, TypeInv, RunType, AskingType
  <2>2. EventType'
    BY <1>6, <2>1, LineTypes, SendTypes DEF AskSends, TypeInv
  <2> QED  BY <1>6, <2>1, <2>2, TypeFrames DEF AskSends, TypeInv
<1>7. CASE Answered(j)
  <2>1. AskType'
    BY <1>0, <1>7 DEF Answered, TypeInv, AskType
  <2> QED  BY <1>7, <2>1, PhaseTypes, TypeFrames DEF Answered, TypeInv
<1>8. CASE AskTimesOut(j)
  <2>1. AskType' /\ StopType'
    BY <1>8 DEF AskTimesOut, TypeInv, AskType, StopType
  <2> QED  BY <1>8, <2>1, PhaseTypes, TypeFrames DEF AskTimesOut, TypeInv
<1>9. CASE AskCancelled(j)
  BY <1>9, PhaseTypes, TypeFrames DEF TypeInv, AskCancelled
<1> QED  BY <1>1, <1>2, <1>3, <1>4, <1>5, <1>6, <1>7, <1>8, <1>9

\* What the sweep decides of one job at a time, under mu.
LEMMA JudgeTypes ==
    ASSUME TypeInv, NEW quiet \in SUBSET Jobs, NEW late \in SUBSET Jobs, SweepJudges(quiet, late)
    PROVE  TypeInv'
<1> DEFINE spent == {j \in late : Judged(j)}
           stalling == {j \in quiet \ spent : Judged(j) /\ Quietable(j) /\ ~NoticeUnread(j)}
           stopping == {j \in stalling : stalls[j] + 1 >= Limit}
           noticed == stalling \ stopping
           notice == [j \in Jobs |-> Line(j, "stall", stalls[j] + 1)]
           acts == {[job |-> j, line |-> notice[j]] : j \in noticed}
                       \cup {[job |-> j, line |-> None] : j \in spent \cup stopping}
<1>1. stopReason' = [j \in Jobs |-> IF j \in spent THEN "out of time"
                          ELSE IF j \in stopping THEN "stalled" ELSE stopReason[j]]
  BY DEF SweepJudges
<1>2. stalls' = [j \in Jobs |-> IF j \in stalling THEN stalls[j] + 1 ELSE stalls[j]]
  BY DEF SweepJudges
<1>3. stalled' = [j \in Jobs |-> stalled[j] \/ j \in stalling]
  BY DEF SweepJudges
<1>4. stallLine' = [j \in Jobs |-> IF j \in noticed THEN notice[j] ELSE stallLine[j]]
  BY DEF SweepJudges
<1>5. sup' = IF acts = {} THEN Idle ELSE [at |-> "acting", read |-> {}, acts |-> acts]
  BY DEF SweepJudges
<1>6. spent \subseteq Jobs /\ stalling \subseteq Jobs
  OBVIOUS
<1>7. \A j \in stalling : stopReason[j] = None /\ j \notin spent
  BY DEF Judged
<1>8. /\ \A j \in stopping : j \in stalling
      /\ \A j \in stalling : j \in stopping <=> stalls[j] + 1 >= Limit
  OBVIOUS
<1> HIDE DEF spent, stalling, stopping
<1>9. Limit \in Nat /\ Limit >= 2 /\ \A j \in Jobs : stalls[j] \in Nat /\ stalls[j] <= Limit
  BY JobLinesAssumption DEF TypeInv, StallType
<1>10. \A j \in Jobs : j \in stalling => stalls[j] + 1 <= Limit
  <2> SUFFICES ASSUME NEW j \in Jobs, j \in stalling PROVE stalls[j] + 1 <= Limit
    OBVIOUS
  <2>1. stalls[j] < Limit
    BY <1>7 DEF TypeInv, LimitType
  <2> QED  BY <1>9, <2>1
<1>11. \A j \in noticed : j \in Jobs /\ stalls[j] + 1 \in 1 .. Limit - 1 /\ notice[j] \in Lines
  <2> SUFFICES ASSUME NEW j \in noticed
               PROVE  j \in Jobs /\ stalls[j] + 1 \in 1 .. Limit - 1 /\ notice[j] \in Lines
    OBVIOUS
  <2>1. j \in Jobs /\ stalls[j] + 1 \in 1 .. Limit - 1
    BY <1>6, <1>8, <1>9, <1>10
  <2> QED  BY <2>1, LineTypes
<1> HIDE DEF notice
<1>12. stopReason \in [Jobs -> Reasons \cup {None}]
  BY DEF TypeInv, StopType
<1>13. StopType'
  <2>1. stopReason' \in [Jobs -> Reasons \cup {None}]
    BY <1>12, <1>1 DEF Reasons
  <2>2. cancelled' = cancelled
    BY DEF SweepJudges
  <2> QED  BY <2>1, <2>2 DEF TypeInv, StopType
<1>14. StallType'
  <2>1. stalls' \in [Jobs -> 0 .. Limit]
    BY <1>2, <1>9, <1>10
  <2>2. stalled' \in [Jobs -> BOOLEAN]
    BY <1>3 DEF TypeInv, StallType
  <2>3. stallLine' \in [Jobs -> Lines \cup {None}]
    BY <1>4, <1>11 DEF TypeInv, StallType
  <2> QED  BY <2>1, <2>2, <2>3 DEF StallType
<1>15. LimitType'
  <2> SUFFICES ASSUME NEW j \in Jobs, stopReason'[j] = None PROVE stalls'[j] < Limit
    BY DEF LimitType
  <2>1. j \notin stopping /\ j \notin spent
    BY <1>1, JobLinesAssumption DEF Reasons
  <2>2. stopReason[j] = None
    BY <1>1, <2>1
  <2>3. CASE j \in stalling
    BY <1>2, <1>8, <1>9, <1>10, <2>1, <2>3
  <2>4. CASE j \notin stalling
    BY <1>2, <2>2, <2>4 DEF TypeInv, LimitType
  <2> QED  BY <2>3, <2>4
<1>16. SupType'
  <2>1. acts \subseteq [job : Jobs, line : Lines \cup {None}]
    BY <1>6, <1>8, <1>11
  <2> HIDE DEF acts
  <2>2. CASE acts = {}
    <3>1. sup' = [at |-> "idle", read |-> {}, acts |-> {}]
      BY <1>5, <2>2 DEF Idle
    <3> QED  BY <3>1 DEF SupType, Sweeping
  <2>3. CASE acts # {}
    <3>1. sup' = [at |-> "acting", read |-> {}, acts |-> acts]
      BY <1>5, <2>3
    <3> QED  BY <2>1, <2>3, <3>1 DEF SupType, Sweeping
  <2> QED  BY <2>2, <2>3
<1>17. UNCHANGED <<run, ask, talk, answering, main>>
  BY DEF SweepJudges
<1> QED  BY <1>13, <1>14, <1>15, <1>16, <1>17, TypeFrames DEF TypeInv, run, ask, talk
\* The rest of the sweep.
LEMMA SweepTypes ==
    ASSUME TypeInv, SweepReads \/ ActRechecks \/ ActQueues \/ ActSends \/ ActCancels
    PROVE  TypeInv'
<1> USE DEF run, ask, stop, stall, talk
<1> DEFINE A == [job : Jobs, line : Lines \cup {None}]
<1>1. /\ sup \in [at : {"idle", "judging", "acting", "queueing", "sending"},
                  read : SUBSET Lines, acts : SUBSET A]
      /\ Sweeping
  BY DEF TypeInv, SupType
<1>2. CASE SweepReads
  <2>1. sup'.acts = {} /\ sup'.at = "judging" /\ sup'.read \subseteq Lines /\ sup' = [sup EXCEPT !.at = "judging", !.read = sup'.read]
    <3>1. {l \in Unread : l.kind = "stall"} \subseteq Lines
      BY DEF Unread
    <3> QED  BY <1>1, <1>2, <3>1 DEF SweepReads, Sweeping
  <2>2. SupType'
    BY <1>1, <2>1 DEF SupType, Sweeping
  <2> QED  BY <1>2, <2>2, TypeFrames DEF SweepReads, TypeInv
<1>3. ASSUME ActDone, sup.acts # {} PROVE SupType'
  <2>1. CASE sup.acts = {TheAct}
    <3>1. sup' = [at |-> "idle", read |-> {}, acts |-> {}]
      BY <1>3, <2>1 DEF ActDone, Idle
    <3> QED  BY <3>1 DEF SupType, Sweeping
  <2>2. CASE sup.acts # {TheAct}
    <3>1. sup' = [sup EXCEPT !.at = "acting", !.acts = sup.acts \ {TheAct}]
      BY <1>3, <2>2 DEF ActDone
    <3>2. sup.acts \ {TheAct} # {}
      BY <1>3, <2>2
    <3> QED  BY <1>1, <3>1, <3>2 DEF SupType, Sweeping
  <2> QED  BY <2>1, <2>2
<1>4. CASE ActRechecks
  <2>1. sup.at = "acting" /\ TheAct.line # None /\ sup.acts # {}
    BY <1>1, <1>4 DEF ActRechecks, Acting, Sweeping
  <2>2. ASSUME sup' = [sup EXCEPT !.at = "queueing"] PROVE SupType'
    <3>1. TheAct' = TheAct
      BY <1>1, <2>2 DEF TheAct
    <3> QED  BY <1>1, <2>1, <2>2, <3>1 DEF SupType, Sweeping
  <2>3. SupType'
    BY <1>3, <1>4, <2>1, <2>2 DEF ActRechecks
  <2> QED  BY <1>4, <2>3, TypeFrames DEF ActRechecks, TypeInv
<1>5. CASE ActQueues
  <2>1. sup.at = "queueing" /\ TheAct.line # None /\ sup.acts # {} /\ sup' = [sup EXCEPT !.at = "sending"]
    BY <1>1, <1>5 DEF ActQueues, Acting, Sweeping
  <2>2. TheAct' = TheAct
    BY <1>1, <2>1 DEF TheAct
  <2>3. SupType'
    BY <1>1, <2>1, <2>2 DEF SupType, Sweeping
  <2> QED  BY <1>5, <2>3, QueueTypes, TypeFrames DEF ActQueues, TypeInv
<1>6. CASE ActSends
  <2>1. sup.at = "sending" /\ TheAct.line # None /\ sup.acts # {}
    BY <1>1, <1>6 DEF ActSends, Acting, Sweeping
  <2>2. TheAct.job \in Jobs /\ TheAct.line \in Lines
    BY <2>1, ActChosen DEF TypeInv
  <2>3. EventType'
    BY <1>6, <2>2, SendTypes DEF ActSends, TypeInv
  <2> QED  BY <1>3, <1>6, <2>1, <2>3, TypeFrames DEF ActSends, TypeInv
<1>7. CASE ActCancels
  <2>1. sup.acts # {}
    BY <1>1, <1>7 DEF ActCancels, Acting, Sweeping
  <2>2. StopType'
    BY <1>7 DEF ActCancels, TypeInv, StopType
  <2> QED  BY <1>3, <1>7, <2>1, <2>2, TypeFrames DEF ActCancels, TypeInv
<1> QED  BY <1>2, <1>4, <1>5, <1>6, <1>7

\* The turn, its waits, and what is said to a job.
LEMMA MainTypes ==
    ASSUME TypeInv, MainStep
    PROVE  TypeInv'
<1> USE DEF run, ask, stop, stall, talk
<1> DEFINE M == [at : {"turn", "looking", "peeking", "waiting", "judging", "taking"},
                 waits : SUBSET Jobs, got : Lines \cup {None}, open : SUBSET Lines]
<1>1. main \in M /\ AtTurn \in M
  BY DEF TypeInv, MainType, AtTurn
<1>2. CASE Deliver
  <2>1. HandedType'
    BY <1>2, LineTypes DEF Deliver, Reads, TypeInv, HandedType, QueueType
  <2> QED  BY <1>2, <2>1, QueueTypes, TypeFrames DEF Deliver, TypeInv
<1>3. ASSUME NEW js \in SUBSET Jobs, WaitBegins(js) PROVE TypeInv'
  <2>1. MainType'
    BY <1>1, <1>3 DEF WaitBegins, MainType
  <2> QED  BY <1>3, <2>1, TypeFrames DEF WaitBegins, TypeInv
<1>4. ASSUME NEW j \in Jobs, WaitOnFinished(j) \/ WaitHearsEnd(j) PROVE TypeInv'
  <2>1. MainType'
    BY <1>1, <1>4, LineTypes DEF WaitOnFinished, WaitHearsEnd, MainType
  <2> QED  BY <1>4, <2>1, TypeFrames DEF WaitOnFinished, WaitHearsEnd, TypeInv
<1>5. ASSUME NEW j \in Jobs, Extends(j) PROVE TypeInv'
  <2>1. StallType'
    BY <1>5 DEF Extends, TypeInv, StallType
  <2> QED  BY <1>5, <2>1, TypeFrames DEF Extends, TypeInv
<1>6. CASE WaitLooks
  <2> DEFINE open == {j \in main.waits : Running(j) /\ question[j] # 0 /\ askLine[j] # None}
  <2>1. main' = [main EXCEPT !.at = "peeking", !.open = {askLine[j] : j \in open}]
    BY <1>6 DEF WaitLooks
  <2>2. {askLine[j] : j \in open} \subseteq Lines
    BY <1>1 DEF TypeInv, AskType
  <2> HIDE DEF open
  <2>3. MainType'
    BY <1>1, <2>1, <2>2 DEF MainType
  <2> QED  BY <1>6, <2>3, TypeFrames DEF WaitLooks, TypeInv
<1>7. CASE WaitPeeks \/ WaitTimesOut \/ WaitJudges
  <2>1. MainType'
    BY <1>1, <1>7 DEF WaitPeeks, WaitTimesOut, WaitJudges, MainType
  <2> QED  BY <1>7, <2>1, TypeFrames DEF WaitPeeks, WaitTimesOut, WaitJudges, TypeInv
<1>8. ASSUME NEW j \in Jobs, WaitHears(j) PROVE TypeInv'
  <2>1. events[j] \in Seq(Lines) /\ events[j] # <<>>
    BY <1>8 DEF WaitHears, TypeInv, EventType
  <2>2. /\ Head(events[j]) \in Lines /\ Tail(events[j]) \in Seq(Lines)
        /\ Len(Tail(events[j])) = Len(events[j]) - 1 /\ Len(events[j]) \in Nat
    BY <2>1, HeadTailProperties, LenProperties
  <2>3. EventType'
    <3>1. events' = [events EXCEPT ![j] = Tail(events[j])]
      BY <1>8 DEF WaitHears
    <3>2. EventCap \in Nat /\ Len(events[j]) <= EventCap
      BY JobLinesAssumption DEF TypeInv, EventType
    <3>3. Len(Tail(events[j])) <= EventCap
      BY <2>2, <3>2
    <3> QED  BY <2>2, <3>1, <3>3 DEF TypeInv, EventType
  <2>4. MainType'
    BY <1>1, <1>8, <2>2 DEF WaitHears, MainType
  <2> QED  BY <1>8, <2>3, <2>4, TypeFrames DEF WaitHears, TypeInv
<1>9. CASE WaitTakes
  <2>1. MainType'
    BY <1>1, <1>9 DEF WaitTakes, MainType
  <2>2. HandedType'
    <3>1. [Empty EXCEPT ![main.got] = 1] \in [Lines -> Nat]
      BY DEF Empty
    <3>2. CASE Reads([Empty EXCEPT ![main.got] = 1])
      BY <3>1, <3>2, LineTypes DEF Reads, TypeInv, HandedType
    <3>3. CASE UNCHANGED handed
      BY <3>3, TypeFrames
    <3> QED  BY <1>9, <3>2, <3>3 DEF WaitTakes
  <2> QED  BY <1>9, <2>1, <2>2, QueueTypes, TypeFrames DEF WaitTakes, TypeInv
<1> QED
  BY <1>2, <1>3, <1>4, <1>5, <1>6, <1>7, <1>8, <1>9 DEF MainStep, WaitStep, WaitOne, WaitAny
\* What is said to a job: a reply, a stop.
LEMMA ReplyTypes ==
    ASSUME TypeInv,
           \/ \E j \in Jobs : Stops(j)
           \/ \E r \in Repliers : ReplySends(r) \/ \E j \in Jobs : ReplyClaims(r, j)
    PROVE  TypeInv'
<1> USE DEF run, ask, stop, stall, talk
<1>1. ASSUME NEW j \in Jobs, Stops(j) PROVE TypeInv'
  <2>1. StopType'
    BY <1>1 DEF Stops, TypeInv, StopType, Reasons
  <2>2. LimitType'
    BY <1>1, JobLinesAssumption DEF Stops, TypeInv, StopType, LimitType, Reasons
  <2> QED  BY <1>1, <2>1, <2>2, TypeFrames DEF Stops, TypeInv
<1>2. ASSUME NEW r \in Repliers, ReplySends(r) PROVE TypeInv'
  <2>1. answering[r].job \in Jobs /\ answering[r].ask \in 1 .. MaxAsks
    BY <1>2 DEF ReplySends, TypeInv, ReplyType
  <2>2. AskType' /\ ReplyType'
    BY <1>2, <2>1, JobLinesAssumption DEF ReplySends, TypeInv, AskType, ReplyType
  <2> QED  BY <1>2, <2>2, TypeFrames DEF ReplySends, TypeInv
<1>3. ASSUME NEW r \in Repliers, NEW j \in Jobs, ReplyClaims(r, j) PROVE TypeInv'
  <2>1. question[j] \in 1 .. MaxAsks
    BY <1>3, JobLinesAssumption DEF ReplyClaims, TypeInv, AskType
  <2>2. AskType' /\ ReplyType'
    BY <1>3, <2>1, JobLinesAssumption DEF ReplyClaims, TypeInv, AskType, ReplyType
  <2> QED  BY <1>3, <2>2, TypeFrames DEF ReplyClaims, TypeInv
<1> QED  BY <1>1, <1>2, <1>3

LEMMA TypeStep == TypeInv /\ [Next]_vars => TypeInv'
<1> SUFFICES ASSUME TypeInv, [Next]_vars PROVE TypeInv'
  OBVIOUS
<1>1. ASSUME NEW j \in Jobs, JobStep(j) PROVE TypeInv'
  BY <1>1, WorkTypes, AskTypes DEF JobStep
<1>2. CASE Sweep
  BY <1>2, SweepTypes, JudgeTypes DEF Sweep
<1>3. CASE UNCHANGED vars
  BY <1>3, TypeFrames DEF vars, run, ask, stop, stall, talk, TypeInv
<1> QED  BY <1>1, <1>2, <1>3, MainTypes, ReplyTypes DEF Next

LEMMA TypesHold == TypeInv => TypeOK
  BY DEF TypeInv, TypeOK, RunType, AskType, StopType, StallType, EventType, QueueType,
         HandedType, ReplyType, MainType, SupType

\* The runner, the queue, the channels and the supervisor keep their types:
\* no channel outgrows its capacity, no job is charged more stalls than it
\* has, and no job asks more than it may.
THEOREM TypeCorrect == Spec => []TypeOK
<1>1. Init => TypeInv
  BY TypeInit
<1>2. TypeInv /\ [Next]_vars => TypeInv'
  BY TypeStep
<1> QED  BY <1>1, <1>2, TypesHold, PTL DEF Spec

-----------------------------------------------------------------------------
(* Hand-backs *)

\* A job that has handed back stays so, and nothing but its own hand-back
\* adds to what is queued and read of it.
LEMMA HandingFrame ==
    ASSUME TypeInv, TypeInv', Handing,
           \A j \in Jobs : phase[j] \in HandedBack => phase'[j] \in HandedBack,
           \A j \in Jobs : handed'[j] + queue'[HandBackLine(j)]
                               <= handed[j] + queue[HandBackLine(j)]
    PROVE  Handing'
<1> SUFFICES ASSUME NEW j \in Jobs
             PROVE  /\ handed'[j] + queue'[HandBackLine(j)] <= 1
                    /\ phase'[j] \notin HandedBack => handed'[j] + queue'[HandBackLine(j)] = 0
  BY DEF Handing
<1>1. /\ handed[j] \in Nat /\ queue[HandBackLine(j)] \in Nat
      /\ handed'[j] \in Nat /\ queue'[HandBackLine(j)] \in Nat
  BY LineTypes DEF TypeInv, HandedType, QueueType
<1>2. /\ handed[j] + queue[HandBackLine(j)] <= 1
      /\ phase[j] \notin HandedBack => handed[j] + queue[HandBackLine(j)] = 0
  BY DEF Handing
<1> QED  BY <1>1, <1>2

\* A goroutine goes on from a place before its hand-back, or after.
LEMMA PhaseOrder ==
    ASSUME TypeInv, NEW j \in Jobs, NEW from, NEW to, Phase(j, from, to),
           from \cap HandedBack = {} \/ to \in HandedBack
    PROVE  \A k \in Jobs : phase[k] \in HandedBack => phase'[k] \in HandedBack
  BY DEF Phase, TypeInv, RunType

\* Nothing but a hand-back is added to a hand-back, and what is removed from
\* the queue adds to none.
LEMMA QueueKeeps ==
    ASSUME TypeInv, NEW line, UNCHANGED handed,
           \/ line \in Lines /\ line.kind # "done" /\ Enqueue(line)
           \/ queue' = Without(line)
           \/ UNCHANGED queue
    PROVE  \A j \in Jobs : handed'[j] + queue'[HandBackLine(j)]
                               <= handed[j] + queue[HandBackLine(j)]
<1> SUFFICES ASSUME NEW j \in Jobs
             PROVE  handed'[j] + queue'[HandBackLine(j)] <= handed[j] + queue[HandBackLine(j)]
  OBVIOUS
<1>1. /\ HandBackLine(j) \in Lines /\ HandBackLine(j).kind = "done"
      /\ queue \in [Lines -> Nat] /\ queue[HandBackLine(j)] \in Nat /\ handed[j] \in Nat
  BY LineTypes, HandBacksApart DEF TypeInv, QueueType, HandedType
<1>2. queue'[HandBackLine(j)] <= queue[HandBackLine(j)]
  BY <1>1 DEF Enqueue, Without
<1>3. queue'[HandBackLine(j)] \in Nat
  BY <1>1 DEF Enqueue, Without
<1> QED  BY <1>1, <1>2, <1>3

LEMMA JobHanding ==
    ASSUME TypeInv, TypeInv', Handing, NEW j \in Jobs, JobStep(j)
    PROVE  Handing'
<1> USE DEF ask, stop, stall, talk, HandedBack
<1>1. CASE HandsBack(j)
  <2>1. /\ phase[j] = "removed" /\ phase' = [phase EXCEPT ![j] = "handing"]
        /\ queue' = [queue EXCEPT ![HandBackLine(j)] = @ + 1] /\ handed' = handed
    BY <1>1 DEF HandsBack, Phase, Enqueue
  <2>2. handed[j] \in Nat /\ queue \in [Lines -> Nat] /\ queue[HandBackLine(j)] \in Nat
    BY LineTypes DEF TypeInv, HandedType, QueueType
  <2>3. handed'[j] + queue'[HandBackLine(j)] = 1
    <3>1. handed[j] + queue[HandBackLine(j)] = 0
      BY <2>1 DEF Handing
    <3> QED  BY <2>1, <2>2, <3>1, LineTypes
  <2>4. \A k \in Jobs \ {j} : queue'[HandBackLine(k)] = queue[HandBackLine(k)] /\ phase'[k] = phase[k]
    BY <2>1, <2>2, LineTypes, HandBacksApart DEF TypeInv, RunType
  <2>5. phase'[j] = "handing"
    BY <2>1 DEF TypeInv, RunType
  <2> QED  BY <2>1, <2>3, <2>4, <2>5 DEF Handing
<1>2. ASSUME ~HandsBack(j)
      PROVE  /\ \A k \in Jobs : phase[k] \in HandedBack => phase'[k] \in HandedBack
             /\ \A k \in Jobs : handed'[k] + queue'[HandBackLine(k)]
                                    <= handed[k] + queue[HandBackLine(k)]
  <2>1. CASE Dispatch(j) \/ Starts(j) \/ RunEnds(j)
    BY <2>1, PhaseOrder, QueueKeeps DEF Dispatch, Starts, RunEnds
  <2>2. CASE Removes(j) \/ SendsHandBack(j) \/ Closes(j)
    BY <2>2, PhaseOrder, QueueKeeps DEF Removes, SendsHandBack, Closes
  <2>3. CASE NoteActivity(j)
    <3>1. \A k \in Jobs : phase[k] \in HandedBack => phase'[k] \in HandedBack
      BY <2>3 DEF NoteActivity, TypeInv, RunType
    <3> QED  BY <2>3, <3>1, QueueKeeps DEF NoteActivity
  <2>4. CASE TakesNoticeBack(j)
    BY <2>4, PhaseOrder, QueueKeeps DEF TakesNoticeBack
  <2>5. CASE AskDrains(j) \/ AskRefused(j) \/ \E text \in Texts : AskRegisters(j, text)
    BY <2>5, PhaseOrder, QueueKeeps DEF AskDrains, AskRefused, AskRegisters
  <2>6. CASE AskQueues(j)
    <3>1. saying[j] \in Texts
      BY <2>6 DEF AskQueues, Phase, TypeInv, RunType
    <3>2. Line(j, "ask", saying[j]) \in Lines /\ Line(j, "ask", saying[j]).kind = "ask"
      BY <3>1, LineTypes, HandBacksApart
    <3> QED  BY <2>6, <3>2, PhaseOrder, QueueKeeps DEF AskQueues
  <2>7. CASE AskLined(j) \/ AskSends(j)
    BY <2>7, PhaseOrder, QueueKeeps DEF AskLined, AskSends
  <2>8. CASE Answered(j) \/ AskTimesOut(j) \/ AskCancelled(j)
    BY <2>8, PhaseOrder, QueueKeeps DEF Answered, AskTimesOut, AskCancelled
  <2> QED  BY <1>2, <2>1, <2>2, <2>3, <2>4, <2>5, <2>6, <2>7, <2>8 DEF JobStep
<1> QED  BY <1>1, <1>2, HandingFrame

LEMMA MainHanding ==
    ASSUME TypeInv, TypeInv', Handing, MainStep
    PROVE  Handing'
<1> USE DEF run, ask, stop, stall, talk
<1>1. UNCHANGED phase
  BY DEF MainStep, Deliver, WaitAny, WaitOne, WaitBegins, WaitStep, WaitLooks, WaitPeeks, WaitTimesOut,
         WaitJudges, WaitTakes, WaitHears, WaitHearsEnd, WaitOnFinished, Extends
<1>2. /\ handed \in [Jobs -> Nat] /\ queue \in [Lines -> Nat]
      /\ \A j \in Jobs : HandBackLine(j) \in Lines
  BY LineTypes DEF TypeInv, HandedType, QueueType
<1>3. ASSUME NEW j \in Jobs
      PROVE  handed'[j] + queue'[HandBackLine(j)] <= handed[j] + queue[HandBackLine(j)]
  <2>1. handed[j] \in Nat /\ queue[HandBackLine(j)] \in Nat
    BY <1>2
  <2>2. CASE Deliver
    BY <1>2, <2>1, <2>2 DEF Deliver, Reads, Empty
  <2>3. CASE WaitTakes
    <3>1. queue' = [queue EXCEPT ![main.got] = 0]
      BY <2>3 DEF WaitTakes, Without
    <3>2. CASE UNCHANGED handed
      BY <1>2, <2>1, <3>1, <3>2
    <3>3. CASE Queued(main.got) /\ Reads([Empty EXCEPT ![main.got] = 1])
      <4>1. handed'[j] = handed[j] + (IF main.got = HandBackLine(j) THEN 1 ELSE 0)
        BY <1>2, <3>3 DEF Reads, Empty
      <4>2. CASE main.got = HandBackLine(j)
        <5>1. queue[HandBackLine(j)] > 0 /\ queue'[HandBackLine(j)] = 0
          BY <1>2, <3>1, <3>3, <4>2 DEF Queued
        <5> QED  BY <2>1, <4>1, <4>2, <5>1
      <4>3. CASE main.got # HandBackLine(j)
        <5>1. queue'[HandBackLine(j)] = queue[HandBackLine(j)]
          BY <1>2, <3>1, <4>3
        <5> QED  BY <2>1, <4>1, <4>3, <5>1
      <4> QED  BY <4>2, <4>3
    <3> QED  BY <2>3, <3>2, <3>3 DEF WaitTakes
  <2>4. ASSUME ~Deliver, ~WaitTakes PROVE UNCHANGED <<handed, queue>>
    BY <2>4 DEF MainStep, WaitAny, WaitOne, WaitBegins, WaitStep, WaitLooks, WaitPeeks, WaitTimesOut,
                WaitJudges, WaitHears, WaitHearsEnd, WaitOnFinished, Extends
  <2> QED  BY <2>1, <2>2, <2>3, <2>4
<1> QED  BY <1>1, <1>3, HandingFrame

\* The line that is queued is the last notice of its job.
LEMMA ActIsNotice ==
    ASSUME TypeInv, Notices, sup.at \in {"acting", "queueing", "sending"}, TheAct.line # None
    PROVE  /\ TheAct \in sup.acts /\ TheAct.job \in Jobs /\ TheAct.line \in Lines
           /\ TheAct.line = stallLine[TheAct.job]
           /\ TheAct.line.kind = "stall" /\ TheAct.line.job = TheAct.job
<1>1. SupType /\ sup.acts # {}
  BY DEF TypeInv, SupType, Sweeping
<1>2. TheAct \in sup.acts /\ TheAct.job \in Jobs /\ TheAct.line \in Lines
  BY <1>1, ActChosen
<1>3. TheAct.line = stallLine[TheAct.job]
  BY <1>2 DEF Notices
<1> QED  BY <1>2, <1>3 DEF Notices

LEMMA SweepHanding ==
    ASSUME TypeInv, TypeInv', Handing, Notices, Sweep
    PROVE  Handing'
<1> USE DEF run, ask, stop, stall, talk
<1>1. UNCHANGED phase
  BY DEF Sweep, SweepReads, SweepJudges, ActRechecks, ActQueues, ActSends, ActCancels
<1>2. CASE ActQueues
  <2>1. TheAct.line \in Lines /\ TheAct.line.kind = "stall"
    <3>1. sup.at = "queueing" /\ TheAct.line # None
      BY <1>2 DEF ActQueues, Acting, TypeInv, SupType, Sweeping
    <3> QED  BY <3>1, ActIsNotice
  <2> QED  BY <1>1, <1>2, <2>1, QueueKeeps, HandingFrame DEF ActQueues
<1>3. ASSUME ~ActQueues PROVE UNCHANGED <<handed, queue>>
  BY <1>3 DEF Sweep, SweepReads, SweepJudges, ActRechecks, ActSends, ActCancels
<1> QED  BY <1>1, <1>2, <1>3, QueueKeeps, HandingFrame

LEMMA HandingStep ==
    ASSUME TypeInv, TypeInv', Handing, Notices, [Next]_vars
    PROVE  Handing'
<1> USE DEF run, ask, stop, stall, talk
<1>1. ASSUME NEW j \in Jobs, Stops(j) PROVE Handing'
  BY <1>1, QueueKeeps, HandingFrame DEF Stops
<1>2. ASSUME NEW r \in Repliers, ReplySends(r) \/ \E j \in Jobs : ReplyClaims(r, j) PROVE Handing'
  BY <1>2, QueueKeeps, HandingFrame DEF ReplySends, ReplyClaims
<1>3. CASE UNCHANGED vars
  BY <1>3, QueueKeeps, HandingFrame DEF vars
<1> QED  BY <1>1, <1>2, <1>3, JobHanding, MainHanding, SweepHanding DEF Next

-----------------------------------------------------------------------------
(* Stall notices *)

\* Nothing is added to what is said of stalls.
LEMMA NoticesFrame ==
    ASSUME TypeInv, Notices, UNCHANGED stallLine,
           sup'.acts \subseteq sup.acts,
           sup'.at = "judging" => sup.at = "judging" /\ sup'.read = sup.read,
           \A line \in Lines : line.kind = "stall" /\ queue'[line] > 0 => queue[line] > 0
    PROVE  Notices'
  BY DEF Notices, Unread, Queued

LEMMA QueueNotices ==
    ASSUME TypeInv, NEW line,
           \/ line \in Lines /\ line.kind # "stall" /\ Enqueue(line)
           \/ queue' = Without(line)
           \/ queue' = Empty
           \/ UNCHANGED queue
    PROVE  \A l \in Lines : l.kind = "stall" /\ queue'[l] > 0 => queue[l] > 0
  BY DEF TypeInv, QueueType, Enqueue, Without, Empty

LEMMA JobNotices ==
    ASSUME TypeInv, Notices, NEW j \in Jobs, JobStep(j)
    PROVE  Notices'
<1> USE DEF ask, stop, stall, talk
<1>1. CASE AskQueues(j)
  <2>1. saying[j] \in Texts
    BY <1>1 DEF AskQueues, Phase, TypeInv, RunType
  <2>2. Line(j, "ask", saying[j]) \in Lines /\ Line(j, "ask", saying[j]).kind = "ask"
    BY <2>1, LineTypes, HandBacksApart
  <2> QED  BY <1>1, <2>2, QueueNotices, NoticesFrame DEF AskQueues
<1>2. CASE HandsBack(j)
  BY <1>2, LineTypes, HandBacksApart, QueueNotices, NoticesFrame DEF HandsBack
<1>3. CASE TakesNoticeBack(j)
  BY <1>3, QueueNotices, NoticesFrame DEF TakesNoticeBack
<1>4. ASSUME ~AskQueues(j), ~HandsBack(j), ~TakesNoticeBack(j)
      PROVE  UNCHANGED <<stallLine, sup, queue>>
  BY <1>4 DEF JobStep, Dispatch, Starts, NoteActivity, RunEnds, AskDrains, AskRefused, AskRegisters,
              AskLined, AskSends, Answered, AskTimesOut, AskCancelled, Removes, SendsHandBack, Closes
<1> QED  BY <1>1, <1>2, <1>3, <1>4, QueueNotices, NoticesFrame

LEMMA MainNotices ==
    ASSUME TypeInv, Notices, MainStep
    PROVE  Notices'
<1> USE DEF run, ask, stop, stall, talk
<1>1. UNCHANGED <<stallLine, sup>>
  BY DEF MainStep, Deliver, WaitAny, WaitOne, WaitBegins, WaitStep, WaitLooks, WaitPeeks, WaitTimesOut,
         WaitJudges, WaitTakes, WaitHears, WaitHearsEnd, WaitOnFinished, Extends
<1>2. queue' = Empty \/ queue' = Without(main.got) \/ UNCHANGED queue
  BY DEF MainStep, Deliver, WaitAny, WaitOne, WaitBegins, WaitStep, WaitLooks, WaitPeeks, WaitTimesOut,
         WaitJudges, WaitTakes, WaitHears, WaitHearsEnd, WaitOnFinished, Extends
<1> QED  BY <1>1, <1>2, QueueNotices, NoticesFrame

\* What a sweep decides: a job gets a new last notice only when none of it
\* is unread.
LEMMA JudgeNotices ==
    ASSUME TypeInv, Notices, NEW quiet \in SUBSET Jobs, NEW late \in SUBSET Jobs,
           SweepJudges(quiet, late)
    PROVE  /\ Notices'
           /\ \A j \in Jobs : stalls'[j] # stalls[j] => ~NoticeUnread(j)
<1> DEFINE spent == {j \in late : Judged(j)}
           stalling == {j \in quiet \ spent : Judged(j) /\ Quietable(j) /\ ~NoticeUnread(j)}
           stopping == {j \in stalling : stalls[j] + 1 >= Limit}
           noticed == stalling \ stopping
           notice == [j \in Jobs |-> Line(j, "stall", stalls[j] + 1)]
           acts == {[job |-> j, line |-> notice[j]] : j \in noticed}
                       \cup {[job |-> j, line |-> None] : j \in spent \cup stopping}
<1>1. /\ stalls' = [j \in Jobs |-> IF j \in stalling THEN stalls[j] + 1 ELSE stalls[j]]
      /\ stallLine' = [j \in Jobs |-> IF j \in noticed THEN notice[j] ELSE stallLine[j]]
  BY DEF SweepJudges
<1>2. sup' = IF acts = {} THEN Idle ELSE [at |-> "acting", read |-> {}, acts |-> acts]
  BY DEF SweepJudges
<1>3. sup.at = "judging" /\ UNCHANGED queue
  BY DEF SweepJudges, talk
<1>4. stalling \subseteq Jobs
  OBVIOUS
<1>5. noticed \subseteq stalling
  <2> HIDE DEF stalling, stopping
  <2> QED  OBVIOUS
<1>6. \A j \in stalling : stallLine[j] \notin sup.read
  BY DEF NoticeUnread
<1>7. \A a \in acts : a.line # None => a.job \in noticed /\ a.line = notice[a.job]
  <2> HIDE DEF spent, stopping, noticed, notice
  <2> QED  OBVIOUS
<1> HIDE DEF acts
<1>8. sup'.at # "judging" /\ sup'.acts \subseteq acts
  BY <1>2 DEF Idle
<1>9. \A j \in Jobs : notice[j].kind = "stall" /\ notice[j].job = j
  BY DEF Line
<1> HIDE DEF spent, stalling, stopping, noticed, notice
<1>10. \A j \in Jobs : stallLine'[j] # None => stallLine'[j].kind = "stall" /\ stallLine'[j].job = j
  BY <1>1, <1>9 DEF Notices
<1>11. \A a \in sup'.acts : a.line # None => a.line = stallLine'[a.job]
  BY <1>1, <1>4, <1>5, <1>7, <1>8
<1>12. \A line \in Unread' : line.kind = "stall" => line = stallLine'[line.job]
  <2> SUFFICES ASSUME NEW line \in Unread', line.kind = "stall"
               PROVE  line = stallLine'[line.job]
    OBVIOUS
  <2>1. line \in Unread /\ line.job \in Jobs
    BY <1>3, LineFields DEF Unread, Queued
  <2>2. line = stallLine[line.job] /\ line \in sup.read
    BY <1>3, <2>1 DEF Notices
  <2>3. line.job \notin noticed
    BY <1>6, <1>5, <2>2
  <2> QED  BY <1>1, <2>1, <2>2, <2>3
<1>13. \A j \in Jobs : stalls'[j] # stalls[j] => ~NoticeUnread(j)
  BY <1>1, <1>6 DEF NoticeUnread
<1> QED  BY <1>8, <1>10, <1>11, <1>12, <1>13 DEF Notices

LEMMA SweepNotices ==
    ASSUME TypeInv, Notices, Sweep
    PROVE  Notices'
<1> USE DEF run, ask, stop, stall, talk
<1>1. CASE SweepReads
  <2>1. /\ UNCHANGED <<queue, stallLine>> /\ sup'.acts = sup.acts
        /\ sup'.read = {l \in Unread : l.kind = "stall"}
    BY <1>1 DEF SweepReads, TypeInv, SupType
  <2> QED  BY <2>1 DEF Notices, Unread, Queued
<1>2. ASSUME ActDone, sup.acts # {} PROVE sup'.acts \subseteq sup.acts /\ sup'.at # "judging"
  BY <1>2 DEF ActDone, Idle, TypeInv, SupType
<1>3. CASE ActRechecks
  <2>1. sup.acts # {} /\ UNCHANGED <<queue, stallLine>>
    BY <1>3 DEF ActRechecks, Acting, TypeInv, SupType, Sweeping
  <2>2. sup'.acts \subseteq sup.acts /\ sup'.at # "judging"
    BY <1>2, <1>3, <2>1 DEF ActRechecks, TypeInv, SupType
  <2> QED  BY <2>1, <2>2, NoticesFrame
<1>4. CASE ActQueues
  <2>1. /\ sup.at = "queueing" /\ TheAct.line # None
        /\ sup'.acts = sup.acts /\ sup'.at = "sending" /\ UNCHANGED stallLine
        /\ queue' = [queue EXCEPT ![TheAct.line] = @ + 1]
    BY <1>4 DEF ActQueues, Acting, Enqueue, TypeInv, SupType, Sweeping
  <2>2. TheAct.job \in Jobs /\ TheAct.line = stallLine[TheAct.job] /\ TheAct.line.job = TheAct.job
    BY <2>1, ActIsNotice
  <2>3. ASSUME NEW line \in Unread', line.kind = "stall"
        PROVE  line = stallLine'[line.job]
    <3>1. CASE line = TheAct.line
      BY <2>1, <2>2, <3>1
    <3>2. CASE line # TheAct.line
      <4>1. line \in Unread
        BY <2>1, <2>3, <3>2 DEF Unread, Queued, TypeInv, QueueType
      <4> QED  BY <2>1, <2>3, <4>1 DEF Notices
    <3> QED  BY <3>1, <3>2
  <2> QED  BY <2>1, <2>3 DEF Notices
<1>5. CASE ActSends \/ ActCancels
  <2>1. sup.acts # {} /\ ActDone /\ UNCHANGED <<queue, stallLine>>
    BY <1>5 DEF ActSends, ActCancels, Acting, TypeInv, SupType, Sweeping
  <2> QED  BY <1>2, <2>1, NoticesFrame
<1> QED  BY <1>1, <1>3, <1>4, <1>5, JudgeNotices DEF Sweep

LEMMA NoticesStep ==
    ASSUME TypeInv, Notices, [Next]_vars
    PROVE  Notices'
<1> USE DEF run, ask, stop, stall, talk
<1>1. ASSUME NEW j \in Jobs, Stops(j) PROVE UNCHANGED <<stallLine, sup, queue>>
  BY <1>1 DEF Stops
<1>2. ASSUME NEW r \in Repliers, ReplySends(r) \/ \E j \in Jobs : ReplyClaims(r, j)
      PROVE  UNCHANGED <<stallLine, sup, queue>>
  BY <1>2 DEF ReplySends, ReplyClaims
<1>3. UNCHANGED <<stallLine, sup, queue>> => Notices'
  BY NoticesFrame
<1> QED  BY <1>1, <1>2, <1>3, JobNotices, MainNotices, SweepNotices DEF Next, vars

-----------------------------------------------------------------------------
(* Answers *)

\* A job whose question, claim and answer stay as they are, and that does not
\* leave the call that asks.
LEMMA AnswerFrame ==
    ASSUME Answers, NEW j \in Jobs,
           UNCHANGED <<asks[j], question[j], reply[j], answering>>,
           cancelled[j] => cancelled'[j],
           Asked(j) => Asked(j)'
    PROVE  AnswerOf(j)'
<1>1. AnswerOf(j)
  BY DEF Answers
<1> QED  BY <1>1 DEF AnswerOf, Claimed

\* What one job does is nothing to another's question.
LEMMA OthersAnswers ==
    ASSUME TypeInv, Answers, NEW j \in Jobs, JobStep(j), NEW k \in Jobs, k # j
    PROVE  AnswerOf(k)'
<1> USE DEF ask, stop, stall, talk, Phase
<1>1. UNCHANGED <<asks[k], question[k], reply[k], cancelled[k], phase[k], answering>>
  <2> USE DEF TypeInv, RunType, AskType, StopType
  <2>1. CASE Dispatch(j) \/ Starts(j) \/ NoteActivity(j) \/ TakesNoticeBack(j) \/ RunEnds(j)
    BY <2>1 DEF Dispatch, Starts, NoteActivity, TakesNoticeBack, RunEnds
  <2>2. CASE Removes(j) \/ HandsBack(j) \/ SendsHandBack(j) \/ Closes(j)
    BY <2>2 DEF Removes, HandsBack, SendsHandBack, Closes
  <2>3. CASE AskDrains(j) \/ AskRefused(j) \/ \E text \in Texts : AskRegisters(j, text)
    BY <2>3 DEF AskDrains, AskRefused, AskRegisters
  <2>4. CASE AskQueues(j) \/ AskLined(j) \/ AskSends(j)
    BY <2>4 DEF AskQueues, AskLined, AskSends
  <2>5. CASE Answered(j) \/ AskTimesOut(j) \/ AskCancelled(j)
    BY <2>5 DEF Answered, AskTimesOut, AskCancelled
  <2> QED  BY <2>1, <2>2, <2>3, <2>4, <2>5 DEF JobStep
<1> QED  BY <1>1, AnswerFrame DEF Asked

LEMMA JobAnswers ==
    ASSUME TypeInv, Answers, NEW j \in Jobs, JobStep(j)
    PROVE  Answers'
<1> USE DEF ask, stop, stall, talk
<1>0. /\ AnswerOf(j) /\ phase \in [Jobs -> Alive \cup Gone \cup {"none"}]
      /\ asks[j] \in Nat /\ asks \in [Jobs -> 0 .. MaxAsks] /\ question \in [Jobs -> 0 .. MaxAsks]
      /\ reply \in [Jobs -> 0 .. MaxAsks] /\ cancelled \in [Jobs -> BOOLEAN]
  BY JobLinesAssumption DEF Answers, TypeInv, RunType, AskType, StopType
<1>1. AnswerOf(j)'
  <2>1. CASE Dispatch(j) \/ Starts(j) \/ TakesNoticeBack(j) \/ RunEnds(j)
    <3>1. UNCHANGED <<asks[j], question[j], reply[j], cancelled[j], answering>> /\ ~Asked(j)
      BY <2>1 DEF Dispatch, Starts, TakesNoticeBack, RunEnds, Phase, Asked
    <3> QED  BY <3>1, AnswerFrame
  <2>2. CASE Removes(j) \/ HandsBack(j) \/ SendsHandBack(j) \/ Closes(j)
    <3>1. UNCHANGED <<asks[j], question[j], reply[j], cancelled[j], answering>> /\ ~Asked(j)
      BY <2>2 DEF Removes, HandsBack, SendsHandBack, Closes, Phase, Asked
    <3> QED  BY <3>1, AnswerFrame
  <2>3. CASE NoteActivity(j) \/ AskRefused(j)
    <3>1. UNCHANGED <<asks[j], question[j], reply[j], cancelled[j], answering>> /\ ~Asked(j)
      BY <2>3 DEF NoteActivity, AskRefused, Phase, Asked
    <3> QED  BY <3>1, AnswerFrame
  <2>4. CASE AskDrains(j)
    <3>1. /\ UNCHANGED <<asks, question, cancelled, answering>> /\ reply' = [reply EXCEPT ![j] = 0]
          /\ ~Asked(j)
      BY <2>4 DEF AskDrains, Phase, Asked
    <3> QED  BY <1>0, <3>1 DEF AnswerOf, Claimed
  <2>5. ASSUME NEW text \in Texts, AskRegisters(j, text) PROVE AnswerOf(j)'
    <3>1. /\ UNCHANGED <<reply, cancelled, answering>> /\ question[j] = 0 /\ ~Asked(j)
          /\ asks' = [asks EXCEPT ![j] = @ + 1] /\ question' = [question EXCEPT ![j] = asks[j] + 1]
          /\ phase' = [phase EXCEPT ![j] = "asked"]
      BY <2>5 DEF AskRegisters, Phase, Asked
    <3>2. asks'[j] = asks[j] + 1 /\ question'[j] = asks[j] + 1 /\ Asked(j)'
      BY <1>0, <3>1 DEF Asked
    <3>3. ~cancelled[j] => reply[j] = 0 /\ \A r \in Repliers : ~Claimed(j, r)
      BY <1>0, <3>1 DEF AnswerOf
    <3> QED  BY <3>1, <3>2, <3>3 DEF AnswerOf, Claimed
  <2>6. CASE AskQueues(j) \/ AskLined(j) \/ AskSends(j)
    <3>1. UNCHANGED <<asks[j], question[j], reply[j], cancelled[j], answering>> /\ Asked(j)'
      BY <1>0, <2>6 DEF AskQueues, AskLined, AskSends, Phase, Asked
    <3> QED  BY <3>1, AnswerFrame
  <2>7. CASE Answered(j)
    <3>1. /\ UNCHANGED <<asks, question, cancelled, answering>> /\ reply' = [reply EXCEPT ![j] = 0]
          /\ reply[j] # 0
      BY <2>7 DEF Answered
    <3>2. ~cancelled[j] => question[j] = 0 /\ \A r \in Repliers : ~Claimed(j, r)
      BY <1>0, <3>1 DEF AnswerOf
    <3> QED  BY <1>0, <3>1, <3>2 DEF AnswerOf, Claimed
  <2>8. CASE AskTimesOut(j) \/ AskCancelled(j)
    <3>1. cancelled'[j]
      BY <1>0, <2>8 DEF AskTimesOut, AskCancelled
    <3> QED  BY <3>1 DEF AnswerOf
  <2> QED  BY <2>1, <2>2, <2>3, <2>4, <2>5, <2>6, <2>7, <2>8 DEF JobStep
<1> QED  BY <1>1, OthersAnswers DEF Answers

LEMMA ReplyAnswers ==
    ASSUME TypeInv, Answers, NEW r \in Repliers,
           ReplySends(r) \/ \E j \in Jobs : ReplyClaims(r, j)
    PROVE  Answers'
<1> USE DEF run, ask, stop, stall, talk
<1>0. /\ question \in [Jobs -> 0 .. MaxAsks] /\ reply \in [Jobs -> 0 .. MaxAsks]
      /\ answering \in [Repliers -> {NoAnswer} \cup [job : Jobs, ask : 1 .. MaxAsks]]
      /\ None \notin Jobs /\ NoAnswer.job = None
  BY JobLinesAssumption DEF TypeInv, AskType, ReplyType, NoAnswer
<1> SUFFICES ASSUME NEW k \in Jobs, ~cancelled'[k] PROVE AnswerOf(k)'
  BY DEF Answers, AnswerOf
<1>1. AnswerOf(k)
  BY DEF Answers
<1>2. CASE ReplySends(r)
  <2> DEFINE j == answering[r].job
  <2>1. /\ answering[r] # NoAnswer /\ reply' = [reply EXCEPT ![j] = answering[r].ask]
        /\ answering' = [answering EXCEPT ![r] = NoAnswer]
        /\ UNCHANGED <<asks, question, cancelled, phase>>
    BY <1>2 DEF ReplySends
  <2>2. ~Claimed(k, r)' /\ \A q \in Repliers \ {r} : answering'[q] = answering[q]
    BY <1>0, <2>1 DEF Claimed
  <2>3. CASE k = j
    <3>1. /\ Claimed(k, r) /\ answering[r].ask = asks[k] /\ Asked(k)
          /\ question[k] = 0 /\ \A q \in Repliers \ {r} : ~Claimed(k, q)
      BY <1>0, <1>1, <2>1, <2>3 DEF AnswerOf, Claimed
    <3>2. reply'[k] = asks[k] /\ Asked(k)'
      BY <1>0, <2>1, <2>3, <3>1 DEF Asked
    <3>3. \A q \in Repliers : ~Claimed(k, q)'
      BY <2>2, <3>1 DEF Claimed
    <3> QED  BY <2>1, <3>1, <3>2, <3>3 DEF AnswerOf
  <2>4. CASE k # j
    <3>1. reply'[k] = reply[k] /\ ~Claimed(k, r) /\ (Asked(k)' <=> Asked(k))
      BY <1>0, <2>1, <2>4 DEF Claimed, Asked
    <3>2. \A q \in Repliers : (Claimed(k, q)' <=> Claimed(k, q)) /\ (Claimed(k, q) => answering'[q] = answering[q])
      BY <2>2, <3>1 DEF Claimed
    <3> QED  BY <1>1, <2>1, <3>1, <3>2 DEF AnswerOf
  <2> QED  BY <2>3, <2>4
<1>3. ASSUME NEW j \in Jobs, ReplyClaims(r, j) PROVE AnswerOf(k)'
  <2>1. /\ answering[r] = NoAnswer /\ question[j] # 0
        /\ question' = [question EXCEPT ![j] = 0]
        /\ answering' = [answering EXCEPT ![r] = [job |-> j, ask |-> question[j]]]
        /\ UNCHANGED <<asks, reply, cancelled, phase>>
    BY <1>3 DEF ReplyClaims, Free
  <2>2. /\ answering'[r].job = j /\ answering'[r].ask = question[j]
        /\ \A q \in Repliers \ {r} : answering'[q] = answering[q]
        /\ ~Claimed(k, r)
    BY <1>0, <2>1 DEF Claimed
  <2>3. CASE k = j
    <3>1. /\ question[k] = asks[k] /\ reply[k] = 0 /\ Asked(k) /\ \A q \in Repliers : ~Claimed(k, q)
      BY <1>1, <2>1, <2>3 DEF AnswerOf
    <3>2. question'[k] = 0 /\ reply'[k] = 0 /\ Asked(k)'
      BY <1>0, <2>1, <2>3, <3>1 DEF Asked
    <3>3. \A q \in Repliers : Claimed(k, q)' => q = r /\ answering'[q].ask = asks'[k]
      BY <2>1, <2>2, <2>3, <3>1 DEF Claimed
    <3> QED  BY <3>2, <3>3 DEF AnswerOf
  <2>4. CASE k # j
    <3>1. question'[k] = question[k] /\ ~Claimed(k, r)' /\ (Asked(k)' <=> Asked(k))
      BY <1>0, <2>1, <2>2, <2>4 DEF Claimed, Asked
    <3>2. \A q \in Repliers : (Claimed(k, q)' <=> Claimed(k, q)) /\ (Claimed(k, q) => answering'[q] = answering[q])
      BY <2>2, <3>1 DEF Claimed
    <3> QED  BY <1>1, <2>1, <3>1, <3>2 DEF AnswerOf
  <2> QED  BY <2>3, <2>4
<1> QED  BY <1>2, <1>3

LEMMA AnswersStep ==
    ASSUME TypeInv, Answers, [Next]_vars
    PROVE  Answers'
<1> USE DEF run, ask, stop, stall, talk
<1>1. ASSUME UNCHANGED <<phase, asks, question, reply, answering>>,
             \A j \in Jobs : cancelled[j] => cancelled'[j]
      PROVE  Answers'
  BY <1>1, AnswerFrame DEF Answers, Asked
<1>2. CASE MainStep
  <2>1. UNCHANGED <<phase, asks, question, reply, answering, cancelled>>
    BY <1>2 DEF MainStep, Deliver, WaitAny, WaitOne, WaitBegins, WaitStep, WaitLooks, WaitPeeks, WaitTimesOut,
         WaitJudges, WaitTakes, WaitHears, WaitHearsEnd, WaitOnFinished, Extends
  <2> QED  BY <1>1, <2>1
<1>3. CASE Sweep
  <2>1. UNCHANGED <<phase, asks, question, reply, answering>>
    BY <1>3 DEF Sweep, SweepReads, SweepJudges, ActRechecks, ActQueues, ActSends, ActCancels
  <2>2. \A j \in Jobs : cancelled[j] => cancelled'[j]
    BY <1>3 DEF Sweep, SweepReads, SweepJudges, ActRechecks, ActQueues, ActSends, ActCancels,
                TypeInv, StopType
  <2> QED  BY <1>1, <2>1, <2>2
<1>4. ASSUME NEW j \in Jobs, Stops(j) PROVE Answers'
  BY <1>1, <1>4 DEF Stops, TypeInv, StopType
<1>5. CASE UNCHANGED vars
  BY <1>1, <1>5 DEF vars
<1> QED  BY <1>2, <1>3, <1>4, <1>5, JobAnswers, ReplyAnswers DEF Next

-----------------------------------------------------------------------------
(* Theorems *)

LEMMA InvInit == Init => Inv
<1> SUFFICES ASSUME Init PROVE Inv
  OBVIOUS
<1>1. ASSUME NEW j \in Jobs PROVE handed[j] = 0 /\ queue[HandBackLine(j)] = 0
  BY LineTypes DEF Init, Empty
<1>2. Notices
  BY DEF Init, Notices, Unread, Queued, Empty, Idle
<1>3. Answers
  BY JobLinesAssumption DEF Init, Answers, AnswerOf, Claimed, Asked, NoAnswer
<1> QED  BY <1>1, <1>2, <1>3, TypeInit DEF Inv, LineInv, Handing

LEMMA InvStep == Inv /\ [Next]_vars => Inv'
<1> SUFFICES ASSUME Inv, [Next]_vars PROVE Inv'
  OBVIOUS
<1>1. TypeInv'
  BY TypeStep DEF Inv
<1> QED  BY <1>1, HandingStep, NoticesStep, AnswersStep DEF Inv, LineInv

LEMMA InvHolds == Spec => []Inv
  BY InvInit, InvStep, PTL DEF Spec

\* No hand-back is put to the main model twice, and one it has had is not in
\* the queue, although a turn and a wait hear of it by two ways.
THEOREM HandBacksOnce == Spec => []HandedOnce
<1>1. Inv => HandedOnce
  BY DEF Inv, LineInv, Handing, HandedOnce
<1> QED  BY <1>1, InvHolds, PTL

\* Only the sweep's critical section counts a stall.
LEMMA StallsJudged ==
    ASSUME TypeInv, [Next]_vars, NEW j \in Jobs, stalls'[j] > stalls[j]
    PROVE  \E quiet, late \in SUBSET Jobs : SweepJudges(quiet, late)
<1> USE DEF run, ask, stop, stall, talk
<1>0. stalls \in [Jobs -> 0 .. Limit] /\ stalls'[j] # stalls[j]
  BY JobLinesAssumption DEF TypeInv, StallType
<1>1. ASSUME NEW k \in Jobs, JobStep(k) PROVE FALSE
  <2>1. stalls' = stalls \/ stalls' = [stalls EXCEPT ![k] = 0]
    BY <1>1 DEF JobStep, Dispatch, Starts, NoteActivity, TakesNoticeBack, RunEnds, AskDrains, AskRefused,
         AskRegisters, AskQueues, AskLined, AskSends, Answered, AskTimesOut, AskCancelled,
         Removes, HandsBack, SendsHandBack, Closes
  <2>2. stalls[j] >= 0
    BY <1>0, JobLinesAssumption
  <2>3. stalls' = [stalls EXCEPT ![k] = 0]
    BY <1>0, <2>1
  <2>4. stalls'[j] = 0 \/ stalls'[j] = stalls[j]
    BY <1>0, <2>3
  <2>5. stalls[j] \in Int
    BY <1>0, JobLinesAssumption
  <2> QED  BY <1>0, <2>2, <2>4, <2>5
<1>2. ASSUME NEW k \in Jobs, Stops(k) PROVE FALSE
  BY <1>0, <1>2 DEF Stops
<1>3. ~MainStep
  BY <1>0 DEF MainStep, Deliver, WaitAny, WaitOne, WaitBegins, WaitStep, WaitLooks, WaitPeeks, WaitTimesOut,
       WaitJudges, WaitTakes, WaitHears, WaitHearsEnd, WaitOnFinished, Extends
<1>4. ~(SweepReads \/ ActRechecks \/ ActQueues \/ ActSends \/ ActCancels)
  BY <1>0 DEF SweepReads, ActRechecks, ActQueues, ActSends, ActCancels
<1>5. ASSUME NEW r \in Repliers, ReplySends(r) \/ \E k \in Jobs : ReplyClaims(r, k) PROVE FALSE
  BY <1>0, <1>5 DEF ReplySends, ReplyClaims
<1>6. vars' # vars
  BY <1>0 DEF vars
<1> QED  BY <1>1, <1>2, <1>3, <1>4, <1>5, <1>6 DEF Next, Sweep

\* A stall is never counted against a job one of whose notices is in the
\* queue, although the sweep has looked at the queue a step earlier.
THEOREM NoticesRead == Spec => NoticeRead
<1>1. ASSUME Inv, [Next]_vars, NEW j \in Jobs, stalls'[j] > stalls[j],
             NEW line \in Unread, line.job = j, line.kind = "stall"
      PROVE  FALSE
  <2>1. PICK quiet \in SUBSET Jobs, late \in SUBSET Jobs : SweepJudges(quiet, late)
    BY <1>1, StallsJudged DEF Inv
  <2>2. line = stallLine[j] /\ line \in sup.read
    BY <1>1, <2>1 DEF Inv, LineInv, Notices, SweepJudges
  <2>3. stalls'[j] # stalls[j]
    BY <1>1, JobLinesAssumption DEF Inv, TypeInv, StallType
  <2>4. ~NoticeUnread(j)
    BY <1>1, <2>1, <2>3, JudgeNotices DEF Inv, LineInv
  <2> QED  BY <2>2, <2>4 DEF NoticeUnread
<1>2. Inv /\ [Next]_vars =>
        \A j \in Jobs : stalls'[j] > stalls[j] =>
            ~\E line \in Unread : line.job = j /\ line.kind = "stall"
  BY <1>1
<1>3. Inv /\ [Next]_vars =>
        [\A j \in Jobs : stalls'[j] > stalls[j] =>
            ~\E line \in Unread : line.job = j /\ line.kind = "stall"]_vars
  BY <1>2
<1> QED  BY <1>3, InvHolds, PTL DEF Spec, NoticeRead

\* The answer that ends a question of a job that goes on was given to that
\* question, whoever gave it and however late.
THEOREM AnswersMeetTheirAsk == Spec => AnswersItsAsk
<1>1. ASSUME Inv, NEW j \in Jobs, phase[j] = "parked", phase'[j] = "answered", reply'[j] # reply[j],
             [Next]_vars, ~cancelled[j]
      PROVE  reply[j] = asks[j]
  <2> USE DEF run, ask, stop, stall, talk
  <2>0. /\ phase \in [Jobs -> Alive \cup Gone \cup {"none"}]
        /\ reply[j] \in {0, asks[j]}
    BY <1>1 DEF Inv, TypeInv, RunType, Answers, AnswerOf
  <2>1. phase'[j] # phase[j]
    BY <1>1
  <2>2. ASSUME NEW k \in Jobs, JobStep(k) PROVE reply[j] # 0
    <3>1. k = j \/ phase'[j] = phase[j]
      BY <2>0, <2>2 DEF JobStep, Dispatch, Starts, NoteActivity, TakesNoticeBack, RunEnds, AskDrains, AskRefused,
         AskRegisters, AskQueues, AskLined, AskSends, Answered, AskTimesOut, AskCancelled,
         Removes, HandsBack, SendsHandBack, Closes, Phase
    <3>2. reply' = reply \/ AskDrains(j) \/ Answered(j)
      BY <2>1, <2>2, <3>1 DEF JobStep, Dispatch, Starts, NoteActivity, TakesNoticeBack, RunEnds, AskRefused,
         AskRegisters, AskQueues, AskLined, AskSends, AskTimesOut, AskCancelled,
         Removes, HandsBack, SendsHandBack, Closes
    <3>3. Answered(j)
      BY <1>1, <3>2 DEF AskDrains, Phase
    <3> QED  BY <3>3 DEF Answered
  <2>3. UNCHANGED phase => FALSE
    BY <2>1
  <2>4. MainStep \/ Sweep => UNCHANGED phase
    BY DEF MainStep, Deliver, WaitAny, WaitOne, WaitBegins, WaitStep, WaitLooks, WaitPeeks, WaitTimesOut,
       WaitJudges, WaitTakes, WaitHears, WaitHearsEnd, WaitOnFinished, Extends,
       Sweep, SweepReads, SweepJudges, ActRechecks, ActQueues, ActSends, ActCancels
  <2>5. ASSUME NEW k \in Jobs, Stops(k) PROVE UNCHANGED phase
    BY <2>5 DEF Stops
  <2>6. ASSUME NEW r \in Repliers, ReplySends(r) \/ \E k \in Jobs : ReplyClaims(r, k) PROVE UNCHANGED phase
    BY <2>6 DEF ReplySends, ReplyClaims
  <2>7. UNCHANGED vars => UNCHANGED phase
    BY DEF vars
  <2>8. reply[j] # 0
    BY <1>1, <2>2, <2>3, <2>4, <2>5, <2>6, <2>7 DEF Next
  <2> QED  BY <2>0, <2>8
<1>2. Inv /\ [Next]_vars =>
        [\A j \in Jobs : phase[j] = "parked" /\ phase'[j] = "answered" /\ reply'[j] # reply[j]
            => cancelled[j] \/ reply[j] = asks[j]]_vars
  BY <1>1
<1> QED  BY <1>2, InvHolds, PTL DEF Spec, AnswersItsAsk

-----------------------------------------------------------------------------
(* What a wait hears *)

\* What a run's channel holds of a line: the last event, or the one before.
LastIs(s, line) == Len(s) >= 1 /\ s[Len(s)] = line
NextToLastIs(s, line) == Len(s) >= 2 /\ s[Len(s) - 1] = line

Open(j) == phase[j] = "parked" /\ question[j] # 0
Stalled(j) == Running(j) /\ stalled[j]

\* A wait has taken the line out of the channel and is about to return it.
Heard(line) == main.at \in {"judging", "taking"} /\ main.got = line

\* The sweep has a notice of the job to give; the queue has it already and
\* the channel not yet.
Noticing(j) == \E a \in sup.acts : a.job = j /\ a.line # None
Sending(j) == sup.at = "sending" /\ TheAct.job = j

\* A parked question has a line, its own; a stall that is counted had a
\* notice.
AskSaid(j) ==
    /\ phase[j] = "lined" => askLine[j] = Line(j, "ask", saying[j])
    /\ phase[j] = "parked" => askLine[j] # None
    /\ askLine[j] # None => askLine[j].kind = "ask" /\ askLine[j].job = j
StallSaid(j) ==
    /\ phase[j] = "none" => ~stalled[j]
    /\ stalled[j] \/ stalls[j] > 0 => stallLine[j] # None

\* A line that is still to be read is among the last two events its job's
\* channel got, which a channel of two and more does not drop, or in the
\* hand of a wait that heard of it.  Nothing but a notice decided on before
\* the question follows a question, nothing but a question a notice.
AskTold(j) == Open(j) /\ Queued(askLine[j]) =>
    \/ Heard(askLine[j]) \/ LastIs(events[j], askLine[j])
    \/ NextToLastIs(events[j], askLine[j]) /\ ~Noticing(j)
StallTold(j) == Stalled(j) /\ Queued(stallLine[j]) /\ ~Sending(j) =>
    \/ Heard(stallLine[j]) \/ LastIs(events[j], stallLine[j])
    \/ NextToLastIs(events[j], stallLine[j]) /\ phase[j] \in {"parked", "answered"}

\* A wait waits only after it has found the open questions' lines unread.
Looked(j) == j \in main.waits /\ Open(j) =>
    /\ main.at = "peeking" => askLine[j] \in main.open \/ events[j] # <<>>
    /\ main.at = "waiting" => Queued(askLine[j]) \/ events[j] # <<>>

HearInv == \A j \in Jobs : AskSaid(j) /\ StallSaid(j) /\ AskTold(j) /\ StallTold(j) /\ Looked(j)

\* A new event leaves the last one next to it; without its oldest event a
\* channel of two keeps its last.
LEMMA LastTypes ==
    ASSUME NEW s \in Seq(Lines)
    PROVE  /\ \A line \in Lines : /\ Append(s, line) # <<>> /\ LastIs(Append(s, line), line)
                 /\ \A old : LastIs(s, old) => NextToLastIs(Append(s, line), old)
           /\ \A line : LastIs(s, line) /\ Len(s) >= 2 => LastIs(Tail(s), line)
<1>0. Len(s) \in Nat
  BY LenProperties
<1>1. ASSUME NEW line \in Lines
      PROVE  /\ Append(s, line) # <<>> /\ LastIs(Append(s, line), line)
             /\ \A old : LastIs(s, old) => NextToLastIs(Append(s, line), old)
  <2>1. /\ Len(Append(s, line)) = Len(s) + 1 /\ Append(s, line) # <<>>
        /\ \A i \in 1 .. Len(s) : Append(s, line)[i] = s[i]
        /\ Append(s, line)[Len(s) + 1] = line
    BY <1>0, AppendProperties
  <2> QED  BY <1>0, <2>1 DEF LastIs, NextToLastIs
<1>2. ASSUME s # <<>>
      PROVE  /\ Len(s) >= 1 /\ Head(s) = s[1] /\ Len(Tail(s)) = Len(s) - 1
             /\ \A i \in 1 .. Len(Tail(s)) : Tail(s)[i] = s[i + 1]
  BY <1>0, <1>2, HeadTailProperties, EmptySeq
<1>3. ASSUME NEW line, LastIs(s, line), Len(s) >= 2 PROVE LastIs(Tail(s), line)
  <2>1. s # <<>>
    BY <1>3, EmptySeq
  <2> QED  BY <1>0, <1>2, <1>3, <2>1 DEF LastIs
<1> QED  BY <1>1, <1>3

\* A wait takes the oldest event.
LEMMA TailLast ==
    ASSUME NEW s \in Seq(Lines), s # <<>>, NEW line
    PROVE  /\ LastIs(s, line) => Head(s) = line \/ LastIs(Tail(s), line)
           /\ NextToLastIs(s, line) => Head(s) = line \/ NextToLastIs(Tail(s), line)
<1>1. Len(s) \in Nat /\ Len(s) >= 1 /\ Head(s) = s[1] /\ Len(Tail(s)) = Len(s) - 1
  BY HeadTailProperties, LenProperties, EmptySeq
<1>2. \A i \in 1 .. Len(Tail(s)) : Tail(s)[i] = s[i + 1]
  BY HeadTailProperties
<1> QED  BY <1>1, <1>2 DEF LastIs, NextToLastIs

\* A full channel drops its oldest event and so never the last one.
LEMMA SendLast ==
    ASSUME EventType, NEW j \in Jobs, NEW line \in Lines, SendEvent(j, line)
    PROVE  /\ events'[j] # <<>> /\ LastIs(events'[j], line)
           /\ \A old : LastIs(events[j], old) => NextToLastIs(events'[j], old)
           /\ \A k \in Jobs \ {j} : events'[k] = events[k]
<1> DEFINE kept == IF Len(events[j]) < EventCap THEN events[j] ELSE Tail(events[j])
<1>1. EventCap \in Nat /\ EventCap >= 2
  BY JobLinesAssumption
<1>2. /\ events \in [Jobs -> Seq(Lines)] /\ Len(events[j]) <= EventCap
      /\ events' = [events EXCEPT ![j] = Append(kept, line)]
  BY DEF SendEvent, EventType
<1>3. events[j] \in Seq(Lines) /\ Len(events[j]) \in Nat
  BY <1>2, LenProperties
<1>4. kept \in Seq(Lines) /\ \A old : LastIs(events[j], old) => LastIs(kept, old)
  <2>1. CASE Len(events[j]) < EventCap
    BY <1>3, <2>1
  <2>2. CASE ~(Len(events[j]) < EventCap)
    <3>1. Len(events[j]) >= 2 /\ events[j] # <<>>
      BY <1>1, <1>3, <2>2, EmptySeq
    <3>2. kept = Tail(events[j]) /\ Tail(events[j]) \in Seq(Lines)
      BY <1>3, <2>2, <3>1, HeadTailProperties
    <3> QED  BY <1>3, <3>1, <3>2, LastTypes
  <2> QED  BY <2>1, <2>2
<1> HIDE DEF kept
<1>5. events'[j] = Append(kept, line) /\ \A k \in Jobs \ {j} : events'[k] = events[k]
  BY <1>2
<1> QED  BY <1>4, <1>5, LastTypes

-----------------------------------------------------------------------------
(* What a step may change of a job *)

\* A step of another job, of the supervisor, of the main model or of a
\* replier leaves a job where it is and its question's line alone.
LEMMA PlaceSteps ==
    ASSUME TypeInv, [Next]_vars, NEW j \in Jobs, ~JobStep(j)
    PROVE  phase'[j] = phase[j] /\ saying'[j] = saying[j] /\ askLine'[j] = askLine[j]
<1> USE DEF run, ask, stop, stall, talk
<1>0. /\ phase \in [Jobs -> Alive \cup Gone \cup {"none"}]
      /\ saying \in [Jobs -> Texts \cup {None}] /\ askLine \in [Jobs -> Lines \cup {None}]
  BY DEF TypeInv, RunType, AskType
<1>1. ASSUME NEW k \in Jobs, JobStep(k) PROVE phase'[j] = phase[j] /\ saying'[j] = saying[j] /\ askLine'[j] = askLine[j]
  <2>1. k # j
    BY <1>1
  <2>2. phase'[j] = phase[j]
    BY <1>0, <1>1, <2>1 DEF JobStep, Dispatch, Starts, NoteActivity, TakesNoticeBack, RunEnds, AskDrains, AskRefused,
         AskRegisters, AskQueues, AskLined, AskSends, Answered, AskTimesOut, AskCancelled,
         Removes, HandsBack, SendsHandBack, Closes, Phase
  <2>3. saying'[j] = saying[j]
    BY <1>0, <1>1, <2>1 DEF JobStep, Dispatch, Starts, NoteActivity, TakesNoticeBack, RunEnds, AskDrains, AskRefused,
         AskRegisters, AskQueues, AskLined, AskSends, Answered, AskTimesOut, AskCancelled,
         Removes, HandsBack, SendsHandBack, Closes
  <2>4. askLine'[j] = askLine[j]
    BY <1>0, <1>1, <2>1 DEF JobStep, Dispatch, Starts, NoteActivity, TakesNoticeBack, RunEnds, AskDrains, AskRefused,
         AskRegisters, AskQueues, AskLined, AskSends, Answered, AskTimesOut, AskCancelled,
         Removes, HandsBack, SendsHandBack, Closes
  <2> QED  BY <2>2, <2>3, <2>4
<1>2. MainStep => UNCHANGED <<phase, saying, askLine>>
  BY DEF MainStep, Deliver, WaitAny, WaitOne, WaitBegins, WaitStep, WaitLooks, WaitPeeks, WaitTimesOut,
       WaitJudges, WaitTakes, WaitHears, WaitHearsEnd, WaitOnFinished, Extends
<1>3. Sweep => UNCHANGED <<phase, saying, askLine>>
  BY DEF Sweep, SweepReads, SweepJudges, ActRechecks, ActQueues, ActSends, ActCancels
<1>4. ASSUME NEW k \in Jobs, Stops(k) PROVE UNCHANGED <<phase, saying, askLine>>
  BY <1>4 DEF Stops
<1>5. ASSUME NEW r \in Repliers, ReplySends(r) \/ \E k \in Jobs : ReplyClaims(r, k)
      PROVE  UNCHANGED <<phase, saying, askLine>>
  BY <1>5 DEF ReplySends, ReplyClaims
<1>6. UNCHANGED vars => UNCHANGED <<phase, saying, askLine>>
  BY DEF vars
<1> QED  BY <1>1, <1>2, <1>3, <1>4, <1>5, <1>6 DEF Next

\* The steps of a goroutine that enter a question, send its line or leave
\* it; every other one leads elsewhere.
LEMMA AskPlaces ==
    ASSUME TypeInv, NEW j \in Jobs, JobStep(j)
    PROVE  \/ (\E text \in Texts : AskRegisters(j, text)) \/ AskQueues(j) \/ AskLined(j) \/ AskSends(j)
           \/ /\ askLine'[j] = askLine[j] /\ phase'[j] \notin {"none", "lined", "parked"}
              /\ phase[j] = "parked" => phase'[j] = "answered"
<1> USE DEF run, ask, stop, stall, talk
<1>0. phase \in [Jobs -> Alive \cup Gone \cup {"none"}]
  BY DEF TypeInv, RunType
<1>1. CASE Dispatch(j) \/ Starts(j) \/ TakesNoticeBack(j) \/ RunEnds(j)
  BY <1>0, <1>1 DEF Dispatch, Starts, TakesNoticeBack, RunEnds, Phase
<1>2. CASE NoteActivity(j)
  BY <1>0, <1>2 DEF NoteActivity
<1>3. CASE AskDrains(j) \/ AskRefused(j)
  BY <1>0, <1>3 DEF AskDrains, AskRefused, Phase
<1>4. CASE Answered(j) \/ AskTimesOut(j) \/ AskCancelled(j)
  BY <1>0, <1>4 DEF Answered, AskTimesOut, AskCancelled, Phase
<1>5. CASE Removes(j) \/ HandsBack(j) \/ SendsHandBack(j) \/ Closes(j)
  BY <1>0, <1>5 DEF Removes, HandsBack, SendsHandBack, Closes, Phase
<1> QED  BY <1>1, <1>2, <1>3, <1>4, <1>5 DEF JobStep

\* A question is open that was open before, or whose line was just sent.
LEMMA OpenSteps ==
    ASSUME TypeInv, [Next]_vars, NEW j \in Jobs, Open(j)'
    PROVE  AskSends(j) \/ (Open(j) /\ askLine'[j] = askLine[j])
<1> USE DEF run, ask, stop, stall, talk
<1>0. /\ phase \in [Jobs -> Alive \cup Gone \cup {"none"}] /\ question \in [Jobs -> 0 .. MaxAsks]
      /\ phase'[j] = "parked" /\ question'[j] # 0
  BY DEF TypeInv, RunType, AskType, Open
<1>1. CASE JobStep(j)
  BY <1>0, <1>1, AskPlaces DEF AskRegisters, AskQueues, AskLined, Phase
<1>2. CASE ~JobStep(j)
  <2>1. phase[j] = "parked" /\ askLine'[j] = askLine[j]
    BY <1>0, <1>2, PlaceSteps
  <2>2. question[j] # 0
    <3>1. ASSUME NEW k \in Jobs, JobStep(k) PROVE question'[j] = question[j]
      BY <1>0, <1>2, <3>1 DEF JobStep, Dispatch, Starts, NoteActivity, TakesNoticeBack, RunEnds, AskDrains, AskRefused,
         AskRegisters, AskQueues, AskLined, AskSends, Answered, AskTimesOut, AskCancelled,
         Removes, HandsBack, SendsHandBack, Closes
    <3>2. MainStep => UNCHANGED question
      BY DEF MainStep, Deliver, WaitAny, WaitOne, WaitBegins, WaitStep, WaitLooks, WaitPeeks, WaitTimesOut,
       WaitJudges, WaitTakes, WaitHears, WaitHearsEnd, WaitOnFinished, Extends
    <3>3. Sweep => UNCHANGED question
      BY DEF Sweep, SweepReads, SweepJudges, ActRechecks, ActQueues, ActSends, ActCancels
    <3>4. ASSUME NEW k \in Jobs, Stops(k) PROVE UNCHANGED question
      BY <3>4 DEF Stops
    <3>5. ASSUME NEW r \in Repliers, ReplySends(r) PROVE UNCHANGED question
      BY <3>5 DEF ReplySends
    <3>6. ASSUME NEW r \in Repliers, NEW k \in Jobs, ReplyClaims(r, k) PROVE question'[j] \in {0, question[j]}
      BY <1>0, <3>6 DEF ReplyClaims
    <3>7. UNCHANGED vars => UNCHANGED question
      BY DEF vars
    <3> QED  BY <1>0, <3>1, <3>2, <3>3, <3>4, <3>5, <3>6, <3>7 DEF Next
  <2> QED  BY <2>1, <2>2 DEF Open
<1> QED  BY <1>1, <1>2

\* What changes a job's channel.
LEMMA EventSteps ==
    ASSUME TypeInv, [Next]_vars, NEW j \in Jobs, events'[j] # events[j]
    PROVE  \/ AskSends(j) \/ SendsHandBack(j) \/ (ActSends /\ TheAct.job = j) \/ WaitHears(j)
<1> USE DEF run, ask, stop, stall, talk
<1>0. events \in [Jobs -> Seq(Lines)]
  BY DEF TypeInv, EventType
<1>1. ASSUME NEW k \in Jobs, JobStep(k) PROVE AskSends(j) \/ SendsHandBack(j)
  <2>1. UNCHANGED events \/ AskSends(k) \/ SendsHandBack(k)
    BY <1>1 DEF JobStep, Dispatch, Starts, NoteActivity, TakesNoticeBack, RunEnds, AskDrains, AskRefused,
         AskRegisters, AskQueues, AskLined, Answered, AskTimesOut, AskCancelled,
         Removes, HandsBack, Closes
  <2>2. k = j
    BY <1>0, <2>1 DEF AskSends, SendsHandBack, SendEvent
  <2> QED  BY <2>1, <2>2
<1>2. ASSUME MainStep PROVE WaitHears(j)
  <2>1. UNCHANGED events \/ \E k \in Jobs : WaitHears(k)
    BY <1>2 DEF MainStep, Deliver, WaitAny, WaitOne, WaitBegins, WaitStep, WaitLooks, WaitPeeks, WaitTimesOut,
       WaitJudges, WaitTakes, WaitHearsEnd, WaitOnFinished, Extends
  <2> QED  BY <1>0, <2>1 DEF WaitHears
<1>3. ASSUME Sweep PROVE ActSends /\ TheAct.job = j
  <2>1. UNCHANGED events \/ ActSends
    BY <1>3 DEF Sweep, SweepReads, SweepJudges, ActRechecks, ActQueues, ActCancels
  <2>2. events' = events \/ TheAct.job = j
    BY <1>0, <2>1 DEF ActSends, SendEvent
  <2> QED  BY <2>1, <2>2
<1>4. ASSUME NEW k \in Jobs, Stops(k) PROVE FALSE
  BY <1>4 DEF Stops
<1>5. ASSUME NEW r \in Repliers, ReplySends(r) \/ \E k \in Jobs : ReplyClaims(r, k) PROVE FALSE
  BY <1>5 DEF ReplySends, ReplyClaims
<1>6. ~UNCHANGED vars
  BY DEF vars
<1> QED  BY <1>1, <1>2, <1>3, <1>4, <1>5, <1>6 DEF Next

\* What adds to the queue.
LEMMA QueueSteps ==
    ASSUME TypeInv, [Next]_vars, NEW line \in Lines, queue'[line] > 0, ~Queued(line)
    PROVE  \/ \E k \in Jobs : AskQueues(k) /\ line = Line(k, "ask", saying[k])
           \/ \E k \in Jobs : HandsBack(k) /\ line = HandBackLine(k)
           \/ ActQueues /\ line = TheAct.line
<1> USE DEF run, ask, stop, stall, talk
<1>0. queue \in [Lines -> Nat] /\ queue[line] = 0 /\ queue'[line] # 0
  BY DEF TypeInv, QueueType, Queued
<1>1. \A other : Enqueue(other) => line = other
  BY <1>0 DEF Enqueue
<1>2. \A other : queue' # Without(other)
  BY <1>0 DEF Without
<1>3. ASSUME NEW k \in Jobs, JobStep(k)
      PROVE  \/ AskQueues(k) /\ line = Line(k, "ask", saying[k])
             \/ HandsBack(k) /\ line = HandBackLine(k)
  <2>1. \/ UNCHANGED queue \/ AskQueues(k) \/ HandsBack(k) \/ queue' = Without(stallLine[k])
    BY <1>3 DEF JobStep, Dispatch, Starts, NoteActivity, TakesNoticeBack, RunEnds, AskDrains, AskRefused,
         AskRegisters, AskLined, AskSends, Answered, AskTimesOut, AskCancelled,
         Removes, SendsHandBack, Closes
  <2> QED  BY <1>0, <1>1, <1>2, <2>1 DEF AskQueues, HandsBack
<1>4. ~MainStep
  <2>1. MainStep => UNCHANGED queue \/ queue' = Empty \/ queue' = Without(main.got)
    BY DEF MainStep, Deliver, WaitAny, WaitOne, WaitBegins, WaitStep, WaitLooks, WaitPeeks, WaitTimesOut,
       WaitJudges, WaitTakes, WaitHears, WaitHearsEnd, WaitOnFinished, Extends
  <2>2. queue' # Empty
    BY <1>0 DEF Empty
  <2> QED  BY <1>0, <1>2, <2>1, <2>2
<1>5. Sweep => ActQueues /\ line = TheAct.line
  <2>1. Sweep => UNCHANGED queue \/ ActQueues
    BY DEF Sweep, SweepReads, SweepJudges, ActRechecks, ActSends, ActCancels
  <2> QED  BY <1>0, <1>1, <2>1 DEF ActQueues
<1>6. ASSUME NEW k \in Jobs, Stops(k) PROVE FALSE
  BY <1>0, <1>6 DEF Stops
<1>7. ASSUME NEW r \in Repliers, ReplySends(r) \/ \E k \in Jobs : ReplyClaims(r, k) PROVE FALSE
  BY <1>0, <1>7 DEF ReplySends, ReplyClaims
<1>8. ~UNCHANGED vars
  BY <1>0 DEF vars
<1> QED  BY <1>3, <1>4, <1>5, <1>6, <1>7, <1>8 DEF Next

\* Only the main model's own steps move it, and a wait that heard of a line
\* takes it out of the queue before it hears again, unless it is stale.
LEMMA MainSteps == [Next]_vars => MainStep \/ UNCHANGED main
<1> SUFFICES ASSUME [Next]_vars, ~MainStep PROVE UNCHANGED main
  OBVIOUS
<1> USE DEF run, ask, stop, stall, talk
<1>1. ASSUME NEW k \in Jobs, JobStep(k) PROVE UNCHANGED main
  BY <1>1 DEF JobStep, Dispatch, Starts, NoteActivity, TakesNoticeBack, RunEnds, AskDrains, AskRefused,
       AskRegisters, AskQueues, AskLined, AskSends, Answered, AskTimesOut, AskCancelled,
       Removes, HandsBack, SendsHandBack, Closes
<1>2. Sweep => UNCHANGED main
  BY DEF Sweep, SweepReads, SweepJudges, ActRechecks, ActQueues, ActSends, ActCancels
<1>3. ASSUME NEW k \in Jobs, Stops(k) PROVE UNCHANGED main
  BY <1>3 DEF Stops
<1>4. ASSUME NEW r \in Repliers, ReplySends(r) \/ \E k \in Jobs : ReplyClaims(r, k) PROVE UNCHANGED main
  BY <1>4 DEF ReplySends, ReplyClaims
<1> QED  BY <1>1, <1>2, <1>3, <1>4 DEF Next, vars

LEMMA HeardSteps ==
    ASSUME TypeInv, [Next]_vars, NEW line \in Lines, Heard(line), Live(line), queue'[line] > 0
    PROVE  main'.at \in {"judging", "taking"} /\ main'.got = line
<1>0. /\ main.at \in {"judging", "taking"} /\ main.got = line /\ queue \in [Lines -> Nat]
      /\ main \in [at : {"turn", "looking", "peeking", "waiting", "judging", "taking"},
                   waits : SUBSET Jobs, got : Lines \cup {None}, open : SUBSET Lines]
  BY DEF Heard, TypeInv, QueueType, MainType
<1>1. CASE WaitJudges
  BY <1>0, <1>1 DEF WaitJudges
<1>2. ~WaitTakes
  BY <1>0 DEF WaitTakes, Without
<1>3. ASSUME MainStep, ~WaitJudges PROVE UNCHANGED main
  BY <1>0, <1>2, <1>3 DEF MainStep, Deliver, WaitAny, WaitOne, WaitBegins, WaitStep, WaitLooks, WaitPeeks, WaitTimesOut,
       WaitHears, WaitHearsEnd, WaitOnFinished, Extends, InTurn
<1> QED  BY <1>0, <1>1, <1>3, MainSteps

\* What takes a question's line out of the queue: a turn, and the end of a
\* wait; never a wait that goes on.
LEMMA StaysQueued ==
    ASSUME TypeInv, Notices, [Next]_vars, NEW line \in Lines, line.kind = "ask", Queued(line), main.at = "waiting"
    PROVE  queue'[line] > 0
<1> USE DEF run, ask, stop, stall, talk
<1>0. queue \in [Lines -> Nat] /\ queue[line] > 0
  BY DEF TypeInv, QueueType, Queued
<1>1. \A other : Enqueue(other) => queue'[line] > 0
  BY <1>0 DEF Enqueue
<1>2. ASSUME NEW k \in Jobs, JobStep(k) PROVE queue'[line] > 0
  <2>1. UNCHANGED queue \/ queue' = Without(stallLine[k]) \/ \E other : Enqueue(other)
    BY <1>2 DEF JobStep, Dispatch, Starts, NoteActivity, TakesNoticeBack, RunEnds, AskDrains, AskRefused,
         AskRegisters, AskQueues, AskLined, AskSends, Answered, AskTimesOut, AskCancelled,
         Removes, HandsBack, SendsHandBack, Closes
  <2>2. stallLine[k] # line
    BY NoneAssumption DEF Notices
  <2>3. queue' = Without(stallLine[k]) => queue'[line] > 0
    BY <1>0, <2>2 DEF Without
  <2> QED  BY <1>0, <1>1, <2>1, <2>3
<1>3. MainStep => UNCHANGED queue
  BY DEF MainStep, Deliver, WaitAny, WaitOne, WaitBegins, WaitStep, WaitLooks, WaitPeeks, WaitTimesOut,
       WaitJudges, WaitTakes, WaitHears, WaitHearsEnd, WaitOnFinished, Extends, InTurn
<1>4. Sweep => UNCHANGED queue \/ \E other : Enqueue(other)
  BY DEF Sweep, SweepReads, SweepJudges, ActRechecks, ActQueues, ActSends, ActCancels
<1>5. ASSUME NEW k \in Jobs, Stops(k) PROVE UNCHANGED queue
  BY <1>5 DEF Stops
<1>6. ASSUME NEW r \in Repliers, ReplySends(r) \/ \E k \in Jobs : ReplyClaims(r, k) PROVE UNCHANGED queue
  BY <1>6 DEF ReplySends, ReplyClaims
<1>7. UNCHANGED vars => UNCHANGED queue
  BY DEF vars
<1> QED  BY <1>0, <1>1, <1>2, <1>3, <1>4, <1>5, <1>6, <1>7 DEF Next

\* Only its own steps move the sweep.
LEMMA SweepSteps == [Next]_vars => Sweep \/ UNCHANGED sup
<1> SUFFICES ASSUME [Next]_vars, ~Sweep PROVE UNCHANGED sup
  OBVIOUS
<1>1. ASSUME NEW k \in Jobs, JobStep(k) PROVE UNCHANGED sup
  BY <1>1 DEF JobStep, Dispatch, Starts, NoteActivity, TakesNoticeBack, RunEnds, AskDrains, AskRefused,
       AskRegisters, AskQueues, AskLined, AskSends, Answered, AskTimesOut, AskCancelled,
       Removes, HandsBack, SendsHandBack, Closes
<1>2. MainStep => UNCHANGED sup
  BY DEF MainStep, Deliver, WaitAny, WaitOne, WaitBegins, WaitStep, WaitLooks, WaitPeeks, WaitTimesOut,
       WaitJudges, WaitTakes, WaitHears, WaitHearsEnd, WaitOnFinished, Extends
<1>3. ASSUME NEW k \in Jobs, Stops(k) PROVE UNCHANGED sup
  BY <1>3 DEF Stops
<1>4. ASSUME NEW r \in Repliers, ReplySends(r) \/ \E k \in Jobs : ReplyClaims(r, k)
      PROVE  UNCHANGED sup
  BY <1>4 DEF ReplySends, ReplyClaims
<1> QED  BY <1>1, <1>2, <1>3, <1>4 DEF Next, vars

\* A stall is counted and noticed by a sweep only, and cleared by others.
LEMMA StallSteps ==
    ASSUME TypeInv, [Next]_vars, NEW j \in Jobs, \A quiet, late \in SUBSET Jobs : ~SweepJudges(quiet, late)
    PROVE  /\ stallLine'[j] = stallLine[j] /\ (stalled'[j] => stalled[j])
           /\ (stalls'[j] > 0 => stalls[j] > 0)
<1> USE DEF run, ask, stop, stall, talk
<1>0. stalls \in [Jobs -> 0 .. Limit] /\ stalled \in [Jobs -> BOOLEAN]
  BY DEF TypeInv, StallType
<1>1. ASSUME NEW k \in Jobs, JobStep(k), ~NoteActivity(k) PROVE UNCHANGED <<stalls, stalled, stallLine>>
  BY <1>1 DEF JobStep, Dispatch, Starts, TakesNoticeBack, RunEnds, AskDrains, AskRefused,
       AskRegisters, AskQueues, AskLined, AskSends, Answered, AskTimesOut, AskCancelled,
       Removes, HandsBack, SendsHandBack, Closes
<1>2. ASSUME NEW k \in Jobs, NoteActivity(k)
      PROVE  /\ stallLine' = stallLine /\ (stalled'[j] => stalled[j])
             /\ (stalls'[j] > 0 => stalls[j] > 0)
  BY <1>0, <1>2 DEF NoteActivity
<1>3. ASSUME MainStep, \A k \in Jobs : ~Extends(k) PROVE UNCHANGED <<stalls, stalled, stallLine>>
  BY <1>3 DEF MainStep, Deliver, WaitAny, WaitOne, WaitBegins, WaitStep, WaitLooks, WaitPeeks, WaitTimesOut,
       WaitJudges, WaitTakes, WaitHears, WaitHearsEnd, WaitOnFinished
<1>4. ASSUME NEW k \in Jobs, Extends(k) PROVE UNCHANGED <<stalls, stallLine>> /\ (stalled'[j] => stalled[j])
  BY <1>0, <1>4 DEF Extends
<1>5. Sweep => UNCHANGED <<stalls, stalled, stallLine>>
  BY DEF Sweep, SweepReads, ActRechecks, ActQueues, ActSends, ActCancels
<1>6. ASSUME NEW k \in Jobs, Stops(k) PROVE UNCHANGED <<stalls, stalled, stallLine>>
  BY <1>6 DEF Stops
<1>7. ASSUME NEW r \in Repliers, ReplySends(r) \/ \E k \in Jobs : ReplyClaims(r, k)
      PROVE  UNCHANGED <<stalls, stalled, stallLine>>
  BY <1>7 DEF ReplySends, ReplyClaims
<1>8. UNCHANGED vars => UNCHANGED <<stalls, stalled, stallLine>>
  BY DEF vars
<1> QED  BY <1>1, <1>2, <1>3, <1>4, <1>5, <1>6, <1>7, <1>8 DEF Next

\* What a sweep decides of one job: a stall, of a job that is in no question
\* and whose notice was read, with a new notice unless it is the last.
LEMMA JudgedJob ==
    ASSUME TypeInv, NEW quiet \in SUBSET Jobs, NEW late \in SUBSET Jobs, SweepJudges(quiet, late), NEW j \in Jobs
    PROVE  /\ \/ stalls'[j] = stalls[j] /\ stalled'[j] = stalled[j] /\ stallLine'[j] = stallLine[j]
              \/ /\ Quietable(j) /\ ~NoticeUnread(j)
                 /\ \/ stallLine'[j] \in Lines /\ stallLine'[j].kind = "stall" /\ stallLine'[j].job = j
                    \/ stallLine'[j] = stallLine[j] /\ stalls[j] > 0
           /\ (\E a \in sup'.acts : a.job = j /\ a.line # None) => Quietable(j)
<1> DEFINE spent == {k \in late : Judged(k)}
           stalling == {k \in quiet \ spent : Judged(k) /\ Quietable(k) /\ ~NoticeUnread(k)}
           stopping == {k \in stalling : stalls[k] + 1 >= Limit}
           noticed == stalling \ stopping
           notice == [k \in Jobs |-> Line(k, "stall", stalls[k] + 1)]
           acts == {[job |-> k, line |-> notice[k]] : k \in noticed}
                       \cup {[job |-> k, line |-> None] : k \in spent \cup stopping}
<1>1. /\ stalls' = [k \in Jobs |-> IF k \in stalling THEN stalls[k] + 1 ELSE stalls[k]]
      /\ stallLine' = [k \in Jobs |-> IF k \in noticed THEN notice[k] ELSE stallLine[k]]
      /\ stalled' = [k \in Jobs |-> stalled[k] \/ k \in stalling]
  BY DEF SweepJudges
<1>2. sup' = IF acts = {} THEN Idle ELSE [at |-> "acting", read |-> {}, acts |-> acts]
  BY DEF SweepJudges
<1>3. \A a \in acts : a.line # None => a.job \in noticed
  <2> HIDE DEF spent, stopping, noticed, notice
  <2> QED  OBVIOUS
<1>4. \A k \in stalling : k \in Jobs /\ Quietable(k) /\ ~NoticeUnread(k)
  OBVIOUS
<1>5. \A k \in stalling : k \in stopping <=> stalls[k] + 1 >= Limit
  OBVIOUS
<1> HIDE DEF acts, spent, stalling, stopping
<1>6. (\E a \in sup'.acts : a.job = j /\ a.line # None) => Quietable(j)
  <2>1. sup'.acts \subseteq acts
    BY <1>2 DEF Idle
  <2> QED  BY <1>3, <1>4, <2>1
<1>7. Limit \in Nat /\ Limit >= 2 /\ stalls[j] \in Nat /\ stalled[j] \in BOOLEAN
  BY JobLinesAssumption DEF TypeInv, StallType
<1>8. CASE j \in noticed
  <2>1. j \in stalling /\ ~(stalls[j] + 1 >= Limit)
    BY <1>5, <1>8
  <2>2. stalls[j] + 1 \in 1 .. Limit - 1
    BY <1>7, <2>1
  <2>3. notice[j] \in Lines /\ notice[j].kind = "stall" /\ notice[j].job = j
    <3>1. notice[j] = Line(j, "stall", stalls[j] + 1)
      OBVIOUS
    <3> QED  BY <2>2, <3>1, LineTypes, HandBacksApart
  <2> HIDE DEF notice, noticed
  <2>4. stallLine'[j] = notice[j]
    BY <1>1, <1>8
  <2> QED  BY <1>4, <1>6, <2>1, <2>3, <2>4
<1> HIDE DEF notice
<1>9. CASE j \in stopping
  <2>1. j \in stalling /\ stalls[j] + 1 >= Limit
    <3>1. j \in stalling
      BY <1>9 DEF stopping
    <3> QED  BY <1>5, <1>9, <3>1
  <2>2. stallLine'[j] = stallLine[j] /\ stalls[j] > 0
    BY <1>1, <1>7, <1>9, <2>1
  <2> QED  BY <1>4, <1>6, <2>1, <2>2
<1>10. CASE j \notin stalling
  <2>1. stalls'[j] = stalls[j] /\ stalled'[j] = stalled[j] /\ stallLine'[j] = stallLine[j]
    BY <1>1, <1>7, <1>10
  <2> QED  BY <1>6, <2>1
<1> QED  BY <1>8, <1>9, <1>10

-----------------------------------------------------------------------------
(* A wait hears *)

\* A question's line is written before the question is parked.
LEMMA AskSaidStep ==
    ASSUME TypeInv, [Next]_vars, NEW j \in Jobs, AskSaid(j)
    PROVE  AskSaid(j)'
<1>0. /\ phase \in [Jobs -> Alive \cup Gone \cup {"none"}] /\ saying \in [Jobs -> Texts \cup {None}]
      /\ askLine \in [Jobs -> Lines \cup {None}]
  BY DEF TypeInv, RunType, AskType
<1>1. CASE ~JobStep(j)
  BY <1>1, PlaceSteps DEF AskSaid
<1>2. ASSUME NEW text \in Texts, AskRegisters(j, text) PROVE AskSaid(j)'
  BY <1>0, <1>2 DEF AskSaid, AskRegisters, Phase
<1>3. CASE AskQueues(j)
  BY <1>0, <1>3 DEF AskSaid, AskQueues, Phase, ask
<1>4. CASE AskLined(j)
  BY <1>0, <1>4, HandBacksApart DEF AskSaid, AskLined, Phase
<1>5. CASE AskSends(j)
  <2>1. saying[j] \in Texts /\ askLine[j] = Line(j, "ask", saying[j])
    BY <1>5 DEF AskSends, Phase, AskSaid, TypeInv, RunType
  <2>2. askLine[j] # None
    BY <2>1, LineTypes, NoneAssumption
  <2> QED  BY <1>0, <1>5, <2>2 DEF AskSaid, AskSends, Phase, ask
<1>6. CASE askLine'[j] = askLine[j] /\ phase'[j] \notin {"none", "lined", "parked"}
  BY <1>6 DEF AskSaid
<1> QED  BY <1>1, <1>2, <1>3, <1>4, <1>5, <1>6, AskPlaces

LEMMA StallSaidStep ==
    ASSUME TypeInv, [Next]_vars, NEW j \in Jobs, StallSaid(j)
    PROVE  StallSaid(j)'
<1>1. phase'[j] = "none" => phase[j] = "none"
  <2>0. phase \in [Jobs -> Alive \cup Gone \cup {"none"}]
    BY DEF TypeInv, RunType
  <2>1. CASE JobStep(j)
    BY <2>0, <2>1, AskPlaces DEF AskRegisters, AskQueues, AskLined, AskSends, Phase
  <2> QED  BY <2>1, PlaceSteps
<1>2. ASSUME NEW quiet \in SUBSET Jobs, NEW late \in SUBSET Jobs, SweepJudges(quiet, late) PROVE StallSaid(j)'
  <2>1. phase' = phase
    BY <1>2 DEF SweepJudges, run
  <2>2. CASE stalls'[j] = stalls[j] /\ stalled'[j] = stalled[j] /\ stallLine'[j] = stallLine[j]
    BY <2>1, <2>2 DEF StallSaid
  <2>3. ASSUME Quietable(j), stallLine'[j] \in Lines \/ (stallLine'[j] = stallLine[j] /\ stalls[j] > 0)
        PROVE  StallSaid(j)'
    BY <2>1, <2>3, NoneAssumption DEF StallSaid, Quietable
  <2> QED  BY <1>2, <2>2, <2>3, JudgedJob
<1>3. CASE \A quiet, late \in SUBSET Jobs : ~SweepJudges(quiet, late)
  BY <1>1, <1>3, StallSteps DEF StallSaid
<1> QED  BY <1>2, <1>3

\* A job that is parked on a question gets no notice.
LEMMA NoNotice ==
    ASSUME TypeInv, [Next]_vars, NEW j \in Jobs, phase[j] = "parked", ~Noticing(j)
    PROVE  ~Noticing(j)'
<1>1. ASSUME NEW quiet \in SUBSET Jobs, NEW late \in SUBSET Jobs, SweepJudges(quiet, late) PROVE ~Noticing(j)'
  BY <1>1, JudgedJob DEF Noticing, Quietable
<1>2. CASE UNCHANGED sup
  BY <1>2 DEF Noticing
<1>3. CASE SweepReads \/ ActRechecks \/ ActQueues \/ ActSends \/ ActCancels
  <2>1. sup \in [at : {"idle", "judging", "acting", "queueing", "sending"},
                 read : SUBSET Lines, acts : SUBSET [job : Jobs, line : Lines \cup {None}]]
    BY DEF TypeInv, SupType
  <2>2. SweepReads \/ ActQueues => sup'.acts = sup.acts
    BY <2>1 DEF SweepReads, ActQueues
  <2>3. ActDone => sup'.acts \subseteq sup.acts
    BY <2>1 DEF ActDone, Idle
  <2>4. ActRechecks => sup'.acts = sup.acts \/ ActDone
    BY <2>1 DEF ActRechecks
  <2>5. ActSends \/ ActCancels => ActDone
    BY DEF ActSends, ActCancels
  <2>6. sup'.acts \subseteq sup.acts
    BY <1>3, <2>2, <2>3, <2>4, <2>5
  <2> QED  BY <2>6 DEF Noticing
<1> QED  BY <1>1, <1>2, <1>3, SweepSteps DEF Sweep

\* A question's line in the queue is the last event its job sent, or the last
\* but one with a notice after it, or in a wait's hand.
LEMMA AskToldStep ==
    ASSUME TypeInv, Notices, [Next]_vars, NEW j \in Jobs, AskSaid(j), AskTold(j)
    PROVE  AskTold(j)'
<1> SUFFICES ASSUME Open(j)', queue'[askLine'[j]] > 0
             PROVE  \/ Heard(askLine[j])' \/ LastIs(events'[j], askLine'[j])
                    \/ NextToLastIs(events'[j], askLine'[j]) /\ ~Noticing(j)'
  BY DEF AskTold, Queued
<1>1. CASE AskSends(j)
  <2>1. saying[j] \in Texts /\ askLine'[j] = Line(j, "ask", saying[j])
    BY <1>1 DEF AskSends, Phase, AskSaid, TypeInv, RunType, ask
  <2>2. PICK line \in Lines : line = Line(j, "ask", saying[j])
    BY <2>1, LineTypes
  <2>3. SendEvent(j, line)
    BY <1>1, <2>2 DEF AskSends
  <2> QED  BY <2>1, <2>2, <2>3, SendLast DEF TypeInv
<1>2. CASE Open(j) /\ askLine'[j] = askLine[j]
  <2>1. /\ phase[j] = "parked" /\ question[j] # 0
        /\ askLine[j] \in Lines /\ askLine[j].kind = "ask" /\ askLine[j].job = j
    BY <1>2 DEF Open, AskSaid, TypeInv, AskType
  <2>2. PICK line \in Lines : line = askLine[j]
    BY <2>1
  <2>3. line.kind = "ask" /\ line.job = j /\ queue'[line] > 0 /\ Live(line)
    BY <1>2, <2>1, <2>2 DEF Live, Running, Alive
  <2>4. Queued(line)
    <3>1. ASSUME NEW k \in Jobs, AskQueues(k), line = Line(k, "ask", saying[k]) PROVE FALSE
      <4>1. k = j
        BY <2>3, <3>1, HandBacksApart
      <4> QED  BY <2>1, <3>1, <4>1 DEF AskQueues, Phase
    <3>2. ASSUME NEW k \in Jobs, line = HandBackLine(k) PROVE FALSE
      BY <2>3, <3>2, HandBacksApart
    <3>3. ASSUME ActQueues, line = TheAct.line PROVE FALSE
      <4>1. sup.at = "queueing" /\ TheAct.line # None
        BY <3>3 DEF ActQueues, Acting, TypeInv, SupType, Sweeping
      <4> QED  BY <2>3, <3>3, <4>1, ActIsNotice
    <3> QED  BY <2>3, <3>1, <3>2, <3>3, QueueSteps
  <2>5. Heard(line) => Heard(askLine[j])'
    BY <1>2, <2>2, <2>3, HeardSteps DEF Heard
  <2>6. Heard(line) \/ LastIs(events[j], line) \/ (NextToLastIs(events[j], line) /\ ~Noticing(j))
    BY <1>2, <2>2, <2>4 DEF AskTold
  <2>7. events'[j] # events[j] => (ActSends /\ TheAct.job = j) \/ WaitHears(j)
    BY <2>1, EventSteps DEF AskSends, SendsHandBack, Phase
  <2>8. CASE WaitHears(j)
    <3>1. /\ events[j] \in Seq(Lines) /\ events[j] # <<>> /\ events'[j] = Tail(events[j])
          /\ main'.at = "judging" /\ main'.got = Head(events[j]) /\ main.at = "waiting"
          /\ sup' = sup
      BY <2>8 DEF WaitHears, TypeInv, EventType, MainType
    <3>2. Head(events[j]) = line => Heard(askLine[j])'
      BY <1>2, <2>2, <3>1 DEF Heard
    <3>3. ~Heard(line)
      BY <3>1 DEF Heard
    <3>4. ~Noticing(j) => ~Noticing(j)'
      BY <3>1 DEF Noticing
    <3>5. /\ LastIs(events[j], line) => Head(events[j]) = line \/ LastIs(events'[j], line)
          /\ NextToLastIs(events[j], line) => Head(events[j]) = line \/ NextToLastIs(events'[j], line)
      <4>1. /\ LastIs(events[j], line) => Head(events[j]) = line \/ LastIs(Tail(events[j]), line)
            /\ NextToLastIs(events[j], line) => Head(events[j]) = line \/ NextToLastIs(Tail(events[j]), line)
        BY <3>1, TailLast
      <4> QED  BY <3>1, <4>1
    <3>6. askLine'[j] = line
      BY <1>2, <2>2
    <3>7. CASE LastIs(events[j], line)
      BY <3>2, <3>5, <3>6, <3>7
    <3>8. CASE NextToLastIs(events[j], line) /\ ~Noticing(j)
      BY <3>2, <3>4, <3>5, <3>6, <3>8
    <3> QED  BY <2>6, <3>3, <3>7, <3>8
  <2>9. CASE ActSends /\ TheAct.job = j
    <3>1. sup.at = "sending" /\ TheAct.line # None
      BY <2>9 DEF ActSends, Acting, TypeInv, SupType, Sweeping
    <3>2. /\ TheAct \in sup.acts /\ TheAct.line \in Lines
          /\ \A a \in sup.acts : a.job = j /\ a.line # None => a = TheAct
      <4>1. TheAct \in sup.acts /\ TheAct.line \in Lines /\ TheAct.line = stallLine[j]
        BY <2>9, <3>1, ActIsNotice
      <4>2. sup.acts \subseteq [job : Jobs, line : Lines \cup {None}]
        BY DEF TypeInv, SupType
      <4> QED  BY <2>9, <4>1, <4>2 DEF Notices
    <3>3. Noticing(j)
      BY <2>9, <3>1, <3>2 DEF Noticing
    <3>4. ~Noticing(j)'
      <4>1. sup'.acts = sup.acts \ {TheAct}
        BY <2>9, <3>2 DEF ActSends, ActDone, Idle, TypeInv, SupType
      <4> QED  BY <3>2, <4>1 DEF Noticing
    <3>5. LastIs(events[j], line) => NextToLastIs(events'[j], line)
      <4>1. PICK notice \in Lines : notice = TheAct.line
        BY <3>2
      <4> QED  BY <2>9, <4>1, SendLast DEF ActSends, TypeInv
    <3> QED  BY <1>2, <2>2, <2>5, <2>6, <3>3, <3>4, <3>5
  <2>10. CASE events'[j] = events[j]
    BY <1>2, <2>1, <2>2, <2>5, <2>6, <2>10, NoNotice
  <2> QED  BY <2>7, <2>8, <2>9, <2>10
<1> QED  BY <1>1, <1>2, OpenSteps

\* A notice that a sweep has just decided on is not in the queue.
LEMMA StallQueued ==
    ASSUME TypeInv, TypeInv', Notices, [Next]_vars, NEW j \in Jobs, StallSaid(j), StallSaid(j)',
           Stalled(j)', queue'[stallLine'[j]] > 0
    PROVE  /\ stallLine[j] \in Lines /\ stallLine[j].kind = "stall" /\ stallLine[j].job = j
           /\ stallLine'[j] = stallLine[j] /\ stalled[j]
<1>0. /\ stallLine'[j] \in Lines /\ stalled'[j]
      /\ stallLine \in [Jobs -> Lines \cup {None}]
  <2>1. stalled'[j] /\ stallLine'[j] # None
    BY DEF Stalled, StallSaid
  <2> QED  BY <2>1 DEF TypeInv, StallType
<1>1. stallLine'[j] = stallLine[j] /\ stalled[j]
  <2>1. ASSUME NEW quiet \in SUBSET Jobs, NEW late \in SUBSET Jobs, SweepJudges(quiet, late)
        PROVE  stallLine'[j] = stallLine[j] /\ stalled'[j] = stalled[j]
    <3>1. sup.at = "judging" /\ queue' = queue
      BY <2>1 DEF SweepJudges, talk
    <3>2. ASSUME NEW line \in Lines, line.kind = "stall", line.job = j, queue[line] > 0
          PROVE  line = stallLine[j] /\ NoticeUnread(j)
      BY <3>1, <3>2 DEF Notices, Unread, Queued, NoticeUnread
    <3>3. ASSUME ~NoticeUnread(j), stallLine'[j].kind = "stall", stallLine'[j].job = j PROVE FALSE
      BY <1>0, <3>1, <3>2, <3>3
    <3>4. ASSUME ~NoticeUnread(j), stallLine'[j] = stallLine[j] PROVE FALSE
      <4>1. stallLine'[j].kind = "stall" /\ stallLine'[j].job = j
        BY <1>0, <3>4, NoneAssumption DEF Notices
      <4> QED  BY <3>3, <3>4, <4>1
    <3> QED  BY <2>1, <3>3, <3>4, JudgedJob
  <2>2. CASE \A quiet, late \in SUBSET Jobs : ~SweepJudges(quiet, late)
    BY <1>0, <2>2, StallSteps
  <2> QED  BY <1>0, <2>1, <2>2
<1>2. stallLine[j] # None
  BY <1>0, <1>1, NoneAssumption
<1> QED  BY <1>0, <1>1, <1>2 DEF Notices

\* The notice on its way to the channel is put there by the step that ends
\* the sending.
LEMMA SendingEnds ==
    ASSUME TypeInv, [Next]_vars, NEW j \in Jobs, Sending(j), ~Sending(j)'
    PROVE  ActSends
<1>1. sup.at = "sending"
  BY DEF Sending
<1>2. ~UNCHANGED sup
  BY DEF Sending, TheAct
<1>3. ~SweepReads /\ ~ActRechecks /\ ~ActQueues /\ ~ActCancels
  BY <1>1 DEF SweepReads, ActRechecks, ActQueues, ActCancels, Acting
<1>4. \A quiet, late : ~SweepJudges(quiet, late)
  BY <1>1 DEF SweepJudges
<1> QED  BY <1>2, <1>3, <1>4, SweepSteps DEF Sweep

\* A notice in the queue is the last event its job's channel got, or the last
\* but one with a question after it, or in a wait's hand.
LEMMA StallToldStep ==
    ASSUME TypeInv, TypeInv', Notices, [Next]_vars, NEW j \in Jobs,
           StallSaid(j), StallSaid(j)', StallTold(j)
    PROVE  StallTold(j)'
<1> SUFFICES ASSUME Stalled(j)', queue'[stallLine'[j]] > 0, ~Sending(j)'
             PROVE  \/ Heard(stallLine[j])' \/ LastIs(events'[j], stallLine'[j])
                    \/ NextToLastIs(events'[j], stallLine'[j]) /\ phase'[j] \in {"parked", "answered"}
  BY DEF StallTold, Queued
<1>0. /\ phase \in [Jobs -> Alive \cup Gone \cup {"none"}]
      /\ phase'[j] \in Alive /\ stalled'[j]
  BY DEF TypeInv, RunType, Stalled, Running
<1>1. /\ stallLine[j] \in Lines /\ stallLine[j].kind = "stall" /\ stallLine[j].job = j
      /\ stallLine'[j] = stallLine[j] /\ stalled[j]
  BY StallQueued
<1>2. PICK line \in Lines : line = stallLine[j]
  BY <1>1
<1>3. Running(j) /\ Live(line)
  <2>1. phase[j] \in Alive
    <3>1. CASE JobStep(j)
      <4>1. phase[j] # "none"
        BY <1>1 DEF StallSaid
      <4> QED
        BY <1>0, <3>1, <4>1 DEF JobStep, Dispatch, Starts, NoteActivity, TakesNoticeBack, RunEnds, AskDrains, AskRefused,
         AskRegisters, AskQueues, AskLined, AskSends, Answered, AskTimesOut, AskCancelled,
         Removes, HandsBack, SendsHandBack, Closes, Phase, Alive, Gone
    <3> QED  BY <1>0, <3>1, PlaceSteps
  <2> QED  BY <1>1, <1>2, <2>1 DEF Live, Running
<1>4. Queued(line) \/ Sending(j)'
  <2>1. ASSUME NEW k \in Jobs, line = Line(k, "ask", saying[k]) \/ line = HandBackLine(k) PROVE FALSE
    BY <1>1, <1>2, <2>1, HandBacksApart
  <2>2. ASSUME ActQueues, line = TheAct.line PROVE Sending(j)'
    <3>1. sup.at = "queueing" /\ TheAct.line # None /\ sup' = [sup EXCEPT !.at = "sending"]
      BY <2>2 DEF ActQueues, Acting, TypeInv, SupType, Sweeping
    <3>2. TheAct.job = j
      BY <1>1, <1>2, <2>2, <3>1, ActIsNotice
    <3>3. sup'.at = "sending" /\ sup'.acts = sup.acts
      BY <3>1 DEF TypeInv, SupType
    <3>4. TheAct' = TheAct
      BY <3>3 DEF TheAct
    <3> QED  BY <3>2, <3>3, <3>4 DEF Sending
  <2> QED  BY <1>1, <1>2, <2>1, <2>2, QueueSteps
<1>5. CASE Sending(j)
  <2>1. ActSends
    BY <1>5, SendingEnds
  <2>2. sup.at = "sending" /\ TheAct.line # None /\ TheAct.job = j
    BY <1>5, <2>1 DEF Sending, TypeInv, SupType, Sweeping
  <2>3. TheAct.line = line
    BY <1>2, <2>2, ActIsNotice
  <2>4. SendEvent(j, line)
    BY <2>1, <2>2, <2>3 DEF ActSends
  <2>5. LastIs(events'[j], line)
    BY <2>4, SendLast DEF TypeInv
  <2> QED  BY <1>1, <1>2, <2>5
<1>6. CASE ~Sending(j)
  <2>1. Heard(line) => Heard(stallLine[j])'
    BY <1>1, <1>2, <1>3, HeardSteps DEF Heard
  <2>2. Heard(line) \/ LastIs(events[j], line) \/ (NextToLastIs(events[j], line) /\ phase[j] \in {"parked", "answered"})
    BY <1>1, <1>2, <1>3, <1>4, <1>6 DEF StallTold, Stalled
  <2>3. phase[j] \in {"parked", "answered"} => phase'[j] \in {"parked", "answered"}
    <3>1. CASE JobStep(j)
      <4>1. ~NoteActivity(j)
        BY <1>0 DEF NoteActivity, TypeInv, StallType
      <4> QED
        BY <1>0, <3>1, <4>1 DEF JobStep, Dispatch, Starts, TakesNoticeBack, RunEnds, AskDrains, AskRefused,
         AskRegisters, AskQueues, AskLined, AskSends, Answered, AskTimesOut, AskCancelled,
         Removes, HandsBack, SendsHandBack, Closes, Phase
    <3> QED  BY <3>1, PlaceSteps
  <2>4. events'[j] # events[j] => AskSends(j) \/ WaitHears(j)
    <3>1. ~SendsHandBack(j)
      BY <1>3 DEF SendsHandBack, Phase, Running, Alive
    <3>2. ~(ActSends /\ TheAct.job = j)
      BY <1>6 DEF ActSends, Acting, Sending
    <3> QED  BY <3>1, <3>2, EventSteps
  <2>5. CASE WaitHears(j)
    <3>1. /\ events[j] \in Seq(Lines) /\ events[j] # <<>> /\ events'[j] = Tail(events[j])
          /\ main'.at = "judging" /\ main'.got = Head(events[j]) /\ main.at = "waiting"
      BY <2>5 DEF WaitHears, TypeInv, EventType, MainType
    <3>2. Head(events[j]) = line => Heard(stallLine[j])'
      BY <1>1, <1>2, <3>1 DEF Heard
    <3>3. ~Heard(line)
      BY <3>1 DEF Heard
    <3>4. /\ LastIs(events[j], line) => Head(events[j]) = line \/ LastIs(events'[j], line)
          /\ NextToLastIs(events[j], line) => Head(events[j]) = line \/ NextToLastIs(events'[j], line)
      BY <3>1, TailLast
    <3> QED  BY <1>1, <1>2, <2>2, <2>3, <3>2, <3>3, <3>4
  <2>6. CASE AskSends(j)
    <3>1. phase[j] = "lined" /\ phase'[j] = "parked"
      BY <1>0, <2>6 DEF AskSends, Phase
    <3>2. PICK new \in Lines : new = Line(j, "ask", saying[j])
      BY <3>1, LineTypes DEF TypeInv, RunType
    <3>3. LastIs(events[j], line) => NextToLastIs(events'[j], line)
      BY <2>6, <3>2, SendLast DEF AskSends, TypeInv
    <3> QED  BY <1>1, <1>2, <2>1, <2>2, <3>1, <3>3
  <2>7. CASE events'[j] = events[j]
    BY <1>1, <1>2, <2>1, <2>2, <2>3, <2>7
  <2> QED  BY <2>4, <2>5, <2>6, <2>7
<1> QED  BY <1>5, <1>6

\* A wait that found its questions' lines in the queue finds them there, or
\* an event, as long as it waits.
LEMMA LookedStep ==
    ASSUME TypeInv, Notices, [Next]_vars, NEW j \in Jobs, AskSaid(j), Looked(j)
    PROVE  Looked(j)'
<1> SUFFICES ASSUME j \in main'.waits, Open(j)'
             PROVE  /\ main'.at = "peeking" => askLine'[j] \in main'.open \/ events'[j] # <<>>
                    /\ main'.at = "waiting" => queue'[askLine'[j]] > 0 \/ events'[j] # <<>>
  BY DEF Looked, Queued
<1>0. main \in [at : {"turn", "looking", "peeking", "waiting", "judging", "taking"},
                waits : SUBSET Jobs, got : Lines \cup {None}, open : SUBSET Lines]
  BY DEF TypeInv, MainType
<1>1. CASE AskSends(j)
  <2>1. saying[j] \in Texts
    BY <1>1 DEF AskSends, Phase, TypeInv, RunType
  <2>2. PICK line \in Lines : line = Line(j, "ask", saying[j])
    BY <2>1, LineTypes
  <2>3. events'[j] # <<>>
    BY <1>1, <2>2, SendLast DEF AskSends, TypeInv
  <2> QED  BY <2>3
<1>2. CASE Open(j) /\ askLine'[j] = askLine[j]
  <2>1. askLine[j] \in Lines /\ askLine[j] # None /\ askLine[j].kind = "ask" /\ Running(j) /\ question[j] # 0
    BY <1>2 DEF Open, AskSaid, TypeInv, AskType, Running, Alive
  <2>2. PICK line \in Lines : line = askLine[j]
    BY <2>1
  <2>3. events'[j] = <<>> => events[j] = <<>> \/ WaitHears(j)
    <3>1. ASSUME AskSends(j) \/ SendsHandBack(j) PROVE FALSE
      BY <1>2, <3>1 DEF Open, AskSends, SendsHandBack, Phase
    <3>2. ASSUME ActSends, TheAct.job = j PROVE events'[j] # <<>>
      <4>1. sup.at = "sending" /\ TheAct.line # None
        BY <3>2 DEF ActSends, Acting, TypeInv, SupType, Sweeping
      <4>2. PICK notice \in Lines : notice = TheAct.line
        BY <4>1, ActIsNotice
      <4> QED  BY <3>2, <4>2, SendLast DEF ActSends, TypeInv
    <3> QED  BY <3>1, <3>2, EventSteps
  <2>4. CASE UNCHANGED main
    <3>1. ~WaitHears(j)
      BY <1>0, <2>4 DEF WaitHears
    <3>2. main.at = "waiting" /\ Queued(line) => queue'[line] > 0
      BY <2>1, <2>2, StaysQueued
    <3> QED  BY <1>2, <2>2, <2>3, <2>4, <3>1, <3>2 DEF Looked
  <2>5. CASE WaitLooks
    <3> DEFINE open == {k \in main.waits : Running(k) /\ question[k] # 0 /\ askLine[k] # None}
    <3>1. main' = [main EXCEPT !.at = "peeking", !.open = {askLine[k] : k \in open}]
      BY <2>5 DEF WaitLooks
    <3>2. j \in open
      BY <1>0, <2>1, <3>1
    <3> QED  BY <1>0, <1>2, <3>1, <3>2
  <2>6. CASE WaitPeeks
    <3>1. main.at = "peeking" /\ queue' = queue /\ events' = events /\ main'.at # "peeking"
      BY <1>0, <2>6 DEF WaitPeeks, AtTurn, talk
    <3>2. ASSUME main'.at = "waiting"
          PROVE  main'.waits = main.waits /\ \A other \in main.open : Queued(other)
      BY <1>0, <2>6, <3>2 DEF WaitPeeks, AtTurn
    <3> QED  BY <1>2, <2>2, <3>1, <3>2 DEF Looked, Queued
  <2>7. CASE ~WaitLooks /\ ~WaitPeeks /\ MainStep /\ ~UNCHANGED main
    <3>1. WaitJudges \/ WaitTakes \/ WaitTimesOut => main'.at \notin {"peeking", "waiting"}
      <4>1. WaitJudges => main'.at \in {"taking", "looking"}
        BY <1>0 DEF WaitJudges
      <4>2. WaitTakes => main'.at \in {"turn", "looking"}
        <5>1. WaitTakes => main' = AtTurn \/ main' = [main EXCEPT !.at = "looking", !.got = None]
          BY DEF WaitTakes
        <5>2. main' = AtTurn => main'.at = "turn"
          BY DEF AtTurn
        <5>3. main' = [main EXCEPT !.at = "looking", !.got = None] => main'.at = "looking"
          BY <1>0
        <5> QED  BY <5>1, <5>2, <5>3
      <4>3. WaitTimesOut => main'.at = "turn"
        BY DEF WaitTimesOut, AtTurn
      <4> QED  BY <4>1, <4>2, <4>3
    <3>2. ASSUME NEW k \in Jobs, WaitHears(k) \/ WaitHearsEnd(k) \/ WaitOnFinished(k)
          PROVE  main'.at \notin {"peeking", "waiting"}
      BY <1>0, <3>2 DEF WaitHears, WaitHearsEnd, WaitOnFinished
    <3>3. ASSUME NEW js, WaitBegins(js) PROVE main'.at \notin {"peeking", "waiting"}
      BY <1>0, <3>3 DEF WaitBegins
    <3>4. ASSUME NEW k \in Jobs, Extends(k) PROVE UNCHANGED main
      BY <3>4 DEF Extends
    <3>5. Deliver => UNCHANGED main
      BY DEF Deliver
    <3>6. main'.at \notin {"peeking", "waiting"}
      BY <2>7, <3>1, <3>2, <3>3, <3>4, <3>5 DEF MainStep, WaitStep, WaitOne, WaitAny
    <3> QED  BY <3>6
  <2> QED  BY <2>4, <2>5, <2>6, <2>7, MainSteps
<1> QED  BY <1>1, <1>2, OpenSteps

\* All of it together.
LEMMA HearInit == Init => HearInv
<1> SUFFICES ASSUME Init, NEW j \in Jobs
             PROVE  AskSaid(j) /\ StallSaid(j) /\ AskTold(j) /\ StallTold(j) /\ Looked(j)
  BY DEF HearInv
<1>1. AskSaid(j) /\ StallSaid(j)
  BY DEF Init, AskSaid, StallSaid
<1>2. AskTold(j) /\ StallTold(j) /\ Looked(j)
  BY DEF Init, AskTold, StallTold, Looked, Open, Stalled
<1> QED  BY <1>1, <1>2

LEMMA HearStep == Inv /\ HearInv /\ [Next]_vars => HearInv'
<1> SUFFICES ASSUME Inv, HearInv, [Next]_vars, NEW j \in Jobs
             PROVE  (AskSaid(j) /\ StallSaid(j) /\ AskTold(j) /\ StallTold(j) /\ Looked(j))'
  BY DEF HearInv
<1>1. TypeInv /\ Notices /\ TypeInv'
  BY InvStep DEF Inv, LineInv
<1>2. AskSaid(j) /\ StallSaid(j) /\ AskTold(j) /\ StallTold(j) /\ Looked(j)
  BY DEF HearInv
<1>3. StallSaid(j)'
  BY <1>1, <1>2, StallSaidStep
<1> QED  BY <1>1, <1>2, <1>3, AskSaidStep, AskToldStep, StallToldStep, LookedStep

\* A wait never sleeps beside an open question or an unread stall notice of a
\* job it waits for: the job's channel has an event for it, although channels
\* drop events, earlier waits have thrown stale ones away, and a turn may have
\* read the line.
THEOREM WaitsHear == Spec => []NoDeafWait
<1>1. TypeInv /\ HearInv => NoDeafWait
  <2> SUFFICES ASSUME TypeInv, HearInv, main.at = "waiting", NEW j \in main.waits,
                      Open(j) \/ (Stalled(j) /\ Queued(stallLine[j]) /\ sup.at # "sending")
               PROVE  events[j] # <<>>
    BY DEF NoDeafWait, Open, Stalled
  <2>1. j \in Jobs
    BY DEF TypeInv, MainType
  <2>2. \A line : ~Heard(line)
    BY DEF Heard
  <2>3. \A line : LastIs(<<>>, line) \/ NextToLastIs(<<>>, line) => FALSE
    BY DEF LastIs, NextToLastIs
  <2>4. CASE Open(j)
    BY <2>1, <2>2, <2>3, <2>4 DEF HearInv, Looked, AskTold
  <2>5. CASE Stalled(j) /\ Queued(stallLine[j]) /\ sup.at # "sending"
    BY <2>1, <2>2, <2>3, <2>5 DEF HearInv, StallTold, Sending
  <2> QED  BY <2>4, <2>5
<1>2. Inv => TypeInv
  BY DEF Inv
<1>3. Init => Inv /\ HearInv
  BY InvInit, HearInit
<1>4. (Inv /\ HearInv) /\ [Next]_vars => (Inv /\ HearInv)'
  BY InvStep, HearStep
<1> QED  BY <1>1, <1>2, <1>3, <1>4, PTL DEF Spec
=============================================================================
