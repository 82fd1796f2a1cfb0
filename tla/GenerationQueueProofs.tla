------------------------ MODULE GenerationQueueProofs ------------------------
(***************************************************************************)
(* For any number of jobs, messages, ordinary generations, restarts and    *)
(* failing reads: every running row has an executor, a cancel keeps its    *)
(* word and stops nobody else's turn, and the rows keep JobLedger's        *)
(* contract.                                                               *)
(*                                                                         *)
(* The argument goes from the outside in.  Frame relates the lane, the     *)
(* slot, the turn and the callers of cancel(): at most one call is between *)
(* its two awaits, and it finds the lane standing still (Calling).  On it  *)
(* rest, one after the other, what the rows of the job under way may say   *)
(* (Begun), who executes a running row, and what is remembered of a job    *)
(* that has been cancelled (Held).                                         *)
(***************************************************************************)
EXTENDS GenerationQueue, TLAPS

-----------------------------------------------------------------------------
(* The inductive invariant.                                                *)

\* The lane has a job from the read of the row to the end of pump()'s turn.
Lanes ==
  lane.job # NoJob <=>
    lane.at \in {"picked", "claimed", "starting", "joining", "closing", "refused"}

\* A turn of the queue holds the slot, and the lane has joined it.
Slots ==
  /\ slot.by = "job" <=> turn.at # "none"
  /\ turn.at # "none" => lane.at = "joining"
  /\ slot.by = "free" => slot = Free

\* "executing" is the lane's job from the turn's first step to pump()'s finally.
Working ==
  /\ executing # NoJob => executing = lane.job /\ lane.at \in {"joining", "closing"}
  /\ turn.at \in {"guard", "producing", "settling", "settled"} => executing = lane.job

\* A process that is not up has nothing in memory.
Resting ==
  phase # "up" =>
    /\ lane = NoLane /\ slot = Free /\ turn = NoTurn /\ kicks = {}
    /\ cancel = [j \in Job |-> "none"] /\ stopRequests = {} /\ executing = NoJob

\* The lane waits for the disk or for a model provider.
Calm ==
  /\ lane.at \in {"none", "starting"} \/ (lane.at = "joining" /\ turn.at = "producing")
  /\ turn.at \in {"none", "producing"}

\* A call of cancel() between its awaits is the only one, and what it has read
\* is still true.
Calling ==
  \A j \in Job : cancel[j] # "none" =>
    /\ phase = "up" /\ kicks = {} /\ Calm /\ status[j] = cancel[j]
    /\ \A i \in Job : cancel[i] # "none" => i = j

Frame == Lanes /\ Slots /\ Working /\ Resting /\ Calling

\* What the rows can say, apart from who executes them.
Written ==
  /\ \A j \in Job : status[j] = "none" => target[j] = NoMessage
  /\ \A j \in misread : status[j] \in {"running", "failed", "gone"}
  /\ \A j \in generated : status[j] \notin {"none", "pending"}

\* The job that has been picked is the oldest that waits.
Chosen ==
  lane.at = "picked" => \A i \in Job : status[i] = "pending" => lane.job <= i

Unasked == lane.at \in {"claimed", "starting"} \/ turn.at \in {"context", "guard"}
Asking  == turn.at \in {"producing", "settling"}

\* From the claim to the outcome the row says running, if it has not been
\* deleted; the model is asked once on the way.
Begun ==
  /\ Unasked \/ Asking => lane.job \notin misread /\ status[lane.job] \in {"running", "gone"}
  /\ Unasked => lane.job \notin generated
  /\ turn.at = "producing" \/ (turn.at = "settling" /\ ~turn.stopped) => lane.job \in generated

\* A job whose cancel() has been answered: the request to stop is remembered
\* until the turn looks, and signalled from the moment it asks the model.
Held ==
  \A j \in acked :
    /\ status[j] \in {"running", "failed", "cancelled", "gone"}
    /\ lane.job = j =>
         /\ lane.at \notin {"picked", "claimed"}
         /\ Unasked => j \in stopRequests
         /\ turn.at = "producing" => slot.aborted
         /\ turn.at = "settling" => slot.aborted \/ turn.stopped

Inv ==
  /\ TypeOK /\ Frame
  /\ Written /\ Chosen /\ Begun
  /\ RunningHasExecutor /\ Held /\ StopsOnlyItsJob

-----------------------------------------------------------------------------
\* A job is a number, and the mark of an empty slot is not one of them.
LEMMA Jobs == NoJob \notin Job /\ Job \subseteq Nat
  BY BoundAssumption DEF Job, NoJob

\* Every part holds before the first step.
LEMMA InvInit == Init => Inv
<1> SUFFICES ASSUME Init PROVE Inv
  OBVIOUS
<1>1. TypeOK
  <2>1. ordinaries \in 0..MaxOrdinary /\ restarts \in 0..MaxRestarts
    BY BoundAssumption DEF Init
  <2> QED
    BY <2>1 DEF Init, TypeOK, NoLane, Free, NoTurn, LaneAt, TurnAt
<1>2. Frame
  BY DEF Init, Frame, Lanes, Slots, Working, Resting, Calling, NoLane, Free, NoTurn
<1>3. Written /\ Chosen /\ Begun
  BY DEF Init, Written, Chosen, Begun, Unasked, Asking, NoLane, NoTurn
<1>4. RunningHasExecutor /\ Held /\ StopsOnlyItsJob
  BY DEF Init, RunningHasExecutor, Held, StopsOnlyItsJob, Free
<1> QED
  BY <1>1, <1>2, <1>3, <1>4 DEF Inv

\* One step per action of Next, in every lemma down to StopsStep: first the types.
LEMMA TypeStep ==
  ASSUME TypeOK, Lanes, Slots, [Next]_vars
  PROVE  TypeOK'
<1>0. CASE UNCHANGED vars
  BY <1>0, BoundAssumption, Jobs DEF TypeOK, Lanes, Slots, LaneAt, TurnAt, Settled,
    vars, rows, process, pumping, running, callers, counters, history, Free, NoTurn,
    NoLane
<1>1. ASSUME NEW j \in Job, Client(j) PROVE TypeOK'
  <2>1. ASSUME NEW m \in Message, Enqueue(j, m) PROVE TypeOK'
    BY <2>1, BoundAssumption, Jobs DEF TypeOK, Lanes, Slots, LaneAt, TurnAt,
      Settled, Enqueue, process, pumping, running, counters, history
  <2>2. CASE Schedule(j)
    BY <2>2, BoundAssumption, Jobs DEF TypeOK, Lanes, Slots, LaneAt, TurnAt,
      Settled, Schedule, rows, process, running, counters, history, Kick
  <2>3. CASE CancelRead(j)
    BY <2>3, BoundAssumption, Jobs DEF TypeOK, Lanes, Slots, LaneAt, TurnAt,
      Settled, CancelRead, rows, process, pumping, running, counters, history
  <2>4. CASE CancelPending(j)
    BY <2>4, BoundAssumption, Jobs DEF TypeOK, Lanes, Slots, LaneAt, TurnAt,
      Settled, CancelPending, process, pumping, running, counters, SetStatus
  <2>5. CASE CancelRunning(j)
    <3>1. slot' \in [by : {"free", "ordinary", "job"}, aborted : BOOLEAN, asked : BOOLEAN]
      BY <2>5 DEF TypeOK, CancelRunning, StopJob, Signal, Busy
    <3> QED
      BY <2>5, <3>1 DEF TypeOK, CancelRunning, StopJob, rows, process, counters
  <2> QED
    BY <1>1, <2>1, <2>2, <2>3, <2>4, <2>5 DEF Client
<1>2. CASE Pump
  <2>1. CASE Look
    <3>1. lane' \in [at : LaneAt, job : Job \cup {NoJob}]
      BY <2>1 DEF LaneAt, Look
    <3>2. dirty' \in BOOLEAN
      BY <2>1 DEF TypeOK, Look
    <3> QED
      BY <2>1, <3>1, <3>2 DEF TypeOK, Look, rows, process, running, callers, counters, history
  <2>2. CASE Claim
    BY <2>2, BoundAssumption, Jobs DEF TypeOK, Lanes, Slots, LaneAt, TurnAt,
      Settled, Claim, process, running, callers, counters, history, SetStatus, Busy
  <2>3. CASE Prepare
    BY <2>3, BoundAssumption, Jobs DEF TypeOK, Lanes, Slots, LaneAt, TurnAt,
      Settled, Prepare, process, running, callers, counters, history, SetStatus
  <2>4. CASE StartJob
    BY <2>4, BoundAssumption, Jobs DEF TypeOK, Lanes, Slots, LaneAt, TurnAt,
      Settled, StartJob, rows, process, callers, counters, history, Busy, Free,
      NoTurn
  <2>5. CASE StartRefused
    BY <2>5, BoundAssumption, Jobs DEF TypeOK, Lanes, Slots, LaneAt, TurnAt,
      Settled, StartRefused, process, running, callers, counters, history,
      SetStatus, Busy
  <2>6. CASE StartFails
    BY <2>6, BoundAssumption, Jobs DEF TypeOK, Lanes, Slots, LaneAt, TurnAt,
      Settled, StartFails, process, running, callers, counters, history, SetStatus
  <2>7. CASE Join
    BY <2>7, BoundAssumption, Jobs DEF TypeOK, Lanes, Slots, LaneAt, TurnAt,
      Settled, Join, rows, process, running, callers, counters, history
  <2>8. CASE Close
    BY ZenonT(60), <2>8, BoundAssumption, Jobs DEF TypeOK, Lanes, Slots, LaneAt, TurnAt,
      Settled, Close, rows, process, running, callers, counters, history
  <2>9. CASE Again \/ LaneEnds
    BY <2>9, BoundAssumption, Jobs DEF TypeOK, Lanes, Slots, LaneAt, TurnAt,
      Settled, Again, LaneEnds, rows, process, running, callers, counters, history,
      NoLane
  <2> QED
    BY <1>2, <2>1, <2>2, <2>3, <2>4, <2>5, <2>6, <2>7, <2>8, <2>9 DEF Pump
<1>3. CASE RunJob
  <2>1. CASE TurnBegins
    BY <2>1, BoundAssumption, Jobs DEF TypeOK, Lanes, Slots, LaneAt, TurnAt,
      Settled, TurnBegins, rows, process, callers, counters, Misread
  <2>2. CASE TurnDecides
    <3>1. slot' \in [by : {"free", "ordinary", "job"}, aborted : BOOLEAN, asked : BOOLEAN]
      BY <2>2 DEF TypeOK, TurnDecides, Signal, Busy
    <3>2. turn' \in [at : TurnAt, stopped : BOOLEAN, complete : BOOLEAN]
      BY <2>2 DEF TypeOK, TurnAt, TurnDecides
    <3>3. lane.job # NoJob
      BY <2>2 DEF Lanes, Slots, TurnDecides
    <3> QED
      BY ZenonT(60), <2>2, <3>1, <3>2, <3>3 DEF TypeOK, TurnDecides, rows, process, pumping,
        callers, counters
  <2>3. ASSUME NEW stopped \in BOOLEAN, NEW complete \in BOOLEAN, Produce(stopped, complete) PROVE TypeOK'
    BY <2>3, BoundAssumption, Jobs DEF TypeOK, Lanes, Slots, LaneAt, TurnAt,
      Settled, Produce, rows, process, pumping, callers, counters, history
  <2>4. CASE TurnSettles
    BY <2>4, BoundAssumption, Jobs DEF TypeOK, Lanes, Slots, LaneAt, TurnAt,
      Settled, TurnSettles, process, pumping, running, callers, counters, SetStatus,
      Misread, Outcome
  <2>5. CASE TurnEnds
    BY <2>5, BoundAssumption, Jobs DEF TypeOK, Lanes, Slots, LaneAt, TurnAt,
      Settled, TurnEnds, rows, process, callers, counters, history, Kick, Release,
      Free, NoTurn
  <2> QED
    BY <1>3, <2>1, <2>2, <2>3, <2>4, <2>5 DEF RunJob
<1>4. CASE Chat
  <2>1. CASE Clear
    BY <2>1, BoundAssumption, Jobs DEF TypeOK, Lanes, Slots, LaneAt, TurnAt,
      Settled, Clear, process, pumping, running, callers, counters, history
  <2>2. ASSUME NEW m \in Message, DeleteMessage(m) PROVE TypeOK'
    <3>1. /\ deleted' = deleted \cup {m}
          /\ status' = [j \in Job |-> IF target[j] = m THEN "gone" ELSE status[j]]
      BY <2>2 DEF DeleteMessage
    <3>2. status' \in [Job -> {"none", "pending", "running", "gone"} \cup Settled]
      BY <3>1 DEF TypeOK
    <3>3. deleted' \subseteq Message
      BY <3>1 DEF TypeOK
    <3>4. UNCHANGED <<target, process, pumping, running, callers, counters, history>>
      BY <2>2 DEF DeleteMessage
    <3>. QED
      BY <3>2, <3>3, <3>4 DEF TypeOK, Settled, LaneAt, TurnAt, process, pumping, running,
        callers, counters, history
  <2>3. CASE StopChat
    BY ZenonT(60), <2>3, BoundAssumption, Jobs DEF TypeOK, Lanes, Slots, LaneAt, TurnAt,
      Settled, StopChat, rows, process, pumping, callers, counters, history, Signal,
      Busy
  <2>4. CASE OrdinaryStart
    <3>1. ordinaries' \in 0..MaxOrdinary
      BY <2>4, BoundAssumption DEF TypeOK, OrdinaryStart
    <3>2. slot' \in [by : {"free", "ordinary", "job"}, aborted : BOOLEAN, asked : BOOLEAN]
      BY <2>4 DEF OrdinaryStart, Free
    <3> QED
      BY <2>4, <3>1, <3>2 DEF TypeOK, OrdinaryStart, rows, process, pumping, callers, history
  <2>5. CASE OrdinaryEnd
    <3>1. lane' \in [at : LaneAt, job : Job \cup {NoJob}]
      BY <2>5 DEF TypeOK, LaneAt, OrdinaryEnd, Release, Kick
    <3>3. dirty' \in BOOLEAN
      BY <2>5 DEF TypeOK, OrdinaryEnd, Release, Kick
    <3>2. slot' \in [by : {"free", "ordinary", "job"}, aborted : BOOLEAN, asked : BOOLEAN]
      BY <2>5 DEF OrdinaryEnd, Release, Free
    <3> QED
      BY <2>5, <3>1, <3>2, <3>3 DEF TypeOK, OrdinaryEnd, rows, process, callers, counters, history
  <2> QED
    BY <1>4, <2>1, <2>2, <2>3, <2>4, <2>5 DEF Chat
<1>5. CASE Process
  <2>1. CASE Deactivate
    <3>1. restarts' \in 0..MaxRestarts
      BY <2>1, BoundAssumption DEF TypeOK, Deactivate
    <3> QED
      BY ZenonT(60), <2>1, <3>1 DEF TypeOK, Deactivate, rows, pumping, running, callers, history
  <2>2. CASE Crash
    <3>1. restarts' \in 0..MaxRestarts
      BY <2>2, BoundAssumption DEF TypeOK, Crash
    <3> QED
      BY <2>2, <3>1 DEF TypeOK, LaneAt, TurnAt, Crash, Vanish, NoLane, Free, NoTurn, rows, history
  <2>3. CASE Exit
    BY <2>3, BoundAssumption, Jobs DEF TypeOK, Lanes, Slots, LaneAt, TurnAt,
      Settled, Exit, rows, history, Vanish, Free, NoTurn, NoLane
  <2>4. CASE Activate
    BY <2>4, BoundAssumption, Jobs DEF TypeOK, Lanes, Slots, LaneAt, TurnAt,
      Settled, Activate, rows, pumping, running, callers, counters, history
  <2>5. ASSUME NEW j \in Job, Recover(j) PROVE TypeOK'
    BY <2>5, BoundAssumption, Jobs DEF TypeOK, Lanes, Slots, LaneAt, TurnAt,
      Settled, Recover, process, pumping, running, callers, counters, history
  <2>6. CASE Recovered
    BY <2>6, BoundAssumption, Jobs DEF TypeOK, Lanes, Slots, LaneAt, TurnAt,
      Settled, Recovered, rows, running, callers, counters, history, Kick
  <2> QED
    BY <1>5, <2>1, <2>2, <2>3, <2>4, <2>5, <2>6 DEF Process
<1> QED
  BY <1>0, <1>1, <1>2, <1>3, <1>4, <1>5 DEF Next

\* The lane has a job from the pick to the end of pump()'s turn of the loop.
LEMMA LanesStep ==
  ASSUME TypeOK, Frame, [Next]_vars
  PROVE  Lanes'
<1>0. CASE UNCHANGED vars
  BY <1>0, Jobs DEF TypeOK, Frame, Lanes, Slots, LaneAt, vars, rows, process,
    pumping, running, callers, counters, history, Free, NoTurn, NoLane
<1>1. ASSUME NEW j \in Job, Client(j) PROVE Lanes'
  BY <1>1, Jobs DEF TypeOK, Frame, Lanes, Slots, LaneAt, Client, Enqueue, Schedule,
    CancelRead, CancelPending, CancelRunning, rows, process, pumping, running,
    counters, history, Kick, SetStatus, Signal, Busy, StopJob
<1>2. CASE Pump
  <2>1. CASE Look
    BY <2>1, Jobs DEF TypeOK, Frame, Lanes, Slots, LaneAt, Look, rows, process,
      running, callers, counters, history, Busy
  <2>2. CASE Claim
    BY <2>2, Jobs DEF TypeOK, Frame, Lanes, Slots, LaneAt, Claim, process, running,
      callers, counters, history, SetStatus, Busy
  <2>3. CASE Prepare
    BY <2>3, Jobs DEF TypeOK, Frame, Lanes, Slots, LaneAt, Prepare, process,
      running, callers, counters, history, SetStatus
  <2>4. CASE StartJob \/ StartRefused \/ StartFails
    BY <2>4, Jobs DEF TypeOK, Frame, Lanes, Slots, LaneAt, StartJob, StartRefused,
      StartFails, rows, process, running, callers, counters, history, SetStatus,
      Busy, Free, NoTurn
  <2>5. CASE Join \/ Close \/ Again \/ LaneEnds
    BY <2>5, Jobs DEF TypeOK, Frame, Lanes, Slots, LaneAt, Join, Close, Again,
      LaneEnds, rows, process, running, callers, counters, history, NoLane
  <2> QED
    BY <1>2, <2>1, <2>2, <2>3, <2>4, <2>5 DEF Pump
<1>3. CASE RunJob
  BY <1>3, Jobs DEF TypeOK, Frame, Lanes, Slots, LaneAt, RunJob, TurnBegins,
    TurnDecides, Produce, TurnSettles, TurnEnds, rows, process, pumping, running,
    callers, counters, history, Kick, SetStatus, Signal, Busy, Release, Misread,
    Outcome, Free, NoTurn
<1>4. CASE Chat
  BY <1>4, Jobs DEF TypeOK, Frame, Lanes, Slots, LaneAt, Chat, Clear, DeleteMessage,
    StopChat, OrdinaryStart, OrdinaryEnd, rows, process, pumping, running, callers,
    counters, history, Kick, Signal, Busy, Release, Free
<1>5. CASE Process
  BY <1>5, Jobs DEF TypeOK, Frame, Lanes, Slots, LaneAt, Process, Deactivate, Exit,
    Crash, Activate, Recover, Recovered, rows, process, pumping, running, callers,
    counters, history, Kick, Vanish, Free, NoTurn, NoLane
<1> QED
  BY <1>0, <1>1, <1>2, <1>3, <1>4, <1>5 DEF Next

\* A job's slot is taken with its turn and freed with it.
LEMMA SlotsStep ==
  ASSUME TypeOK, Frame, [Next]_vars
  PROVE  Slots'
<1>0. CASE UNCHANGED vars
  BY <1>0 DEF TypeOK, Frame, Lanes, Slots, TurnAt, vars, rows, process, pumping,
    running, callers, counters, history, Free, NoTurn, NoLane
<1>1. ASSUME NEW j \in Job, Client(j) PROVE Slots'
  BY <1>1 DEF TypeOK, Frame, Lanes, Slots, TurnAt, Client, Enqueue, Schedule,
    CancelRead, CancelPending, CancelRunning, rows, process, pumping, running,
    counters, history, Kick, SetStatus, Signal, Busy, StopJob
<1>2. CASE Pump
  BY <1>2 DEF TypeOK, Frame, Lanes, Slots, TurnAt, Pump, Look, Claim, Prepare,
    StartJob, StartRefused, StartFails, Join, Close, Again, LaneEnds, rows, process,
    running, callers, counters, history, SetStatus, Busy, Free, NoTurn, NoLane
<1>3. CASE RunJob
  <2>1. CASE TurnBegins \/ TurnDecides
    BY <2>1 DEF TypeOK, Frame, Lanes, Slots, TurnAt, TurnBegins, TurnDecides, rows,
      process, pumping, callers, counters, Signal, Busy, Misread
  <2>2. CASE (\E stopped, complete \in BOOLEAN : Produce(stopped, complete)) \/
    TurnSettles
    BY <2>2 DEF TypeOK, Frame, Lanes, Slots, TurnAt, Produce, TurnSettles, rows,
      process, pumping, running, callers, counters, history, SetStatus, Misread,
      Outcome
  <2>3. CASE TurnEnds
    BY <2>3 DEF TypeOK, Frame, Lanes, Slots, TurnAt, TurnEnds, rows, process,
      callers, counters, history, Kick, Release, Free, NoTurn
  <2> QED
    BY <1>3, <2>1, <2>2, <2>3 DEF RunJob
<1>4. CASE Chat
  <2>1. CASE Clear \/ (\E m \in Message : DeleteMessage(m)) \/ StopChat
    BY <2>1 DEF TypeOK, Frame, Lanes, Slots, TurnAt, Clear, DeleteMessage, StopChat,
      rows, process, pumping, running, callers, counters, history, Signal, Busy
  <2>2. CASE OrdinaryStart \/ OrdinaryEnd
    BY <2>2 DEF TypeOK, Frame, Lanes, Slots, TurnAt, OrdinaryStart, OrdinaryEnd,
      rows, process, pumping, callers, counters, history, Kick, Busy, Release, Free
  <2> QED
    BY <1>4, <2>1, <2>2 DEF Chat
<1>5. CASE Process
  BY <1>5 DEF TypeOK, Frame, Lanes, Slots, TurnAt, Process, Deactivate, Exit, Crash,
    Activate, Recover, Recovered, rows, process, pumping, running, callers,
    counters, history, Kick, Vanish, Free, NoTurn, NoLane
<1> QED
  BY <1>0, <1>1, <1>2, <1>3, <1>4, <1>5 DEF Next

\* executing is set and cleared within one job's turn.
LEMMA WorkingStep ==
  ASSUME TypeOK, Frame, [Next]_vars
  PROVE  Working'
<1>0. CASE UNCHANGED vars
  BY <1>0, Jobs DEF TypeOK, Frame, Lanes, Slots, Working, TurnAt, vars, rows,
    process, pumping, running, callers, counters, history, Free, NoTurn, NoLane
<1>1. ASSUME NEW j \in Job, Client(j) PROVE Working'
  BY <1>1, Jobs DEF TypeOK, Frame, Lanes, Slots, Working, TurnAt, Client, Enqueue,
    Schedule, CancelRead, CancelPending, CancelRunning, rows, process, pumping,
    running, counters, history, Kick, SetStatus, Signal, Busy, StopJob
<1>2. CASE Pump
  BY <1>2, Jobs DEF TypeOK, Frame, Lanes, Slots, Working, TurnAt, Pump, Look, Claim,
    Prepare, StartJob, StartRefused, StartFails, Join, Close, Again, LaneEnds, rows,
    process, running, callers, counters, history, SetStatus, Busy, Free, NoTurn,
    NoLane
<1>3. CASE RunJob
  BY <1>3, Jobs DEF TypeOK, Frame, Lanes, Slots, Working, TurnAt, RunJob,
    TurnBegins, TurnDecides, Produce, TurnSettles, TurnEnds, rows, process, pumping,
    running, callers, counters, history, Kick, SetStatus, Signal, Busy, Release,
    Misread, Outcome, Free, NoTurn
<1>4. CASE Chat
  BY <1>4, Jobs DEF TypeOK, Frame, Lanes, Slots, Working, TurnAt, Chat, Clear,
    DeleteMessage, StopChat, OrdinaryStart, OrdinaryEnd, rows, process, pumping,
    running, callers, counters, history, Kick, Signal, Busy, Release, Free
<1>5. CASE Process
  BY <1>5, Jobs DEF TypeOK, Frame, Lanes, Slots, Working, TurnAt, Process,
    Deactivate, Exit, Crash, Activate, Recover, Recovered, rows, process, pumping,
    running, callers, counters, history, Kick, Vanish, Free, NoTurn, NoLane
<1> QED
  BY <1>0, <1>1, <1>2, <1>3, <1>4, <1>5 DEF Next

\* A crash or a shutdown takes everything in memory away.
LEMMA RestingStep ==
  ASSUME TypeOK, Frame, [Next]_vars
  PROVE  Resting'
<1>0. CASE UNCHANGED vars
  BY <1>0 DEF TypeOK, Frame, Resting, NoLane, NoTurn, Free, vars, rows, process,
    pumping, running, callers, counters, history
<1>1. ASSUME NEW j \in Job, Client(j) PROVE Resting'
  BY <1>1 DEF TypeOK, Frame, Resting, NoLane, NoTurn, Free, Client, Enqueue,
    Schedule, CancelRead, CancelPending, CancelRunning, rows, process, pumping,
    running, counters, history, External, Kick, SetStatus, Signal, Busy, StopJob
<1>2. CASE Pump
  <2>1. CASE Look
    BY <2>1 DEF TypeOK, Frame, Resting, NoLane, NoTurn, Free, Look, rows, process,
      running, callers, counters, history, Busy
  <2>2. CASE Claim
    BY <2>2 DEF TypeOK, Frame, Resting, NoLane, NoTurn, Free, Claim, process,
      running, callers, counters, history, SetStatus, Busy
  <2>3. CASE Prepare
    BY <2>3 DEF TypeOK, Frame, Resting, NoLane, NoTurn, Free, Prepare, process,
      running, callers, counters, history, SetStatus
  <2>4. CASE StartJob \/ StartRefused \/ StartFails
    BY <2>4 DEF TypeOK, Frame, Resting, NoLane, NoTurn, Free, StartJob,
      StartRefused, StartFails, rows, process, running, callers, counters, history,
      External, SetStatus, Busy
  <2>5. CASE Join \/ Close \/ Again \/ LaneEnds
    BY <2>5 DEF TypeOK, Frame, Resting, NoLane, NoTurn, Free, Join, Close, Again,
      LaneEnds, rows, process, running, callers, counters, history
  <2> QED
    BY <1>2, <2>1, <2>2, <2>3, <2>4, <2>5 DEF Pump
<1>3. CASE RunJob
  BY <1>3 DEF TypeOK, Frame, Resting, NoLane, NoTurn, Free, RunJob, TurnBegins,
    TurnDecides, Produce, TurnSettles, TurnEnds, rows, process, pumping, running,
    callers, counters, history, External, Kick, SetStatus, Signal, Busy, Release,
    Misread, Outcome
<1>4. CASE Chat
  BY <1>4 DEF TypeOK, Frame, Resting, NoLane, NoTurn, Free, Chat, Clear,
    DeleteMessage, StopChat, OrdinaryStart, OrdinaryEnd, rows, process, pumping,
    running, callers, counters, history, External, Kick, Signal, Busy, Release
<1>5. CASE Process
  BY <1>5 DEF TypeOK, Frame, Resting, NoLane, NoTurn, Free, Process, Deactivate,
    Exit, Crash, Activate, Recover, Recovered, rows, process, pumping, running,
    callers, counters, history, External, Kick, Vanish
<1> QED
  BY <1>0, <1>1, <1>2, <1>3, <1>4, <1>5 DEF Next

\* A cancel() between its awaits has still read the truth: the lane is waiting.
LEMMA CallingStep ==
  ASSUME TypeOK, Frame, [Next]_vars
  PROVE  Calling'
<1>0. CASE UNCHANGED vars
  BY <1>0 DEF TypeOK, Frame, Slots, Resting, Calling, Calm, vars, rows, process,
    pumping, running, callers, counters, history, Free, NoTurn, NoLane
<1>1. ASSUME NEW j \in Job, Client(j) PROVE Calling'
  BY <1>1 DEF TypeOK, Frame, Slots, Resting, Calling, Calm, Client, Enqueue,
    Schedule, CancelRead, CancelPending, CancelRunning, rows, process, pumping,
    running, counters, history, External, Quiet, Kick, SetStatus, Signal, Busy,
    StopJob
<1>2. CASE Pump
  BY <1>2 DEF TypeOK, Frame, Slots, Resting, Calling, Calm, Pump, Look, Claim,
    Prepare, StartJob, StartRefused, StartFails, Join, Close, Again, LaneEnds, rows,
    process, running, callers, counters, history, External, Quiet, SetStatus, Busy,
    Free, NoTurn, NoLane
<1>3. CASE RunJob
  BY <1>3 DEF TypeOK, Frame, Slots, Resting, Calling, Calm, RunJob, TurnBegins,
    TurnDecides, Produce, TurnSettles, TurnEnds, rows, process, pumping, running,
    callers, counters, history, External, Quiet, Kick, SetStatus, Signal, Busy,
    Release, Misread, Outcome, Free, NoTurn
<1>4. CASE Chat
  BY <1>4 DEF TypeOK, Frame, Slots, Resting, Calling, Calm, Chat, Clear,
    DeleteMessage, StopChat, OrdinaryStart, OrdinaryEnd, rows, process, pumping,
    running, callers, counters, history, External, Quiet, Kick, Signal, Busy,
    Release, Free
<1>5. CASE Process
  BY <1>5 DEF TypeOK, Frame, Slots, Resting, Calling, Calm, Process, Deactivate,
    Exit, Crash, Activate, Recover, Recovered, rows, process, pumping, running,
    callers, counters, history, External, Quiet, Kick, Vanish, Free, NoTurn, NoLane
<1> QED
  BY <1>0, <1>1, <1>2, <1>3, <1>4, <1>5 DEF Next

\* The rows agree with what is remembered of them.
LEMMA WrittenStep ==
  ASSUME TypeOK, Frame, Written, Begun, [Next]_vars
  PROVE  Written'
<1>0. CASE UNCHANGED vars
  BY <1>0, NullAssumption DEF TypeOK, Frame, Lanes, Slots, Written, Begun, Unasked,
    Asking, Settled, vars, rows, process, pumping, running, callers, counters,
    history, Free, NoTurn, NoLane
<1>1. ASSUME NEW j \in Job, Client(j) PROVE Written'
  BY <1>1, NullAssumption DEF TypeOK, Frame, Lanes, Slots, Written, Begun, Unasked,
    Asking, Settled, Client, Enqueue, Schedule, CancelRead, CancelPending,
    CancelRunning, rows, process, pumping, running, counters, history, Kick,
    SetStatus, Signal, Busy, StopJob
<1>2. CASE Pump
  <2>1. CASE Look
    BY <2>1, NullAssumption DEF TypeOK, Frame, Lanes, Slots, Written, Begun,
      Unasked, Asking, Settled, Look, rows, process, running, callers, counters,
      history, Busy
  <2>2. CASE Claim
    BY <2>2, NullAssumption DEF TypeOK, Frame, Lanes, Slots, Written, Begun,
      Unasked, Asking, Settled, Claim, process, running, callers, counters, history,
      SetStatus, Busy
  <2>3. CASE Prepare
    BY <2>3, NullAssumption DEF TypeOK, Frame, Lanes, Slots, Written, Begun,
      Unasked, Asking, Settled, Prepare, process, running, callers, counters,
      history, SetStatus
  <2>4. CASE StartJob \/ StartRefused \/ StartFails
    BY <2>4, NullAssumption DEF TypeOK, Frame, Lanes, Slots, Written, Begun,
      Unasked, Asking, Settled, StartJob, StartRefused, StartFails, rows, process,
      running, callers, counters, history, SetStatus, Busy, Free, NoTurn
  <2>5. CASE Join \/ Close \/ Again \/ LaneEnds
    BY <2>5, NullAssumption DEF TypeOK, Frame, Lanes, Slots, Written, Begun,
      Unasked, Asking, Settled, Join, Close, Again, LaneEnds, rows, process,
      running, callers, counters, history, NoLane
  <2> QED
    BY <1>2, <2>1, <2>2, <2>3, <2>4, <2>5 DEF Pump
<1>3. CASE RunJob
  BY <1>3, NullAssumption DEF TypeOK, Frame, Lanes, Slots, Written, Begun, Unasked,
    Asking, Settled, RunJob, TurnBegins, TurnDecides, Produce, TurnSettles,
    TurnEnds, rows, process, pumping, running, callers, counters, history, Kick,
    SetStatus, Signal, Busy, Release, Misread, Outcome, Free, NoTurn
<1>4. CASE Chat
  BY <1>4, NullAssumption DEF TypeOK, Frame, Lanes, Slots, Written, Begun, Unasked,
    Asking, Settled, Chat, Clear, DeleteMessage, StopChat, OrdinaryStart,
    OrdinaryEnd, rows, process, pumping, running, callers, counters, history, Kick,
    Signal, Busy, Release, Free
<1>5. CASE Process
  BY <1>5, NullAssumption DEF TypeOK, Frame, Lanes, Slots, Written, Begun, Unasked,
    Asking, Settled, Process, Deactivate, Exit, Crash, Activate, Recover, Recovered,
    rows, process, pumping, running, callers, counters, history, Kick, Vanish, Free,
    NoTurn, NoLane
<1> QED
  BY <1>0, <1>1, <1>2, <1>3, <1>4, <1>5 DEF Next

\* No older row begins to wait between the pick and the claim.
LEMMA ChosenStep ==
  ASSUME TypeOK, Frame, Written, Chosen, [Next]_vars
  PROVE  Chosen'
<1>0. CASE UNCHANGED vars
  BY <1>0, Jobs DEF TypeOK, Frame, Lanes, Slots, Resting, Calling, Calm, Chosen,
    vars, rows, process, pumping, running, callers, counters, history, Free, NoTurn,
    NoLane
<1>1. ASSUME NEW j \in Job, Client(j) PROVE Chosen'
  BY <1>1, Jobs DEF TypeOK, Frame, Lanes, Slots, Resting, Calling, Calm, Chosen,
    Client, Enqueue, Schedule, CancelRead, CancelPending, CancelRunning, rows,
    process, pumping, running, counters, history, External, Quiet, Kick, SetStatus,
    Signal, Busy, StopJob
<1>2. CASE Pump
  <2>1. CASE Look
    BY <2>1, Jobs DEF TypeOK, Frame, Lanes, Slots, Resting, Calling, Calm, Chosen,
      Look, rows, process, running, callers, counters, history, Busy
  <2>2. CASE Claim
    BY <2>2, Jobs DEF TypeOK, Frame, Lanes, Slots, Resting, Calling, Calm, Chosen,
      Claim, process, running, callers, counters, history, SetStatus, Busy
  <2>3. CASE Prepare
    BY <2>3, Jobs DEF TypeOK, Frame, Lanes, Slots, Resting, Calling, Calm, Chosen,
      Prepare, process, running, callers, counters, history, SetStatus
  <2>4. CASE StartJob \/ StartRefused \/ StartFails
    BY <2>4, Jobs DEF TypeOK, Frame, Lanes, Slots, Resting, Calling, Calm, Chosen,
      StartJob, StartRefused, StartFails, rows, process, running, callers, counters,
      history, External, Quiet, SetStatus, Busy, Free, NoTurn
  <2>5. CASE Join \/ Close \/ Again \/ LaneEnds
    BY <2>5, Jobs DEF TypeOK, Frame, Lanes, Slots, Resting, Calling, Calm, Chosen,
      Join, Close, Again, LaneEnds, rows, process, running, callers, counters,
      history, NoLane
  <2> QED
    BY <1>2, <2>1, <2>2, <2>3, <2>4, <2>5 DEF Pump
<1>3. CASE RunJob
  BY <1>3, Jobs DEF TypeOK, Frame, Lanes, Slots, Resting, Calling, Calm, Chosen,
    RunJob, TurnBegins, TurnDecides, Produce, TurnSettles, TurnEnds, rows, process,
    pumping, running, callers, counters, history, External, Quiet, Kick, SetStatus,
    Signal, Busy, Release, Misread, Outcome, Free, NoTurn
<1>4. CASE Chat
  BY <1>4, Jobs DEF TypeOK, Frame, Lanes, Slots, Resting, Calling, Calm, Chosen,
    Chat, Clear, DeleteMessage, StopChat, OrdinaryStart, OrdinaryEnd, rows, process,
    pumping, running, callers, counters, history, External, Quiet, Kick, Signal,
    Busy, Release, Free
<1>5. CASE Process
  BY <1>5, Jobs DEF TypeOK, Frame, Lanes, Slots, Resting, Calling, Calm, Chosen,
    Process, Deactivate, Exit, Crash, Activate, Recover, Recovered, rows, process,
    pumping, running, callers, counters, history, External, Quiet, Kick, Vanish,
    Free, NoTurn, NoLane
<1> QED
  BY <1>0, <1>1, <1>2, <1>3, <1>4, <1>5 DEF Next

\* From the claim to the outcome the row says running, and the model is asked once.
LEMMA BegunStep ==
  ASSUME TypeOK, Frame, Written, Begun, [Next]_vars
  PROVE  Begun'
<1>0. CASE UNCHANGED vars
  BY <1>0, Jobs DEF TypeOK, Frame, Lanes, Slots, Resting, Calling, Calm, Written,
    Begun, Unasked, Asking, vars, rows, process, pumping, running, callers,
    counters, history, Free, NoTurn, NoLane
<1>1. ASSUME NEW j \in Job, Client(j) PROVE Begun'
  BY <1>1, Jobs DEF TypeOK, Frame, Lanes, Slots, Resting, Calling, Calm, Written,
    Begun, Unasked, Asking, Client, Enqueue, Schedule, CancelRead, CancelPending,
    CancelRunning, rows, process, pumping, running, counters, history, Kick,
    SetStatus, Signal, Busy, StopJob
<1>2. CASE Pump
  <2>1. CASE Look
    BY <2>1, Jobs DEF TypeOK, Frame, Lanes, Slots, Resting, Calling, Calm, Written,
      Begun, Unasked, Asking, Look, rows, process, running, callers, counters,
      history, Busy
  <2>2. CASE Claim
    BY <2>2, Jobs DEF TypeOK, Frame, Lanes, Slots, Resting, Calling, Calm, Written,
      Begun, Unasked, Asking, Claim, process, running, callers, counters, history,
      SetStatus, Busy
  <2>3. CASE Prepare
    BY <2>3, Jobs DEF TypeOK, Frame, Lanes, Slots, Resting, Calling, Calm, Written,
      Begun, Unasked, Asking, Prepare, process, running, callers, counters, history,
      SetStatus
  <2>4. CASE StartJob \/ StartRefused \/ StartFails
    BY <2>4, Jobs DEF TypeOK, Frame, Lanes, Slots, Resting, Calling, Calm, Written,
      Begun, Unasked, Asking, StartJob, StartRefused, StartFails, rows, process,
      running, callers, counters, history, SetStatus, Busy, Free, NoTurn
  <2>5. CASE Join \/ Close \/ Again \/ LaneEnds
    BY <2>5, Jobs DEF TypeOK, Frame, Lanes, Slots, Resting, Calling, Calm, Written,
      Begun, Unasked, Asking, Join, Close, Again, LaneEnds, rows, process, running,
      callers, counters, history, NoLane
  <2> QED
    BY <1>2, <2>1, <2>2, <2>3, <2>4, <2>5 DEF Pump
<1>3. CASE RunJob
  <2>1. CASE TurnDecides
    <3>1. lane' = lane /\ status' = status /\ misread' = misread /\ lane.at = "joining"
      BY <2>1 DEF Frame, Slots, TurnDecides, rows, pumping
    <3>2. lane.job \notin misread /\ status[lane.job] \in {"running", "gone"}
      BY <2>1 DEF Begun, Unasked, TurnDecides
    <3>3. CASE lane.job \in stopRequests
      <4>1. turn'.at = "settling" /\ turn'.stopped
        BY <2>1, <3>3 DEF TypeOK, TurnDecides
      <4> QED
        BY <3>1, <3>2, <4>1 DEF Begun, Unasked, Asking
    <3>4. CASE lane.job \notin stopRequests
      <4>1. turn'.at = "producing" /\ lane.job \in generated'
        BY <2>1, <3>4 DEF TypeOK, TurnDecides
      <4> QED
        BY <3>1, <3>2, <4>1 DEF Begun, Unasked, Asking
    <3> QED
      BY <3>3, <3>4
  <2>2. ASSUME NEW stopped \in BOOLEAN, NEW complete \in BOOLEAN, Produce(stopped, complete) PROVE Begun'
    <3>1. UNCHANGED <<lane, status, misread, generated>> /\ lane.at = "joining"
      BY <2>2 DEF Frame, Slots, Produce, rows, pumping, history
    <3>2. turn'.at = "settling"
      BY <2>2 DEF Produce
    <3>3. /\ lane.job \notin misread /\ status[lane.job] \in {"running", "gone"}
          /\ lane.job \in generated
      BY <2>2 DEF Begun, Asking, Produce
    <3> QED
      BY <3>1, <3>2, <3>3 DEF Begun, Unasked, Asking
  <2>3. CASE TurnBegins \/ TurnSettles \/ TurnEnds
    BY <2>3, Jobs DEF TypeOK, Frame, Lanes, Slots, Resting, Calling, Calm, Written,
      Begun, Unasked, Asking, TurnBegins, TurnSettles, TurnEnds, rows, process,
      pumping, running, callers, counters, history, Kick, SetStatus, Release,
      Misread, Outcome, Free, NoTurn
  <2> QED
    BY <1>3, <2>1, <2>2, <2>3 DEF RunJob
<1>4. CASE Chat
  BY <1>4, Jobs DEF TypeOK, Frame, Lanes, Slots, Resting, Calling, Calm, Written,
    Begun, Unasked, Asking, Chat, Clear, DeleteMessage, StopChat, OrdinaryStart,
    OrdinaryEnd, rows, process, pumping, running, callers, counters, history, Kick,
    Signal, Busy, Release, Free
<1>5. CASE Process
  <2>1. ASSUME NEW j \in Job, Recover(j) PROVE Begun'
    <3>1. lane' = NoLane /\ turn' = NoTurn
      BY <2>1 DEF Frame, Resting, Recover, pumping, running
    <3> QED
      BY <3>1 DEF Begun, Unasked, Asking, NoLane, NoTurn
  <2>2. CASE Deactivate \/ Exit \/ Crash \/ Activate \/ Recovered
    BY <2>2, Jobs DEF TypeOK, Frame, Lanes, Slots, Resting, Calling, Calm, Written,
      Begun, Unasked, Asking, Deactivate, Exit, Crash, Activate, Recovered, rows,
      pumping, running, callers, counters, history, Kick, Vanish, Free, NoTurn,
      NoLane
  <2> QED
    BY <1>5, <2>1, <2>2 DEF Process
<1> QED
  BY <1>0, <1>1, <1>2, <1>3, <1>4, <1>5 DEF Next

\* A running row keeps its executor, or is settled in the step that takes it away.
LEMMA ExecutorStep ==
  ASSUME TypeOK, Frame, Begun, RunningHasExecutor, [Next]_vars
  PROVE  RunningHasExecutor'
<1>0. CASE UNCHANGED vars
  BY <1>0, Jobs DEF TypeOK, Frame, Lanes, Slots, Resting, RunningHasExecutor,
    Executes, vars, rows, process, pumping, running, callers, counters, history,
    Free, NoTurn, NoLane
<1>1. ASSUME NEW j \in Job, Client(j) PROVE RunningHasExecutor'
  BY <1>1, Jobs DEF TypeOK, Frame, Lanes, Slots, Resting, RunningHasExecutor,
    Executes, Client, Enqueue, Schedule, CancelRead, CancelPending, CancelRunning,
    rows, process, pumping, running, counters, history, Kick, SetStatus, Signal,
    Busy, StopJob
<1>2. CASE Pump
  <2>1. CASE Look
    BY <2>1, Jobs DEF TypeOK, Frame, Lanes, Slots, Resting, RunningHasExecutor,
      Executes, Look, rows, process, running, callers, counters, history, Busy
  <2>2. CASE Claim
    BY <2>2, Jobs DEF TypeOK, Frame, Lanes, Slots, Resting, RunningHasExecutor,
      Executes, Claim, process, running, callers, counters, history, SetStatus, Busy
  <2>3. CASE Prepare
    BY <2>3, Jobs DEF TypeOK, Frame, Lanes, Slots, Resting, RunningHasExecutor,
      Executes, Prepare, process, running, callers, counters, history, SetStatus
  <2>4. CASE StartJob \/ StartRefused \/ StartFails
    BY <2>4, Jobs DEF TypeOK, Frame, Lanes, Slots, Resting, RunningHasExecutor,
      Executes, StartJob, StartRefused, StartFails, rows, process, running, callers,
      counters, history, SetStatus, Busy, Free, NoTurn
  <2>5. CASE Join \/ Close \/ Again \/ LaneEnds
    BY <2>5, Jobs DEF TypeOK, Frame, Lanes, Slots, Resting, RunningHasExecutor,
      Executes, Join, Close, Again, LaneEnds, rows, process, running, callers,
      counters, history, NoLane
  <2> QED
    BY <1>2, <2>1, <2>2, <2>3, <2>4, <2>5 DEF Pump
<1>3. CASE RunJob
  <2>1. CASE TurnDecides
    <3>1. UNCHANGED <<lane, status, phase, misread>>
      BY <2>1 DEF TurnDecides, rows, process, pumping
    <3>2. turn.at = "guard" /\ turn'.at \in {"settling", "producing"}
      BY <2>1 DEF TypeOK, TurnDecides
    <3> QED
      BY <3>1, <3>2 DEF RunningHasExecutor, Executes
  <2>2. CASE TurnBegins \/ (\E stopped, complete \in BOOLEAN : Produce(stopped,
    complete)) \/ TurnSettles \/ TurnEnds
    BY <2>2, Jobs DEF TypeOK, Frame, Lanes, Slots, Resting, RunningHasExecutor,
      Executes, TurnBegins, Produce, TurnSettles, TurnEnds, rows, process, pumping,
      running, callers, counters, history, Kick, SetStatus, Release, Misread,
      Outcome, Free, NoTurn
  <2> QED
    BY <1>3, <2>1, <2>2 DEF RunJob
<1>4. CASE Chat
  BY <1>4, Jobs DEF TypeOK, Frame, Lanes, Slots, Resting, RunningHasExecutor,
    Executes, Chat, Clear, DeleteMessage, StopChat, OrdinaryStart, OrdinaryEnd,
    rows, process, pumping, running, callers, counters, history, Kick, Signal, Busy,
    Release, Free
<1>5. CASE Process
  BY <1>5, Jobs DEF TypeOK, Frame, Lanes, Slots, Resting, RunningHasExecutor,
    Executes, Process, Deactivate, Exit, Crash, Activate, Recover, Recovered, rows,
    process, pumping, running, callers, counters, history, Kick, Vanish, Free,
    NoTurn, NoLane
<1> QED
  BY <1>0, <1>1, <1>2, <1>3, <1>4, <1>5 DEF Next

\* The request to stop is handed on from stopRequests to the slot, and never dropped.
LEMMA HeldStep ==
  ASSUME TypeOK, Frame, Begun, RunningHasExecutor, Held, [Next]_vars
  PROVE  Held'
<1>0. CASE UNCHANGED vars
  BY <1>0, Jobs DEF TypeOK, Frame, Lanes, Slots, Working, Resting, Calling, Calm,
    RunningHasExecutor, Executes, Held, Unasked, vars, rows, process, pumping,
    running, callers, counters, history, Free, NoTurn, NoLane
<1>1. ASSUME NEW j \in Job, Client(j) PROVE Held'
  <2>1. ASSUME NEW m \in Message, Enqueue(j, m) PROVE Held'
    BY <2>1, Jobs DEF TypeOK, Frame, Lanes, Slots, Working, Resting, Calling, Calm,
      RunningHasExecutor, Executes, Held, Unasked, Enqueue, process, pumping,
      running, counters, history
  <2>2. CASE Schedule(j)
    BY <2>2, Jobs DEF TypeOK, Frame, Lanes, Slots, Working, Resting, Calling, Calm,
      RunningHasExecutor, Executes, Held, Unasked, Schedule, rows, process, running,
      counters, history, Kick
  <2>3. CASE CancelRead(j)
    BY <2>3, Jobs DEF TypeOK, Frame, Lanes, Slots, Working, Resting, Calling, Calm,
      RunningHasExecutor, Executes, Held, Unasked, CancelRead, rows, process,
      pumping, running, counters, history
  <2>4. CASE CancelPending(j)
    <3>1. /\ UNCHANGED <<lane, stopRequests, slot, turn>> /\ status[j] = "pending" /\ Calm
          /\ status' = [status EXCEPT ![j] = "cancelled"] /\ acked' = acked \cup {j}
      BY <2>4 DEF CancelPending, SetStatus, pumping, running, Frame, Calling
    <3>2. \A i \in acked' : status'[i] \in {"running", "failed", "cancelled", "gone"}
      BY <3>1 DEF TypeOK, Held
    <3>3. lane.at # "picked" /\ ~(turn.at \in {"context", "guard"}) /\ turn.at # "settling" /\ lane.at # "claimed"
      BY <3>1 DEF Calm
    <3>4. lane.at = "starting" \/ turn.at = "producing" => lane.job # j
      BY <3>1 DEF Begun, Unasked, Asking
    <3> QED
      BY <3>1, <3>2, <3>3, <3>4 DEF Held, Unasked
  <2>5. CASE CancelRunning(j)
    <3>1. /\ UNCHANGED <<lane, status, turn>> /\ status[j] = "running"
          /\ Calm /\ acked' = acked \cup {j} /\ stopRequests' = stopRequests \cup {j}
      BY <2>5 DEF CancelRunning, StopJob, rows, Frame, Calling
    <3>2. slot.aborted => slot'.aborted
      BY <2>5 DEF TypeOK, CancelRunning, StopJob, Signal
    <3>3. lane.job = j /\ turn.at = "producing" => slot'.aborted
      BY <2>5 DEF TypeOK, Frame, Slots, Working, CancelRunning, StopJob, Signal, Busy
    <3>4. /\ lane.at \notin {"picked", "claimed"}
          /\ turn.at # "settling"
      BY <3>1 DEF Calm
    <3> QED
      BY <3>1, <3>2, <3>3, <3>4 DEF Held, Unasked
  <2> QED
    BY <1>1, <2>1, <2>2, <2>3, <2>4, <2>5 DEF Client
<1>2. CASE Pump
  <2>1. CASE Look
    BY <2>1, Jobs DEF TypeOK, Frame, Lanes, Slots, Working, Resting, Calling, Calm,
      RunningHasExecutor, Executes, Held, Unasked, Look, rows, process, running,
      callers, counters, history, Busy
  <2>2. CASE Claim
    BY <2>2, Jobs DEF TypeOK, Frame, Lanes, Slots, Working, Resting, Calling, Calm,
      RunningHasExecutor, Executes, Held, Unasked, Claim, process, running, callers,
      counters, history, SetStatus, Busy
  <2>3. CASE Prepare
    BY <2>3, Jobs DEF TypeOK, Frame, Lanes, Slots, Working, Resting, Calling, Calm,
      RunningHasExecutor, Executes, Held, Unasked, Prepare, process, running,
      callers, counters, history, SetStatus
  <2>4. CASE StartJob \/ StartRefused \/ StartFails
    BY <2>4, Jobs DEF TypeOK, Frame, Lanes, Slots, Working, Resting, Calling, Calm,
      RunningHasExecutor, Executes, Held, Unasked, StartJob, StartRefused,
      StartFails, rows, process, running, callers, counters, history, SetStatus,
      Busy, Free, NoTurn
  <2>5. CASE Join \/ Close \/ Again \/ LaneEnds
    BY <2>5, Jobs DEF TypeOK, Frame, Lanes, Slots, Working, Resting, Calling, Calm,
      RunningHasExecutor, Executes, Held, Unasked, Join, Close, Again, LaneEnds,
      rows, process, running, callers, counters, history, NoLane
  <2> QED
    BY <1>2, <2>1, <2>2, <2>3, <2>4, <2>5 DEF Pump
<1>3. CASE RunJob
  <2>1. CASE TurnDecides
    <3>1. UNCHANGED <<lane, status, acked, stopRequests>> /\ lane.at = "joining"
      BY <2>1 DEF Frame, Slots, TurnDecides, rows, pumping
    <3>2. turn.at = "guard" /\ turn'.at \in {"settling", "producing"}
      BY <2>1 DEF TypeOK, TurnDecides
    <3>3. lane.job \in stopRequests => turn'.at = "settling" /\ turn'.stopped
      BY <2>1 DEF TypeOK, TurnDecides
    <3>4. lane.job \in acked => lane.job \in stopRequests
      BY <3>2 DEF Held, Unasked
    <3> QED
      BY <3>1, <3>2, <3>3, <3>4 DEF Held, Unasked
  <2>2. CASE TurnBegins \/ (\E stopped, complete \in BOOLEAN : Produce(stopped,
    complete)) \/ TurnSettles \/ TurnEnds
    BY <2>2, Jobs DEF TypeOK, Frame, Lanes, Slots, Working, Resting, Calling, Calm,
      RunningHasExecutor, Executes, Held, Unasked, TurnBegins, Produce, TurnSettles,
      TurnEnds, rows, process, pumping, running, callers, counters, history, Kick,
      SetStatus, Release, Misread, Outcome, Free, NoTurn
  <2> QED
    BY <1>3, <2>1, <2>2 DEF RunJob
<1>4. CASE Chat
  BY <1>4, Jobs DEF TypeOK, Frame, Lanes, Slots, Working, Resting, Calling, Calm,
    RunningHasExecutor, Executes, Held, Unasked, Chat, Clear, DeleteMessage,
    StopChat, OrdinaryStart, OrdinaryEnd, rows, process, pumping, running, callers,
    counters, history, Kick, Signal, Busy, Release, Free
<1>5. CASE Process
  <2>1. CASE Deactivate
    BY <2>1, Jobs DEF TypeOK, Frame, Lanes, Slots, Working, Resting, Calling, Calm,
      RunningHasExecutor, Executes, Held, Unasked, Deactivate, rows, pumping,
      running, callers, history
  <2>2. CASE Exit
    BY <2>2, Jobs DEF TypeOK, Frame, Lanes, Slots, Working, Resting, Calling, Calm,
      RunningHasExecutor, Executes, Held, Unasked, Exit, rows, history, Vanish,
      Free, NoTurn, NoLane
  <2>3. CASE Crash
    BY <2>3, Jobs DEF TypeOK, Frame, Lanes, Slots, Working, Resting, Calling, Calm,
      RunningHasExecutor, Executes, Held, Unasked, Crash, rows, history, Vanish,
      Free, NoTurn, NoLane
  <2>4. CASE Activate
    BY <2>4, Jobs DEF TypeOK, Frame, Lanes, Slots, Working, Resting, Calling, Calm,
      RunningHasExecutor, Executes, Held, Unasked, Activate, rows, pumping, running,
      callers, counters, history
  <2>5. ASSUME NEW j \in Job, Recover(j) PROVE Held'
    BY <2>5, Jobs DEF TypeOK, Frame, Lanes, Slots, Working, Resting, Calling, Calm,
      RunningHasExecutor, Executes, Held, Unasked, Recover, process, pumping,
      running, callers, counters, history
  <2>6. CASE Recovered
    BY <2>6, Jobs DEF TypeOK, Frame, Lanes, Slots, Working, Resting, Calling, Calm,
      RunningHasExecutor, Executes, Held, Unasked, Recovered, rows, running,
      callers, counters, history, Kick
  <2> QED
    BY <1>5, <2>1, <2>2, <2>3, <2>4, <2>5, <2>6 DEF Process
<1> QED
  BY <1>0, <1>1, <1>2, <1>3, <1>4, <1>5 DEF Next

\* The slot that is signalled belongs to the job that was cancelled.
LEMMA StopsStep ==
  ASSUME TypeOK, Frame, StopsOnlyItsJob, [Next]_vars
  PROVE  StopsOnlyItsJob'
<1>0. CASE UNCHANGED vars
  BY <1>0, Jobs DEF TypeOK, Frame, Lanes, Slots, Working, Resting, Calling, Calm,
    StopsOnlyItsJob, vars, rows, process, pumping, running, callers, counters,
    history, Free, NoTurn, NoLane
<1>1. ASSUME NEW j \in Job, Client(j) PROVE StopsOnlyItsJob'
  <2>1. CASE CancelRunning(j)
    <3>1. lane' = lane /\ acked' = acked \cup {j} /\ stopRequests' = stopRequests \cup {j}
      BY <2>1 DEF CancelRunning, StopJob
    <3>2. CASE executing = j
      <4>1. slot.by = "job" /\ lane.job = j
        BY <2>1, <3>2, Jobs DEF Frame, Slots, Working, Calling, Calm, CancelRunning
      <4>2. slot'.by = slot.by
        BY <2>1, <3>2 DEF TypeOK, CancelRunning, StopJob, Signal
      <4> QED
        BY <3>1, <4>1, <4>2 DEF StopsOnlyItsJob
    <3>3. CASE executing # j
      <4>1. slot' = slot
        BY <2>1, <3>3 DEF CancelRunning, StopJob
      <4> QED
        BY <3>1, <4>1 DEF StopsOnlyItsJob
    <3> QED
      BY <3>2, <3>3
  <2>2. CASE (\E m \in Message : Enqueue(j, m)) \/ Schedule(j) \/ CancelRead(j) \/
    CancelPending(j)
    BY <2>2, Jobs DEF TypeOK, Frame, Lanes, Slots, Working, Resting, Calling, Calm,
      StopsOnlyItsJob, Enqueue, Schedule, CancelRead, CancelPending, rows, process,
      pumping, running, counters, history, Kick, SetStatus
  <2> QED
    BY <1>1, <2>1, <2>2 DEF Client
<1>2. CASE Pump
  <2>1. CASE Look
    BY <2>1, Jobs DEF TypeOK, Frame, Lanes, Slots, Working, Resting, Calling, Calm,
      StopsOnlyItsJob, Look, rows, process, running, callers, counters, history,
      Busy
  <2>2. CASE Claim
    BY <2>2, Jobs DEF TypeOK, Frame, Lanes, Slots, Working, Resting, Calling, Calm,
      StopsOnlyItsJob, Claim, process, running, callers, counters, history,
      SetStatus, Busy
  <2>3. CASE Prepare
    BY <2>3, Jobs DEF TypeOK, Frame, Lanes, Slots, Working, Resting, Calling, Calm,
      StopsOnlyItsJob, Prepare, process, running, callers, counters, history,
      SetStatus
  <2>4. CASE StartJob \/ StartRefused \/ StartFails
    BY <2>4, Jobs DEF TypeOK, Frame, Lanes, Slots, Working, Resting, Calling, Calm,
      StopsOnlyItsJob, StartJob, StartRefused, StartFails, rows, process, running,
      callers, counters, history, SetStatus, Busy, Free, NoTurn
  <2>5. CASE Join \/ Close \/ Again \/ LaneEnds
    BY <2>5, Jobs DEF TypeOK, Frame, Lanes, Slots, Working, Resting, Calling, Calm,
      StopsOnlyItsJob, Join, Close, Again, LaneEnds, rows, process, running,
      callers, counters, history, NoLane
  <2> QED
    BY <1>2, <2>1, <2>2, <2>3, <2>4, <2>5 DEF Pump
<1>3. CASE RunJob
  <2>1. CASE TurnBegins
    BY <2>1, Jobs DEF TypeOK, Frame, Lanes, Slots, Working, Resting, Calling, Calm,
      StopsOnlyItsJob, TurnBegins, rows, process, callers, counters, Misread
  <2>2. CASE TurnDecides
    BY ZenonT(60), <2>2, Jobs DEF TypeOK, Frame, Lanes, Slots, Working, Resting, Calling, Calm,
      StopsOnlyItsJob, TurnDecides, rows, process, pumping, callers, counters,
      Signal, Busy
  <2>3. ASSUME NEW stopped \in BOOLEAN, NEW complete \in BOOLEAN, Produce(stopped, complete) PROVE StopsOnlyItsJob'
    BY <2>3, Jobs DEF TypeOK, Frame, Lanes, Slots, Working, Resting, Calling, Calm,
      StopsOnlyItsJob, Produce, rows, process, pumping, callers, counters, history
  <2>4. CASE TurnSettles
    BY <2>4, Jobs DEF TypeOK, Frame, Lanes, Slots, Working, Resting, Calling, Calm,
      StopsOnlyItsJob, TurnSettles, process, pumping, running, callers, counters,
      SetStatus, Misread, Outcome
  <2>5. CASE TurnEnds
    BY <2>5, Jobs DEF TypeOK, Frame, Lanes, Slots, Working, Resting, Calling, Calm,
      StopsOnlyItsJob, TurnEnds, rows, process, callers, counters, history, Kick,
      Release, Free, NoTurn
  <2> QED
    BY <1>3, <2>1, <2>2, <2>3, <2>4, <2>5 DEF RunJob
<1>4. CASE Chat
  <2>1. CASE Clear \/ (\E m \in Message : DeleteMessage(m))
    BY <2>1, Jobs DEF TypeOK, Frame, Lanes, Slots, Working, Resting, Calling, Calm,
      StopsOnlyItsJob, Clear, DeleteMessage, process, pumping, running, callers,
      counters, history
  <2>2. CASE StopChat
    BY <2>2, Jobs DEF TypeOK, Frame, Lanes, Slots, Working, Resting, Calling, Calm,
      StopsOnlyItsJob, StopChat, rows, process, pumping, callers, counters, history,
      Signal, Busy
  <2>3. CASE OrdinaryStart
    BY <2>3, Jobs DEF TypeOK, Frame, Lanes, Slots, Working, Resting, Calling, Calm,
      StopsOnlyItsJob, OrdinaryStart, rows, process, pumping, callers, history,
      Busy, Free
  <2>4. CASE OrdinaryEnd
    BY <2>4, Jobs DEF TypeOK, Frame, Lanes, Slots, Working, Resting, Calling, Calm,
      StopsOnlyItsJob, OrdinaryEnd, rows, process, callers, counters, history, Kick,
      Release, Free
  <2> QED
    BY <1>4, <2>1, <2>2, <2>3, <2>4 DEF Chat
<1>5. CASE Process
  BY <1>5, Jobs DEF TypeOK, Frame, Lanes, Slots, Working, Resting, Calling, Calm,
    StopsOnlyItsJob, Process, Deactivate, Exit, Crash, Activate, Recover, Recovered,
    rows, process, pumping, running, callers, counters, history, Kick, Vanish, Free,
    NoTurn, NoLane
<1> QED
  BY <1>0, <1>1, <1>2, <1>3, <1>4, <1>5 DEF Next

\* The parts together are inductive.
LEMMA InvStep == Inv /\ [Next]_vars => Inv'
<1> SUFFICES ASSUME Inv, [Next]_vars PROVE Inv'
  OBVIOUS
<1>1. TypeOK' /\ Frame'
  BY TypeStep, LanesStep, SlotsStep, WorkingStep, RestingStep, CallingStep DEF Inv, Frame
<1>2. Written' /\ Chosen' /\ Begun'
  BY WrittenStep, ChosenStep, BegunStep DEF Inv
<1>3. RunningHasExecutor' /\ Held' /\ StopsOnlyItsJob'
  BY ExecutorStep, HeldStep, StopsStep DEF Inv
<1> QED
  BY <1>1, <1>2, <1>3 DEF Inv

\* The invariant holds in every state.
LEMMA InvHolds == Spec => []Inv
  BY InvInit, InvStep, PTL DEF Spec

-----------------------------------------------------------------------------
(***************************************************************************)
(* The rows: every step is a step of the ledger, or leaves them alone.     *)
(***************************************************************************)

\* Marked sees a row as it is, unless its turn could not read the variants.
LEMMA MarkedRows ==
  ASSUME NEW j \in Job
  PROVE  /\ j \notin misread => Marked[j] = status[j]
         /\ Marked[j] = "pending" => status[j] = "pending"
         /\ Marked[j] = "running" => status[j] = "running" /\ j \notin misread
  BY DEF Marked

\* A step that writes one row is a step of the ledger on that row.
LEMMA MarkedChanges ==
  ASSUME TypeOK, NEW j \in Job, j \notin misread, misread' = misread,
         NEW s, status' = [status EXCEPT ![j] = s]
  PROVE  Marked' = [Marked EXCEPT ![j] = s]
<1>1. DOMAIN status = Job
  BY DEF TypeOK
<1> QED
  BY <1>1 DEF Marked

\* Marked is a function of the rows and of the misread turns alone.
LEMMA MarkedStays ==
  ASSUME status' = status, misread' = misread
  PROVE  Marked' = Marked
  BY DEF Marked

\* A turn that cannot read the variants fails, and only Marked says so.
LEMMA MisreadIsFailure ==
  ASSUME Inv, lane.job \in Job, status' = status, misread' = misread \cup {lane.job},
         generated' = generated, Unasked \/ Asking
  PROVE  Ledger!Settle(lane.job, "failed") \/ UNCHANGED <<Marked, generated>>
<1>1. lane.job \notin misread /\ status[lane.job] \in {"running", "gone"}
  BY DEF Inv, Begun
<1>2. CASE status[lane.job] = "running"
  <2>1. Marked' = [Marked EXCEPT ![lane.job] = "failed"]
    BY <1>2 DEF Marked
  <2> QED
    BY <1>1, <1>2, <2>1, MarkedRows DEF Ledger!Settle, Ledger!Become
<1>3. CASE status[lane.job] = "gone"
  BY <1>3 DEF Marked
<1> QED
  BY <1>1, <1>2, <1>3

\* Every step is a step of the ledger or leaves the rows alone.
LEMMA LedgerStep ==
  ASSUME Inv, [Next]_vars
  PROVE  [Ledger!LedgerNext]_<<Marked, generated>>
<1> USE DEF Inv
<1> DEFINE Goal == [Ledger!LedgerNext]_<<Marked, generated>>
<1>0. ASSUME UNCHANGED <<status, misread, generated>> PROVE Goal
  BY <1>0, MarkedStays
<1>1. ASSUME NEW j \in Job, NEW s \in Settled, UNCHANGED <<misread, generated>>,
             j \notin misread, status[j] = "running", s # "done",
             status' = [status EXCEPT ![j] = s]
      PROVE  Goal
  <2>1. Marked[j] = "running" /\ Marked' = [Marked EXCEPT ![j] = s]
    BY <1>1, MarkedRows, MarkedChanges
  <2>2. Ledger!Settle(j, s)
    BY <1>1, <2>1 DEF Ledger!Settle, Ledger!Become
  <2> QED
    BY <1>1, <2>2 DEF Ledger!LedgerNext, Settled, Ledger!Settled
<1>2. ASSUME NEW J \in SUBSET Job, UNCHANGED <<misread, generated>>,
             \A j \in J : status[j] # "none",
             status' = [j \in Job |-> IF j \in J THEN "gone" ELSE status[j]]
      PROVE  Goal
  <2>1. Marked' = [j \in Job |-> IF j \in J THEN "gone" ELSE Marked[j]]
    BY <1>2 DEF Marked
  <2>2. \A j \in J : Marked[j] # "none"
    BY <1>2 DEF Marked
  <2>3. Ledger!Remove(J)
    BY <1>2, <2>1, <2>2 DEF Ledger!Remove
  <2> QED
    BY <2>3 DEF Ledger!LedgerNext
<1>3. CASE UNCHANGED vars
  BY <1>0, <1>3 DEF vars, rows, history
<1>4. ASSUME NEW j \in Job, Client(j) PROVE Goal
  <2>1. ASSUME NEW m \in Message, Enqueue(j, m) PROVE Goal
    <3>1. status[j] = "none" /\ j \notin misread /\ UNCHANGED <<misread, generated>>
      BY <2>1 DEF Enqueue, Written, history
    <3>2. Marked[j] = "none" /\ Marked' = [Marked EXCEPT ![j] = "pending"]
      BY <2>1, <3>1, MarkedRows, MarkedChanges DEF Enqueue
    <3> QED
      BY <3>1, <3>2 DEF Ledger!LedgerNext, Ledger!Add, Ledger!Become
  <2>2. CASE Schedule(j) \/ CancelRead(j) \/ CancelRunning(j)
    BY <1>0, <2>2 DEF Schedule, CancelRead, CancelRunning, rows, history
  <2>3. CASE CancelPending(j)
    <3>1. status[j] = "pending" /\ j \notin misread
      BY <2>3 DEF CancelPending, Frame, Calling, Written
    <3>2. /\ Marked[j] = "pending" /\ Marked' = [Marked EXCEPT ![j] = "cancelled"]
          /\ generated' = generated
      BY <2>3, <3>1, MarkedRows, MarkedChanges DEF CancelPending, SetStatus
    <3> QED
      BY <3>2 DEF Ledger!LedgerNext, Ledger!Withdraw, Ledger!Become
  <2> QED
    BY <1>4, <2>1, <2>2, <2>3 DEF Client
<1>5. CASE Pump
  <2>1. CASE Look \/ StartJob \/ Join \/ Close \/ Again \/ LaneEnds
    BY <1>0, <2>1 DEF Look, StartJob, Join, Close, Again, LaneEnds, rows, history
  <2>2. CASE Claim
    <3>1. CASE ~Busy /\ status[lane.job] = "pending"
      <4>1. /\ lane.job \in Job /\ lane.job \notin misread /\ UNCHANGED <<misread, generated>>
            /\ status' = [status EXCEPT ![lane.job] = "running"]
        BY <2>2, <3>1 DEF Claim, SetStatus, TypeOK, Frame, Lanes, Written, history
      <4>2. Marked[lane.job] = "pending" /\ Marked' = [Marked EXCEPT ![lane.job] = "running"]
        BY <3>1, <4>1, MarkedRows, MarkedChanges
      <4>3. Ledger!Oldest(lane.job)
        BY <2>2, MarkedRows DEF Claim, Chosen, Ledger!Oldest
      <4>4. \A i \in Job : Marked[i] # "running"
        BY <2>2, MarkedRows DEF Claim, RunningHasExecutor, Executes, Frame, Resting, NoLane
      <4> QED
        BY <4>1, <4>2, <4>3, <4>4 DEF Ledger!LedgerNext, Ledger!Take, Ledger!Become
    <3>2. CASE ~(~Busy /\ status[lane.job] = "pending")
      BY <1>0, <2>2, <3>2 DEF Claim, SetStatus, history
    <3> QED
      BY <3>1, <3>2
  <2>3. CASE Prepare \/ StartFails
    <3>1. lane.job \in Job /\ lane.job \notin misread /\ UNCHANGED <<misread, generated>>
      BY <2>3 DEF Prepare, StartFails, TypeOK, Frame, Lanes, Begun, Unasked, history
    <3>2. \/ status' = status
          \/ status[lane.job] = "running" /\ status' = [status EXCEPT ![lane.job] = "failed"]
      BY <2>3 DEF Prepare, StartFails, SetStatus
    <3> QED
      BY <1>0, <1>1, <3>1, <3>2 DEF Settled
  <2>4. CASE StartRefused
    <3>1. /\ lane.job \in Job /\ lane.job \notin misread /\ lane.job \notin generated
          /\ UNCHANGED <<misread, generated>>
      BY <2>4 DEF StartRefused, TypeOK, Frame, Lanes, Begun, Unasked, history
    <3>2. \/ status' = status
          \/ /\ status[lane.job] = "running"
             /\ \E s \in {"pending", "cancelled"} : status' = [status EXCEPT ![lane.job] = s]
      BY <2>4 DEF StartRefused, SetStatus
    <3>3. CASE status[lane.job] = "running" /\ status' = [status EXCEPT ![lane.job] = "pending"]
      <4>1. /\ Marked[lane.job] = "running"
            /\ Marked' = [Marked EXCEPT ![lane.job] = "pending"]
        BY <3>1, <3>3, MarkedRows, MarkedChanges
      <4> QED
        BY <3>1, <4>1 DEF Ledger!LedgerNext, Ledger!PutBack, Ledger!Become
    <3> QED
      BY <1>0, <1>1, <3>1, <3>2, <3>3 DEF Settled
  <2> QED
    BY <1>5, <2>1, <2>2, <2>3, <2>4 DEF Pump
<1>6. CASE RunJob
  <2>0. turn.at # "none" => lane.job \in Job
    BY DEF TypeOK, Frame, Slots, Lanes
  <2>1. CASE TurnBegins
    <3>1. lane.job \in Job /\ Unasked /\ status' = status /\ generated' = generated
      BY <2>0, <2>1 DEF TurnBegins, Unasked, rows
    <3>2. misread' = misread \/ misread' = misread \cup {lane.job}
      BY <2>1 DEF TurnBegins, Misread
    <3> QED
      BY <1>0, <3>1, <3>2, MisreadIsFailure DEF Ledger!LedgerNext, Ledger!Settled
  <2>2. CASE TurnDecides
    <3>1. /\ lane.job \in Job /\ lane.job \notin misread /\ lane.job \notin generated
          /\ status[lane.job] \in {"running", "gone"}
      BY <2>0, <2>2 DEF TurnDecides, Begun, Unasked
    <3>2. /\ status' = status /\ misread' = misread
          /\ generated' \in {generated, generated \cup {lane.job}}
      BY <2>2 DEF TurnDecides, rows
    <3>3. Marked' = Marked /\ Marked[lane.job] \in {"running", "gone"}
      BY <3>1, <3>2, MarkedStays, MarkedRows
    <3> QED
      BY <3>1, <3>2, <3>3 DEF Ledger!LedgerNext, Ledger!Generate
  <2>3. ASSUME NEW stopped \in BOOLEAN, NEW complete \in BOOLEAN, Produce(stopped, complete)
        PROVE  Goal
    BY <1>0, <2>3 DEF Produce, rows, history
  <2>4. CASE TurnSettles
    <3>1. /\ lane.job \in Job /\ lane.job \notin misread /\ generated' = generated
          /\ Asking /\ turn.at = "settling"
      BY <2>0, <2>4 DEF TurnSettles, Begun, Asking
    <3>2. CASE misread' = misread /\ SetStatus(lane.job, Outcome, "running")
      <4>1. CASE status[lane.job] # "running"
        BY <1>0, <3>1, <3>2, <4>1 DEF SetStatus
      <4>2. CASE status[lane.job] = "running" /\ Outcome # "done"
        BY <1>1, <3>1, <3>2, <4>2 DEF SetStatus, Settled, Outcome
      <4>3. CASE status[lane.job] = "running" /\ Outcome = "done"
        <5>1. lane.job \in generated
          BY <3>1, <4>3 DEF Begun, Outcome
        <5>2. /\ Marked[lane.job] = "running"
              /\ Marked' = [Marked EXCEPT ![lane.job] = "done"]
          BY <3>1, <3>2, <4>3, MarkedRows, MarkedChanges DEF SetStatus
        <5>3. Ledger!Settle(lane.job, "done")
          BY <3>1, <5>1, <5>2 DEF Ledger!Settle, Ledger!Become
        <5> QED
          BY <3>1, <5>3 DEF Ledger!LedgerNext, Ledger!Settled
      <4> QED
        BY <4>1, <4>2, <4>3
    <3>3. CASE misread' = misread \cup {lane.job} /\ status' = status
      BY <3>1, <3>3, MisreadIsFailure DEF Ledger!LedgerNext, Ledger!Settled
    <3> QED
      BY <2>4, <3>2, <3>3 DEF TurnSettles, Misread
  <2>5. CASE TurnEnds
    BY <1>0, <2>5 DEF TurnEnds, rows, history
  <2> QED
    BY <1>6, <2>1, <2>2, <2>3, <2>4, <2>5 DEF RunJob
<1>7. CASE Chat
  <2>1. CASE Clear
    <3> DEFINE J == {j \in Job : status[j] = "pending"}
    <3>1. status' = [j \in Job |-> IF j \in J THEN "gone" ELSE status[j]]
      BY <2>1 DEF Clear
    <3> QED
      BY <1>2, <2>1, <3>1 DEF Clear, history
  <2>2. ASSUME NEW m \in Message, DeleteMessage(m) PROVE Goal
    <3> DEFINE J == {j \in Job : target[j] = m}
    <3>1. status' = [j \in Job |-> IF j \in J THEN "gone" ELSE status[j]]
      BY <2>2 DEF DeleteMessage
    <3>2. \A j \in J : status[j] # "none"
      BY NullAssumption DEF Written
    <3> QED
      BY <1>2, <2>2, <3>1, <3>2 DEF DeleteMessage, history
  <2>3. CASE StopChat \/ OrdinaryStart \/ OrdinaryEnd
    BY <1>0, <2>3 DEF StopChat, OrdinaryStart, OrdinaryEnd, rows, history
  <2> QED
    BY <1>7, <2>1, <2>2, <2>3 DEF Chat
<1>8. CASE Process
  <2>1. CASE Deactivate \/ Exit \/ Crash \/ Activate \/ Recovered
    BY <1>0, <2>1 DEF Deactivate, Exit, Crash, Vanish, Activate, Recovered, rows, history
  <2>2. ASSUME NEW j \in Job, Recover(j) PROVE Goal
    <3>1. CASE j \in misread
      <4>1. Marked' = Marked
        BY <2>2, <3>1 DEF Recover, Marked, TypeOK, history
      <4> QED
        BY <2>2, <4>1 DEF Recover, history
    <3>2. CASE j \notin misread
      BY <1>1, <2>2, <3>2 DEF Recover, Settled, history
    <3> QED
      BY <3>1, <3>2
  <2> QED
    BY <1>8, <2>1, <2>2 DEF Process
<1> QED
  BY <1>3, <1>4, <1>5, <1>6, <1>7, <1>8 DEF Next

-----------------------------------------------------------------------------
\* Rows, lane, slot, turn and calls keep their types, and a job that a part of
\* the queue names is a job.
THEOREM TypeCorrect == Spec => []TypeOK
  BY InvHolds, PTL DEF Inv

\* While the process accepts work, a row that says running is held by the lane or
\* by its turn, which will settle it (pump() and runJob()), unless the turn could not
\* read the variants; activate() leaves none behind.
THEOREM ExecutorsExist == Spec => []RunningHasExecutor
  BY InvHolds, PTL DEF Inv

\* A job whose cancel() has been answered never waits again and is never done, and
\* if its turn is asking the model it has been signalled, wherever in the
\* hand-over between lane, start() and runJob() the call came.
THEOREM CancelsHold == Spec => []CancelHolds
<1>1. Inv => CancelHolds
  <2> SUFFICES ASSUME Inv, NEW j \in acked
               PROVE  /\ status[j] \notin {"pending", "done"}
                      /\ Executes(j) /\ turn.at = "producing" => slot.aborted
    BY DEF CancelHolds
  <2> QED
    BY DEF Inv, Held, Executes
<1> QED
  BY <1>1, InvHolds, PTL

\* stopJob() addresses the chat's slot, but whoever it aborts is the turn of
\* the job that was cancelled.
THEOREM StopsAreAimed == Spec => []StopsOnlyItsJob
  BY InvHolds, PTL DEF Inv

\* regenerate() is never called for a job whose cancel() has been answered.
THEOREM CancelsComeFirst == Spec => CancelBeatsGeneration
<1>1. Inv /\ [Next]_vars => [\A j \in acked : j \in generated' => j \in generated]_vars
  <2> SUFFICES ASSUME Inv, Next, NEW j \in acked, j \in generated'
               PROVE  j \in generated
    BY DEF Inv
  <2>1. CASE TurnDecides
    BY <2>1 DEF Inv, Held, Unasked, TurnDecides
  <2>2. CASE ~TurnDecides
    <3>1. generated' = generated
      BY <2>2 DEF Next, Client, Pump, RunJob, Chat, Process,
        Enqueue, Schedule, CancelRead, CancelPending, CancelRunning, Look, Claim, Prepare,
        StartJob, StartRefused, StartFails, Join, Close, Again, LaneEnds, TurnBegins, Produce,
        TurnSettles, TurnEnds, Clear, DeleteMessage, StopChat, OrdinaryStart, OrdinaryEnd,
        Deactivate, Exit, Crash, Vanish, Activate, Recover, Recovered, history
    <3> QED
      BY <3>1
  <2> QED
    BY <2>1, <2>2
<1> QED
  BY <1>1, InvHolds, PTL DEF Spec, CancelBeatsGeneration

\* The queue keeps JobLedger's contract: jobs are taken oldest first and one at a
\* time, a model is asked at most once in a job's life, across refusals, restarts
\* and deletions, and an ending is never taken back.
THEOREM QueueIsLedger == Spec => ImplementsLedger
<1>1. Init => Ledger!LedgerInit
  BY DEF Init, Marked, Ledger!LedgerInit
<1>2. Inv /\ [Next]_vars => [Ledger!LedgerNext]_(Ledger!ledgerVars)
  BY LedgerStep DEF Ledger!ledgerVars
<1> QED
  BY <1>1, <1>2, InvHolds, PTL DEF Spec, ImplementsLedger, Ledger!LedgerSpec
=============================================================================
