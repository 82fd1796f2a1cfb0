-------------------------- MODULE GenerationQueue --------------------------
(***************************************************************************)
(* services/api/src/domain/chat/chat-generation-queue.ts: the durable      *)
(* queue of "generate more" jobs, here of one chat (chats share nothing    *)
(* but code).  Rows live in SQLite and survive the process; the lane that  *)
(* executes them, the stop requests and the chat's slot in the registry of *)
(* turns do not.                                                           *)
(*                                                                         *)
(* A step is what JavaScript runs between two awaits.  The store is        *)
(* synchronous, so most awaits suspend for a microtask only; the exceptions*)
(* are start() (it reads character files), the turn (it talks to a model   *)
(* provider) and the requests of clients.  A step that an outside event    *)
(* begins waits until no microtask is left to run, as the event loop has it.*)
(***************************************************************************)
EXTENDS Naturals, FiniteSets

CONSTANTS
  MaxJobs,          \* bound: rows ever enqueued
  Message,          \* assistant messages that jobs regenerate
  NoMessage,
  MaxOrdinary,      \* bound: other generations of the chat
  MaxRestarts,      \* bound: crashes and shutdowns
  MaxMisreads       \* bound: jobs for which the reads of variants around their turn throw

ASSUME BoundAssumption ==
  MaxJobs \in Nat /\ MaxOrdinary \in Nat /\ MaxRestarts \in Nat /\ MaxMisreads \in Nat
ASSUME NullAssumption == NoMessage \notin Message

Job   == 1..MaxJobs
NoJob == 0

VARIABLES
  status,        \* the rows: status[j], "none" before and "gone" after its life
  target,        \* the rows: the message job j regenerates
  deleted,       \* messages that have been deleted
  phase,         \* of the server process: down, recovering, up
  enabled,       \* accepting work; also: subscribed to the registry
  lane,          \* the chat's lane: where its pump is, and with which job
  dirty,         \* the chat is in the set "dirty"
  stopRequests,
  executing,
  slot,          \* the registry's slot "chat:<id>"
  turn,          \* runJob's generator, while the job holds the slot
  kicks,         \* enqueue() calls that have inserted a row, not yet scheduled
  cancel,        \* cancel() calls: what the call of job j is about to act on
  ordinaries, restarts,
  generated,     \* history: jobs for which regenerate() was called
  acked,         \* history: jobs whose cancel() found them unsettled and took hold
  misread        \* history: jobs whose turn could not read the variants

rows     == <<status, target, deleted>>
process  == <<phase, enabled>>
pumping  == <<lane, dirty, stopRequests, executing>>
running  == <<slot, turn>>
callers  == <<kicks, cancel>>
counters == <<ordinaries, restarts>>
history  == <<generated, acked, misread>>
vars == <<rows, process, pumping, running, callers, counters, history>>

Settled == {"done", "failed", "cancelled"}
LaneAt  == {"none", "wake", "top", "picked", "claimed", "starting", "joining",
            "closing", "refused", "exit", "ending"}
TurnAt  == {"none", "context", "guard", "producing", "settling", "settled"}

TypeOK ==
  /\ status \in [Job -> {"none", "pending", "running", "gone"} \cup Settled]
  /\ target \in [Job -> Message \cup {NoMessage}]
  /\ deleted \subseteq Message
  /\ phase \in {"down", "recovering", "up"}
  /\ enabled \in BOOLEAN
  /\ lane \in [at : LaneAt, job : Job \cup {NoJob}]
  /\ dirty \in BOOLEAN
  /\ stopRequests \subseteq Job
  /\ executing \in Job \cup {NoJob}
  /\ slot \in [by : {"free", "ordinary", "job"}, aborted : BOOLEAN, asked : BOOLEAN]
  /\ turn \in [at : TurnAt, stopped : BOOLEAN, complete : BOOLEAN]
  /\ kicks \subseteq Job
  /\ cancel \in [Job -> {"none", "pending", "running"}]
  /\ ordinaries \in 0..MaxOrdinary
  /\ restarts \in 0..MaxRestarts
  /\ generated \subseteq Job /\ misread \subseteq Job
  /\ acked \subseteq Job

-----------------------------------------------------------------------------
NoLane == [at |-> "none", job |-> NoJob]
Free   == [by |-> "free", aborted |-> FALSE, asked |-> FALSE]
NoTurn == [at |-> "none", stopped |-> FALSE, complete |-> FALSE]

Init ==
  /\ status = [j \in Job |-> "none"]
  /\ target = [j \in Job |-> NoMessage]
  /\ deleted = {}
  /\ phase = "down" /\ enabled = FALSE
  /\ lane = NoLane /\ dirty = FALSE
  /\ stopRequests = {} /\ executing = NoJob
  /\ slot = Free /\ turn = NoTurn
  /\ kicks = {} /\ cancel = [j \in Job |-> "none"]
  /\ ordinaries = 0 /\ restarts = 0
  /\ generated = {} /\ acked = {} /\ misread = {}

Busy == slot.by # "free"

\* No continuation is waiting in the microtask queue: whatever is suspended
\* waits for the disk, for a model provider or for the end of a turn.
Quiet ==
  /\ phase # "recovering"
  /\ \/ lane.at \in {"none", "starting"}
     \/ lane.at = "joining" /\ turn.at # "none"
  /\ turn.at \in {"none", "producing"}
  /\ kicks = {}
  /\ \A j \in Job : cancel[j] = "none"

External == phase = "up" /\ Quiet

\* kick(): a wake is remembered, and a lane begins if there is none.
Kick ==
  /\ dirty' = TRUE
  /\ lane' = IF lane.at = "none" THEN [at |-> "wake", job |-> NoJob] ELSE lane

\* setStatus(..., expected): a compare-and-set on the row.
SetStatus(j, s, expected) ==
  status' = IF status[j] = expected THEN [status EXCEPT ![j] = s] ELSE status

\* registry.stop(): signals whoever holds the slot.
Signal(asked) ==
  slot' = IF Busy /\ ~slot.aborted THEN [slot EXCEPT !.aborted = TRUE, !.asked = asked]
                                   ELSE slot
-----------------------------------------------------------------------------
(* The requests of clients.                                                *)

\* enqueue(): the store's insert re-checks the target and keeps the order.
Enqueue(j, m) ==
  /\ External
  /\ status[j] = "none" /\ \A i \in Job : i < j => status[i] # "none"
  /\ m \notin deleted
  /\ status' = [status EXCEPT ![j] = "pending"]
  /\ target' = [target EXCEPT ![j] = m]
  /\ kicks' = kicks \cup {j}
  /\ UNCHANGED <<deleted, process, pumping, running, cancel, counters, history>>

\* Its continuation after the insert: schedule().
Schedule(j) ==
  /\ j \in kicks
  /\ kicks' = kicks \ {j}
  /\ Kick
  /\ UNCHANGED <<rows, process, stopRequests, executing, running, cancel, counters, history>>

\* cancel(): the first look at the row; a job that has ended is left alone.
CancelRead(j) ==
  /\ External
  /\ cancel[j] = "none"
  /\ status[j] \in {"pending", "running"}
  /\ cancel' = [cancel EXCEPT ![j] = status[j]]
  /\ UNCHANGED <<rows, process, pumping, running, kicks, counters, history>>

\* cancelPending(): wins the row, or loses it to a claim and looks again.
CancelPending(j) ==
  /\ cancel[j] = "pending"
  /\ SetStatus(j, "cancelled", "pending")
  /\ cancel' = [cancel EXCEPT ![j] = IF status[j] = "running" THEN "running" ELSE "none"]
  /\ acked' = IF status[j] = "pending" THEN acked \cup {j} ELSE acked
  /\ UNCHANGED <<target, deleted, process, pumping, running, kicks, counters, generated, misread>>

\* Mutant: a stop of a job that has not begun is not remembered.
StopJob_Forgetful(j) ==
  /\ UNCHANGED stopRequests
  /\ IF executing = j THEN Signal(FALSE) ELSE UNCHANGED slot

\* Mutant: the slot's holder is signalled without asking who it is.
StopJob_Anyone(j) ==
  /\ stopRequests' = stopRequests \cup {j}
  /\ Signal(FALSE)

\* stopJob(): remembered for a job that has not begun, signalled to one that
\* executes.
StopJob(j) ==
  /\ stopRequests' = stopRequests \cup {j}
  /\ IF executing = j THEN Signal(FALSE) ELSE UNCHANGED slot

CancelRunning(j) ==
  /\ cancel[j] = "running"
  /\ StopJob(j)
  /\ cancel' = [cancel EXCEPT ![j] = "none"]
  /\ acked' = acked \cup {j}
  /\ UNCHANGED <<rows, process, lane, dirty, executing, turn, kicks, counters, generated, misread>>

\* clear(): deletes what waits.
Clear ==
  /\ External
  /\ \E j \in Job : status[j] = "pending"
  /\ status' = [j \in Job |-> IF status[j] = "pending" THEN "gone" ELSE status[j]]
  /\ UNCHANGED <<target, deleted, process, pumping, running, callers, counters, history>>

\* Deleting a message takes its jobs with it, in whatever state they are.
DeleteMessage(m) ==
  /\ External
  /\ m \notin deleted
  /\ deleted' = deleted \cup {m}
  /\ status' = [j \in Job |-> IF target[j] = m THEN "gone" ELSE status[j]]
  /\ UNCHANGED <<target, process, pumping, running, callers, counters, history>>

\* Stop of the chat, whatever runs there.
StopChat ==
  /\ External
  /\ Busy /\ ~slot.aborted
  /\ Signal(TRUE)
  /\ UNCHANGED <<rows, process, pumping, turn, callers, counters, history>>

\* A reply, a swipe or a native regenerate takes the slot,
OrdinaryStart ==
  /\ External
  /\ ~Busy
  /\ ordinaries < MaxOrdinary
  /\ ordinaries' = ordinaries + 1
  /\ slot' = [Free EXCEPT !.by = "ordinary"]
  /\ UNCHANGED <<rows, process, pumping, turn, callers, restarts, history>>

\* Mutant: the queue does not listen to the ends of runs.
Release_Unheard ==
  /\ slot' = Free
  /\ UNCHANGED <<lane, dirty>>

\* A run ends: the slot is free and the queue, if it listens, is woken.
Release ==
  /\ slot' = Free
  /\ IF enabled THEN Kick ELSE UNCHANGED <<lane, dirty>>

\* and gives it back at its own time.
OrdinaryEnd ==
  /\ External
  /\ slot.by = "ordinary"
  /\ Release
  /\ UNCHANGED <<rows, process, stopRequests, executing, turn, callers, counters, history>>

-----------------------------------------------------------------------------
(* The lane: kick()'s loop around pump(), and pump() itself.               *)

\* The clearing of the dirty flag belongs to the outer loop, the test and the
\* read of the next job to pump()'s.
Look ==
  /\ lane.at \in {"wake", "top"}
  /\ dirty' = IF lane.at = "wake" THEN FALSE ELSE dirty
  /\ IF enabled /\ ~Busy
     THEN \/ \E j \in Job : /\ status[j] = "pending"
                            /\ \A i \in Job : status[i] = "pending" => j <= i
                            /\ lane' = [at |-> "picked", job |-> j]
          \/ /\ \A j \in Job : status[j] # "pending"
             /\ lane' = [at |-> "exit", job |-> NoJob]
     ELSE lane' = [at |-> "exit", job |-> NoJob]
  /\ UNCHANGED <<rows, process, stopRequests, executing, running, callers, counters, history>>

\* The claim, if the slot is still free and the row still pending.
Claim ==
  /\ lane.at = "picked"
  /\ IF Busy
     THEN lane' = [at |-> "exit", job |-> NoJob] /\ UNCHANGED status
     ELSE /\ SetStatus(lane.job, "running", "pending")
          /\ lane' = IF status[lane.job] = "pending"
                     THEN [lane EXCEPT !.at = "claimed"]
                     ELSE [at |-> "top", job |-> NoJob]
  /\ UNCHANGED <<target, deleted, process, dirty, stopRequests, executing, running,
                 callers, counters, history>>

\* The target is looked up; a job without one fails.
Prepare ==
  /\ lane.at = "claimed"
  /\ IF target[lane.job] \notin deleted
     THEN lane' = [lane EXCEPT !.at = "starting"] /\ UNCHANGED status
     ELSE /\ lane' = [lane EXCEPT !.at = "closing"]
          /\ SetStatus(lane.job, "failed", "running")
  /\ UNCHANGED <<target, deleted, process, dirty, stopRequests, executing, running,
                 callers, counters, history>>

\* start() took its time: the slot is free and the job's turn takes it,
StartJob ==
  /\ External
  /\ lane.at = "starting"
  /\ ~Busy
  /\ slot' = [Free EXCEPT !.by = "job"]
  /\ turn' = [NoTurn EXCEPT !.at = "context"]
  /\ lane' = [lane EXCEPT !.at = "joining"]
  /\ UNCHANGED <<rows, process, dirty, stopRequests, executing, callers, counters, history>>

\* or somebody else has taken it, and the job goes back to the line unless
\* it has been cancelled meanwhile,
StartRefused ==
  /\ External
  /\ lane.at = "starting"
  /\ Busy
  /\ SetStatus(lane.job, IF lane.job \in stopRequests THEN "cancelled" ELSE "pending", "running")
  /\ lane' = [lane EXCEPT !.at = "refused"]
  /\ UNCHANGED <<target, deleted, process, dirty, stopRequests, executing, running,
                 callers, counters, history>>

\* Mutant: a start that fails leaves the row as it is.
StartFails_Unhandled ==
  /\ External
  /\ lane.at = "starting"
  /\ lane' = [lane EXCEPT !.at = "closing"]
  /\ UNCHANGED <<rows, process, dirty, stopRequests, executing, running,
                 callers, counters, history>>

\* or the chat or its character could not be read.
StartFails ==
  /\ External
  /\ lane.at = "starting"
  /\ SetStatus(lane.job, "failed", "running")
  /\ lane' = [lane EXCEPT !.at = "closing"]
  /\ UNCHANGED <<target, deleted, process, dirty, stopRequests, executing, running,
                 callers, counters, history>>

\* The subscription of the lane ends with the turn.
Join ==
  /\ lane.at = "joining"
  /\ turn.at = "none"
  /\ lane' = [lane EXCEPT !.at = "closing"]
  /\ UNCHANGED <<rows, process, dirty, stopRequests, executing, running, callers, counters, history>>

\* pump()'s finally: then the next job, or the return after a refusal.
Close ==
  /\ lane.at \in {"closing", "refused"}
  /\ executing' = NoJob
  /\ stopRequests' = stopRequests \ {lane.job}
  /\ lane' = [at |-> IF lane.at = "closing" THEN "top" ELSE "exit", job |-> NoJob]
  /\ UNCHANGED <<rows, process, dirty, running, callers, counters, history>>

\* The outer loop goes round for a wake that came while it was pumping.
Again ==
  /\ lane.at = "exit"
  /\ lane' = [lane EXCEPT !.at = IF enabled /\ dirty THEN "wake" ELSE "ending"]
  /\ UNCHANGED <<rows, process, dirty, stopRequests, executing, running, callers, counters, history>>

\* The lane forgets itself one microtask after its last look at the flag.
LaneEnds ==
  /\ lane.at = "ending"
  /\ lane' = NoLane
  /\ UNCHANGED <<rows, process, dirty, stopRequests, executing, running, callers, counters, history>>
-----------------------------------------------------------------------------
(* runJob(), the generator of the job's turn.                              *)

Misread ==
  /\ Cardinality(misread) < MaxMisreads
  /\ misread' = misread \cup {lane.job}

\* It registers itself and remembers the variants there are.  A read that
\* throws here is outside its try: the adapter turns the error into a frame
\* and the turn is over.
TurnBegins ==
  /\ turn.at = "context"
  /\ executing' = lane.job
  /\ \/ turn' = [turn EXCEPT !.at = "guard"] /\ UNCHANGED misread
     \/ Misread /\ turn' = [turn EXCEPT !.at = "settled"]
  /\ UNCHANGED <<rows, process, lane, dirty, stopRequests, slot, callers, counters,
                 generated, acked>>

\* Mutant: stop requests are not looked at before the model is asked.
TurnDecides_Regardless ==
  /\ turn.at = "guard"
  /\ turn' = [turn EXCEPT !.at = "producing"]
  /\ generated' = generated \cup {lane.job}
  /\ UNCHANGED <<rows, process, pumping, slot, callers, counters, acked, misread>>

\* A job cancelled before it began stops itself; any other asks the model.
TurnDecides ==
  /\ turn.at = "guard"
  /\ IF lane.job \in stopRequests
     THEN /\ Signal(FALSE)
          /\ turn' = [turn EXCEPT !.at = "settling", !.stopped = TRUE]
          /\ UNCHANGED generated
     ELSE /\ turn' = [turn EXCEPT !.at = "producing"]
          /\ generated' = generated \cup {lane.job}
          /\ UNCHANGED slot
  /\ UNCHANGED <<rows, process, pumping, callers, counters, acked, misread>>

\* The provider answers: with an abort frame or without, and completely (a
\* finish, no error, a variant saved) or not.
Produce(stopped, complete) ==
  /\ External
  /\ turn.at = "producing"
  /\ complete => target[lane.job] \notin deleted
  /\ turn' = [at |-> "settling", stopped |-> stopped, complete |-> complete]
  /\ UNCHANGED <<rows, process, pumping, slot, callers, counters, history>>

Outcome ==
  IF slot.aborted \/ turn.stopped THEN "cancelled"
  ELSE IF turn.complete THEN "done" ELSE "failed"

\* runJob()'s finally reads the variants once more and writes the outcome,
TurnSettles ==
  /\ turn.at = "settling"
  /\ \/ SetStatus(lane.job, Outcome, "running") /\ UNCHANGED misread
     \/ Misread /\ UNCHANGED status
  /\ turn' = [turn EXCEPT !.at = "settled"]
  /\ UNCHANGED <<target, deleted, process, pumping, slot, callers, counters, generated, acked>>

\* and only then does the registry see the end of the turn.
TurnEnds ==
  /\ turn.at = "settled"
  /\ turn' = NoTurn
  /\ Release
  /\ UNCHANGED <<rows, process, stopRequests, executing, callers, counters, history>>

-----------------------------------------------------------------------------
(* The process.                                                            *)

\* deactivate(), on the way out.
Deactivate ==
  /\ External
  /\ enabled
  /\ restarts < MaxRestarts
  /\ restarts' = restarts + 1
  /\ enabled' = FALSE
  /\ UNCHANGED <<rows, phase, pumping, running, callers, ordinaries, history>>

\* Whatever is not in the database is lost.
Vanish ==
  /\ phase' = "down" /\ enabled' = FALSE
  /\ lane' = NoLane /\ dirty' = FALSE
  /\ stopRequests' = {} /\ executing' = NoJob
  /\ slot' = Free /\ turn' = NoTurn
  /\ kicks' = {} /\ cancel' = [j \in Job |-> "none"]
  /\ UNCHANGED <<rows, ordinaries, history>>

Exit == phase = "up" /\ ~enabled /\ Vanish /\ UNCHANGED restarts

Crash ==
  /\ phase # "down"
  /\ restarts < MaxRestarts
  /\ restarts' = restarts + 1
  /\ Vanish

\* activate(): subscribe, read which chats have unfinished rows,
Activate ==
  /\ phase = "down"
  /\ enabled' = TRUE
  /\ phase' = IF \E j \in Job : status[j] \in {"pending", "running"}
              THEN "recovering" ELSE "up"
  /\ UNCHANGED <<rows, pumping, running, callers, counters, history>>

\* Mutant: interrupted work is resumed as if it had never begun.
Recover_Resume(j) ==
  /\ phase = "recovering"
  /\ status[j] = "running"
  /\ status' = [status EXCEPT ![j] = "pending"]
  /\ UNCHANGED <<target, deleted, process, pumping, running, callers, counters, history>>

\* close what a dead process left running, row by row,
Recover(j) ==
  /\ phase = "recovering"
  /\ status[j] = "running"
  /\ status' = [status EXCEPT ![j] = "failed"]
  /\ UNCHANGED <<target, deleted, process, pumping, running, callers, counters, history>>

\* and schedule the rest.
Recovered ==
  /\ phase = "recovering"
  /\ \A j \in Job : status[j] # "running"
  /\ phase' = "up"
  /\ Kick
  /\ UNCHANGED <<rows, enabled, stopRequests, executing, running, callers, counters, history>>

-----------------------------------------------------------------------------
Client(j) ==
  \/ \E m \in Message : Enqueue(j, m)
  \/ Schedule(j)
  \/ CancelRead(j) \/ CancelPending(j) \/ CancelRunning(j)

Pump ==
  \/ Look \/ Claim \/ Prepare
  \/ StartJob \/ StartRefused \/ StartFails
  \/ Join \/ Close \/ Again \/ LaneEnds

RunJob ==
  \/ TurnBegins \/ TurnDecides
  \/ \E stopped, complete \in BOOLEAN : Produce(stopped, complete)
  \/ TurnSettles \/ TurnEnds

Chat ==
  \/ Clear
  \/ \E m \in Message : DeleteMessage(m)
  \/ StopChat \/ OrdinaryStart \/ OrdinaryEnd

Process ==
  \/ Deactivate \/ Exit \/ Crash
  \/ Activate \/ (\E j \in Job : Recover(j)) \/ Recovered

Next == (\E j \in Job : Client(j)) \/ Pump \/ RunJob \/ Chat \/ Process

Spec == Init /\ [][Next]_vars

\* Continuations run; what waits for a disk, a provider or the end of another
\* generation is served in its turn by the event loop, however many other
\* requests arrive meanwhile (hence strong fairness, and the assumption that
\* providers answer or are stopped in the end); a process that shuts down
\* exits, and somebody starts the server again.
Fairness ==
  /\ WF_vars(Look \/ Claim \/ Prepare \/ Join \/ Close \/ Again \/ LaneEnds)
  /\ WF_vars(TurnBegins \/ TurnDecides \/ TurnSettles \/ TurnEnds)
  /\ SF_vars(StartJob \/ StartRefused \/ StartFails)
  /\ SF_vars(\E stopped, complete \in BOOLEAN : Produce(stopped, complete))
  /\ SF_vars(OrdinaryEnd)
  /\ \A j \in Job : WF_vars(Schedule(j))
  /\ \A j \in Job : WF_vars(CancelPending(j) \/ CancelRunning(j))
  /\ WF_vars(Exit)
  /\ WF_vars(Activate \/ (\E j \in Job : Recover(j)) \/ Recovered)

FairSpec == Spec /\ Fairness

-----------------------------------------------------------------------------
Executes(j) ==
  /\ lane.job = j
  /\ \/ lane.at \in {"claimed", "starting"}
     \/ lane.at = "joining" /\ turn.at \in {"context", "guard", "producing", "settling"}

\* A row that says "running" has an executor that will settle it: the lane,
\* before the turn, or the turn itself.  In particular at most one row of the
\* chat runs, no restart leaves one behind, and the row is settled before the
\* registry publishes the end of the turn (the toast reads the rows then).  Only a
\* job whose turn could not read the variants is left behind, up to a restart.
RunningHasExecutor ==
  phase = "up" => \A j \in Job \ misread : status[j] = "running" => Executes(j)

\* cancel() that found its job unsettled keeps its word, whether it won the
\* row, stopped the turn, or was remembered while the turn was being started
\* or refused: the job does not wait again, does not end as done, and what it
\* may already be generating has been told to stop.
CancelHolds ==
  \A j \in acked :
    /\ status[j] \notin {"pending", "done"}
    /\ Executes(j) /\ turn.at = "producing" => slot.aborted

\* and it never asks the model after that.
CancelBeatsGeneration ==
  [][\A j \in acked : j \in generated' => j \in generated]_vars

\* Cancelling a job stops that job's turn and nobody else's, although the
\* signal is addressed to the chat's slot and the slot changes hands.
StopsOnlyItsJob ==
  slot.aborted /\ ~slot.asked => slot.by = "job" /\ lane.job \in acked \cup stopRequests

\* Every job is settled or removed in the end: no wake of the lane is lost,
\* whoever held the slot when the job came, no crash strands a row, and the rows
\* behind one whose turn could not read the variants do not wait for it.
EveryJobSettles ==
  \A j \in Job :
    status[j] \in {"pending", "running"} ~> j \in misread \/ status[j] \in Settled \cup {"gone"}

\* What the rows would say if every failure were marked.
Marked == [j \in Job |-> IF j \in misread /\ status[j] # "gone" THEN "failed" ELSE status[j]]

Ledger == INSTANCE JobLedger WITH status <- Marked

\* The rows keep the contract of JobLedger, save that the failure of a job whose
\* turn could not read the variants is not written down.
ImplementsLedger == Ledger!LedgerSpec
=============================================================================
