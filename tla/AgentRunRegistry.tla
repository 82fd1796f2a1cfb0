-------------------------- MODULE AgentRunRegistry --------------------------
(***************************************************************************)
(* services/api/src/domain/agent/agent-run-registry.ts: the one place that *)
(* executes assistant turns and chat generations.  A key (a thread id, or  *)
(* "chat:<id>") has at most one running turn; its events are numbered and  *)
(* kept in a log; any number of HTTP subscribers replay the log from a     *)
(* cursor and then follow it live.  A subscriber that leaves never stops   *)
(* the turn; only stop() signals it, and only the end of the turn's own    *)
(* generator frees the key.                                                *)
(*                                                                         *)
(* A step is what JavaScript runs between two awaits.  The turn itself is  *)
(* external: it may emit any event at any time, end or throw, and it       *)
(* answers a stop when it likes.                                           *)
(***************************************************************************)
EXTENDS Naturals, Sequences

CONSTANTS
  Key,        \* thread ids and chat keys
  Run,        \* identities of StoredRun objects
  Sub,        \* identities of subscriptions
  Kind,       \* the kinds of event the turns of this instance emit
  MaxEvents,  \* bound: events of one turn
  NoKey, NoRun

EventKind == {"text", "error", "abort", "finish", "finishError", "ask"}

ASSUME KindAssumption == Kind \subseteq EventKind
ASSUME BoundAssumption == MaxEvents \in Nat
ASSUME NullAssumption == NoKey \notin Key /\ NoRun \notin Run

VARIABLES
  current,  \* current[k]: the last run of key k (the map "runs"), or NoRun
  run,      \* run[r]: a StoredRun object
  sub       \* sub[s]: a subscription

vars == <<current, run, sub>>

Outcome == {"finished", "stopped", "failed", "asking"}
Event   == [seq : Nat, kind : EventKind]
\* "free" says whether the listener, asking active(), sees the key free.
Notice  == [state : Outcome \cup {"started"}, free : BOOLEAN]

RunRecord ==
  [key : Key \cup {NoKey}, named : BOOLEAN, log : Seq(Event), running : BOOLEAN,
   aborted : BOOLEAN, failed : BOOLEAN, outcome : Outcome,
   waiters : SUBSET Sub, notices : Seq(Notice)]

\* idle: suspended at a yield (or not yet pulled); reading: next() is pending
\* and the loop is about to look; waiting: parked in waitForUpdate.
Place     == {"none", "idle", "reading", "waiting", "done", "failed"}
SubRecord ==
  [run : Run \cup {NoRun}, after : Nat, cursor : Nat, at : Place,
   detached : BOOLEAN, got : Seq(Event)]

TypeOK ==
  /\ current \in [Key -> Run \cup {NoRun}]
  /\ run \in [Run -> RunRecord]
  /\ sub \in [Sub -> SubRecord]

-----------------------------------------------------------------------------
Unused ==
  [key |-> NoKey, named |-> FALSE, log |-> <<>>, running |-> FALSE,
   aborted |-> FALSE, failed |-> FALSE, outcome |-> "finished",
   waiters |-> {}, notices |-> <<>>]

Unbound ==
  [run |-> NoRun, after |-> 0, cursor |-> 0, at |-> "none",
   detached |-> FALSE, got |-> <<>>]

Init ==
  /\ current = [k \in Key |-> NoRun]
  /\ run = [r \in Run |-> Unused]
  /\ sub = [s \in Sub |-> Unbound]

Busy(k) == current[k] # NoRun /\ run[current[k]].running

\* Mutant: a late abort or question replaces an error.
Observe_LastWins(outcome, kind) ==
  CASE kind \in {"error", "finishError"} -> "failed"
    [] kind = "abort"                    -> "stopped"
    [] kind = "ask"                      -> "asking"
    [] OTHER                             -> outcome

\* observeOutcome: what one more event does to the remembered outcome.
Observe(outcome, kind) ==
  CASE kind \in {"error", "finishError"}              -> "failed"
    [] kind = "abort" /\ outcome # "failed"           -> "stopped"
    [] kind = "ask" /\ outcome = "finished"           -> "asking"
    [] OTHER                                          -> outcome

\* The state a run publishes when it ends.
EndState(o) ==
  IF o.aborted THEN "stopped" ELSE IF o.failed THEN "failed" ELSE o.outcome

\* publish(): runs without a descriptor are invisible to listeners.
Published(o, state) ==
  IF o.named THEN Append(o.notices, [state |-> state, free |-> ~o.running]) ELSE o.notices

\* wakeSubscribers(): every parked subscriber of r gets to look again.
Woken(r) ==
  [s \in Sub |-> IF s \in run[r].waiters THEN [sub[s] EXCEPT !.at = "reading"]
                                         ELSE sub[s]]

\* A StoredRun as start() leaves it, its "started" notice out.
Stored(k, named) ==
  [key |-> k, named |-> named, log |-> <<>>, running |-> TRUE,
   aborted |-> FALSE, failed |-> FALSE, outcome |-> "finished",
   waiters |-> {},
   notices |-> IF named THEN <<[state |-> "started", free |-> FALSE]>> ELSE <<>>]

\* Mutant: the abort controller belongs to the key, not to the run.
Start_SharedSignal(k, r, named) ==
  /\ ~Busy(k)
  /\ run[r].key = NoKey
  /\ current' = [current EXCEPT ![k] = r]
  /\ run' = [run EXCEPT ![r] = [Stored(k, named) EXCEPT
                 !.aborted = current[k] # NoRun /\ run[current[k]].aborted]]
  /\ UNCHANGED sub

\* start(): the reservation, the "started" notice and the call of the
\* factory are one synchronous step.
Start(k, r, named) ==
  /\ ~Busy(k)
  /\ run[r].key = NoKey
  /\ current' = [current EXCEPT ![k] = r]
  /\ run' = [run EXCEPT ![r] = Stored(k, named)]
  /\ UNCHANGED sub

\* A run that has come to its end, by itself or by throwing.
Over(o, threw) ==
  LET p == [o EXCEPT !.running = FALSE, !.failed = threw, !.waiters = {}]
  IN  [p EXCEPT !.notices = Published(p, EndState(p))]

\* A factory that throws ends its run before start() returns.
StartThrows(k, r, named) ==
  /\ ~Busy(k)
  /\ run[r].key = NoKey
  /\ current' = [current EXCEPT ![k] = r]
  /\ run' = [run EXCEPT ![r] = Over(Stored(k, named), TRUE)]
  /\ UNCHANGED sub

\* Mutant: events numbered from zero.
NextSeq_FromZero(log) == Len(log)

NextSeq(log) == Len(log) + 1

\* consume(), one turn of its loop.
Emit(r, kind) ==
  /\ run[r].running
  /\ Len(run[r].log) < MaxEvents
  /\ run' = [run EXCEPT ![r] =
       [run[r] EXCEPT !.log = Append(@, [seq |-> NextSeq(@), kind |-> kind]),
                      !.outcome = Observe(@, kind),
                      !.waiters = {}]]
  /\ sub' = Woken(r)
  /\ UNCHANGED current

\* Mutant: the end of a turn wakes nobody.
End_Silent(r, threw) ==
  /\ run[r].running
  /\ run' = [run EXCEPT ![r] = [Over(run[r], threw) EXCEPT !.waiters = run[r].waiters]]
  /\ UNCHANGED <<current, sub>>

\* consume(), its catch and finally: the generator is exhausted or threw.
End(r, threw) ==
  /\ run[r].running
  /\ run' = [run EXCEPT ![r] = Over(run[r], threw)]
  /\ sub' = Woken(r)
  /\ UNCHANGED current

\* stop(): a first signal to the key's running turn; otherwise nothing.
Stop(k) ==
  /\ Busy(k)
  /\ ~run[current[k]].aborted
  /\ run' = [run EXCEPT ![current[k]].aborted = TRUE]
  /\ UNCHANGED <<current, sub>>

-----------------------------------------------------------------------------
\* subscribe(): bound to the key's present run now, not at the first next().
\* "gone": the client's own signal was aborted already.
Subscribe(s, k, after, gone) ==
  /\ sub[s].at = "none"
  /\ current[k] # NoRun
  /\ sub' = [sub EXCEPT ![s] = [run |-> current[k], after |-> after, cursor |-> after,
                                at |-> "idle", detached |-> gone, got |-> <<>>]]
  /\ UNCHANGED <<current, run>>

\* The client asks for the next event.
Pull(s) ==
  /\ sub[s].at = "idle"
  /\ sub' = [sub EXCEPT ![s].at = "reading"]
  /\ UNCHANGED <<current, run>>

\* The iterator's loop, from its test to its next suspension: deliver the
\* event at the cursor,
Deliver(s) ==
  LET log == run[sub[s].run].log
      e   == log[sub[s].cursor + 1]
  IN  /\ sub[s].at = "reading"
      /\ ~sub[s].detached
      /\ sub[s].cursor < Len(log)
      /\ sub' = [sub EXCEPT ![s].at = "idle", ![s].cursor = e.seq,
                            ![s].got = Append(@, e)]
      /\ UNCHANGED <<current, run>>

\* Mutant: the end of the run is looked at before the log.
Finish_Early(s) ==
  LET o == run[sub[s].run]
  IN  /\ sub[s].at = "reading"
      /\ ~sub[s].detached
      /\ ~o.running
      /\ sub' = [sub EXCEPT ![s].at = IF o.failed THEN "failed" ELSE "done"]
      /\ UNCHANGED <<current, run>>

\* or, the log exhausted, report how the run ended,
Finish(s) ==
  LET o == run[sub[s].run]
  IN  /\ sub[s].at = "reading"
      /\ ~sub[s].detached
      /\ sub[s].cursor >= Len(o.log)
      /\ ~o.running
      /\ sub' = [sub EXCEPT ![s].at = IF o.failed THEN "failed" ELSE "done"]
      /\ UNCHANGED <<current, run>>

\* Mutant: an await between the look at the log and the registration.
Park_Late(s) ==
  LET o == run[sub[s].run]
  IN  /\ sub[s].at = "reading"
      /\ ~sub[s].detached
      /\ o.running
      /\ sub' = [sub EXCEPT ![s].at = "waiting"]
      /\ run' = [run EXCEPT ![sub[s].run].waiters = @ \cup {s}]
      /\ UNCHANGED current

\* or park until something happens; the test and the registration are one step,
Park(s) ==
  LET o == run[sub[s].run]
  IN  /\ sub[s].at = "reading"
      /\ ~sub[s].detached
      /\ sub[s].cursor >= Len(o.log)
      /\ o.running
      /\ sub' = [sub EXCEPT ![s].at = "waiting"]
      /\ run' = [run EXCEPT ![sub[s].run].waiters = @ \cup {s}]
      /\ UNCHANGED current

\* or leave, the client gone.
Leave(s) ==
  /\ sub[s].at = "reading"
  /\ sub[s].detached
  /\ sub' = [sub EXCEPT ![s].at = "done"]
  /\ UNCHANGED <<current, run>>

Read(s) == Deliver(s) \/ Finish(s) \/ Park(s) \/ Leave(s)

\* The client's signal aborts: a parked read is woken and unregistered.
Detach(s) ==
  /\ sub[s].at \in {"idle", "reading", "waiting"}
  /\ ~sub[s].detached
  /\ sub' = [sub EXCEPT ![s].detached = TRUE,
                        ![s].at = IF @ = "waiting" THEN "reading" ELSE @]
  /\ run' = [run EXCEPT ![sub[s].run].waiters = @ \ {s}]
  /\ UNCHANGED current

\* return() or throw(): the same, and a generator suspended at a yield ends
\* at once.
Return(s) ==
  /\ sub[s].at = "idle"
  /\ sub' = [sub EXCEPT ![s].detached = TRUE, ![s].at = "done"]
  /\ UNCHANGED <<current, run>>

-----------------------------------------------------------------------------
RunStep(r) ==
  \/ \E k \in Key, named \in BOOLEAN : Start(k, r, named) \/ StartThrows(k, r, named)
  \/ \E kind \in Kind : Emit(r, kind)
  \/ \E threw \in BOOLEAN : End(r, threw)

SubStep(s) ==
  \/ \E k \in Key, after \in 0..MaxEvents, gone \in BOOLEAN : Subscribe(s, k, after, gone)
  \/ Pull(s)
  \/ Read(s)
  \/ Detach(s)
  \/ Return(s)

Next ==
  \/ \E r \in Run : RunStep(r)
  \/ \E k \in Key : Stop(k)
  \/ \E s \in Sub : SubStep(s)

Spec == Init /\ [][Next]_vars

\* A pending read runs when the microtask queue is drained, and the SSE writer
\* that owns a subscription keeps pulling it until it ends.  Nothing is
\* assumed of the turns.
Fairness == \A s \in Sub : WF_vars(Pull(s)) /\ WF_vars(Read(s))

FairSpec == Spec /\ Fairness

-----------------------------------------------------------------------------
Bound(s) == sub[s].run # NoRun

\* A key never has two running turns, and the running turn of a key is the
\* one the map holds: what start()'s synchronous reservation is for.  A run
\* pushed out of the map while it runs could be neither stopped nor followed.
OneTurnPerKey ==
  \A r \in Run : run[r].running => run[r].key \in Key /\ current[run[r].key] = r

\* A parked subscriber is one that an event, the end of the turn or its own
\* disconnection will still wake: it is registered, and there is nothing in
\* the log or in the run's state it has missed ("an event cannot fall into a
\* replay-to-live subscription gap").
NoLostWakeup ==
  \A s \in Sub : sub[s].at = "waiting" =>
    LET o == run[sub[s].run]
    IN  /\ s \in o.waiters
        /\ o.running
        /\ ~sub[s].detached
        /\ sub[s].cursor >= Len(o.log)

\* Whatever the interleaving of producers, slow and fast readers and
\* disconnections, a subscriber has received exactly the events numbered
\* after its cursor argument up to its present cursor, each once, in order.
ExactReplay ==
  \A s \in Sub : Bound(s) =>
    /\ Len(sub[s].got) = sub[s].cursor - sub[s].after
    /\ sub[s].cursor >= sub[s].after
    /\ \A i \in 1..Len(sub[s].got) :
         /\ sub[s].got[i].seq = sub[s].after + i
         /\ sub[s].after + i <= Len(run[sub[s].run].log)
         /\ sub[s].got[i] = run[sub[s].run].log[sub[s].after + i]

\* A subscriber that stays learns of the end of a run only when the slot is
\* free and the whole log has been handed to it, and it learns of a failure
\* exactly when the generator threw.
EndAfterWholeLog ==
  \A s \in Sub : sub[s].at \in {"done", "failed"} /\ ~sub[s].detached =>
    LET o == run[sub[s].run]
    IN  /\ ~o.running
        /\ sub[s].cursor >= Len(o.log)
        /\ o.failed <=> sub[s].at = "failed"

\* The verdict on a run, told from everything that happened in it with no
\* regard to order: an explicit stop wins, then any failure, then the
\* producer's own abort, then an unanswered question.
Saw(o, kinds) == \E i \in 1..Len(o.log) : o.log[i].kind \in kinds

Verdict(o) ==
  IF o.aborted THEN "stopped"
  ELSE IF o.failed \/ Saw(o, {"error", "finishError"}) THEN "failed"
  ELSE IF Saw(o, {"abort"}) THEN "stopped"
  ELSE IF Saw(o, {"ask"}) THEN "asking"
  ELSE "finished"

\* Listeners hear of a visible run twice, at its start and, when it no longer
\* runs, at its end; at the end they already see the key free (the queue's
\* wake-up depends on it) and are told the order-free verdict, so that an
\* error can never be reported as a finish, however the turn went on after it.
NoticesTellTheTruth ==
  \A r \in Run : LET o == run[r]
    IN  o.key # NoKey /\ o.named =>
          o.notices = IF o.running
                      THEN <<[state |-> "started", free |-> FALSE]>>
                      ELSE <<[state |-> "started", free |-> FALSE],
                             [state |-> Verdict(o), free |-> TRUE]>>

\* No subscriber is left hanging: once its run is over, or its client has
\* left, a subscription comes to its end.
SubscriberSettles ==
  \A s \in Sub :
    (Bound(s) /\ (sub[s].detached \/ ~run[sub[s].run].running))
      ~> (sub[s].at \in {"done", "failed"})

-----------------------------------------------------------------------------
\* Each key of the registry is a RunSlot.
Holder(k)    == IF Busy(k) THEN current[k] ELSE NoRun
Signalled(k) == Busy(k) /\ run[current[k]].aborted
Ended(k)     == {r \in Run : run[r].key = k /\ ~run[r].running}

Slot(k) == INSTANCE RunSlot
             WITH holder <- Holder(k), signalled <- Signalled(k), ended <- Ended(k)

\* The registry keeps the contract of RunSlot for every key: nobody takes a
\* held slot, a signal reaches the holder only, and a run that has ended
\* never holds a slot again.
ImplementsSlot ==
  /\ \A k \in Key : Slot(k)!SlotInit
  /\ [][\A k \in Key : [Slot(k)!SlotNext]_(Slot(k)!slotVars)]_vars
=============================================================================
