------------------------- MODULE ExperienceSession -------------------------
(***************************************************************************)
(* Interactive experiences of one branch                                   *)
(* (services/api/src/domain/interactive/ and                               *)
(* packages/db/src/stores/experience-store.ts): the sessions, their        *)
(* journal of transitions, the durable effects that transitions ask for    *)
(* (timers and model replies), and what people, scripts, timers and models *)
(* do to them.                                                             *)
(*                                                                         *)
(* The rules of a game are an author's script.  They are abstracted to what*)
(* the host looks at: whether the game goes on, whether a script seat is   *)
(* due (the first of the roster with legal actions), which effects a       *)
(* transition asks for.  An action may always be illegal and the script may*)
(* always throw; then nothing changes.                                     *)
(*                                                                         *)
(* The database driver is synchronous, so a handler runs from one real     *)
(* wait (a sleep, a call of a provider) to the next; only the death of the *)
(* process falls between two of its commits.  A handler with several       *)
(* commits is a chain of steps, tied together by "handler".                *)
(***************************************************************************)
EXTENDS Naturals, Sequences, FiniteSets, Functions

CONSTANTS
  Request,      \* the requestIds of the actions people submit
  Emission,     \* the sequences of effects a transition may ask for
  MaxRevision,  \* revisions of all sessions together
  MaxSessions,  \* matches on the branch
  MaxEffects,   \* effects in all
  MaxRetries,   \* retries of an effect
  MaxCrashes    \* deaths of the process

ASSUME EmissionAssumption == Emission \subseteq Seq({"timer", "model"})
ASSUME BoundAssumption ==
  {MaxRevision, MaxSessions, MaxEffects, MaxRetries, MaxCrashes} \subseteq Nat

VARIABLES
  up,        \* the process runs
  handler,   \* the handler between two of its commits
  sessions,  \* rows of experience_sessions with their experience_steps
  effects,   \* rows of experience_effects
  runs,      \* effects that are being slept for or asked of a model
  inFlight,  \* timers the scheduler has handed to a run
  sent,      \* submissions under way; one may arrive late, twice or never
  crashes,   \* deaths so far
  answers    \* history: what was answered to which request

vars == <<up, handler, sessions, effects, runs, inFlight, sent, crashes, answers>>

Settled == {"succeeded", "failed", "cancelled", "unknown"}

\* A session holds the slot of the branch until it is finished.  Its revision
\* is the number of steps; a quiet end raises it without a row in the journal.
Step == [kind : {"action", "script", "effect_result", "system", "none"}, by : Request \cup Nat]
Session == [slot : BOOLEAN, status : {"active", "completed", "interrupted"},
            due : BOOLEAN, steps : Seq(Step)]

\* "claims" and "fate" are history: how often the effect was run, and what
\* became of its result: it is in the journal, the rules refused it, it came too
\* late, or the process died on the way.
Effect == [session : Nat, kind : {"timer", "model"}, status : {"pending", "running"} \cup Settled,
           origin : Nat, attempts : Nat, claims : Nat,
           fate : {"open", "heard", "refused", "stale", "cut"}]

Handler == [at : {"none", "advance", "cancel", "create", "rewind", "land", "again"},
            on : Nat, arg : Nat]
NoHandler == [at |-> "none", on |-> 0, arg |-> 0]

Revision(s) == Len(sessions[s].steps)
Revised == FoldFunction(LAMBDA session, n : Len(session.steps) + n, 0, sessions)
Holders == {s \in DOMAIN sessions : sessions[s].slot}
Free == up /\ handler = NoHandler

TypeOK ==
  /\ up \in BOOLEAN /\ handler \in Handler
  /\ sessions \in Seq(Session) /\ effects \in Seq(Effect)
  /\ runs \subseteq DOMAIN effects /\ inFlight \subseteq DOMAIN effects
  /\ sent \subseteq [request : Request, session : DOMAIN sessions, expected : Nat]
  /\ crashes \in Nat
  /\ answers \subseteq Request \X {"applied", "stale"}

Init ==
  /\ up = TRUE /\ handler = NoHandler
  /\ sessions = <<>> /\ effects = <<>>
  /\ runs = {} /\ inFlight = {}
  /\ sent = {} /\ crashes = 0 /\ answers = {}

-----------------------------------------------------------------------------
(* One transition: a step, the new state, and the effects it asks for.     *)

\* What reduce() may return; a game that is over is nobody's turn.
Transition ==
  [status : {"active"}, due : BOOLEAN, emits : Emission]
    \cup [status : {"completed"}, due : {FALSE}, emits : Emission]

Asked(s, t) ==
  [i \in DOMAIN t.emits |->
     [session |-> s, kind |-> t.emits[i], status |-> "pending", origin |-> Revision(s) + 1,
      attempts |-> 0, claims |-> 0, fate |-> "open"]]

\* applyTransition() once its checks have passed.  The status is the one the
\* rules return; the slot is not looked at.
ApplyTransition(s, step, t, rows) ==
  /\ Revised < MaxRevision
  /\ Len(effects) + Len(t.emits) <= MaxEffects
  /\ sessions' = [sessions EXCEPT ![s].status = t.status, ![s].due = t.due,
                                  ![s].steps = Append(@, step)]
  /\ effects' = rows \o Asked(s, t)

TakenBy(r, s) == {i \in DOMAIN sessions[s].steps : sessions[s].steps[i] = [kind |-> "action", by |-> r]}

-----------------------------------------------------------------------------
(* Matches.                                                                *)

\* The slot of the branch is claimed by at most one session.
CreateSession(due) ==
  /\ Holders = {}
  /\ Len(sessions) < MaxSessions
  /\ sessions' = Append(sessions, [slot |-> TRUE, status |-> "active", due |-> due,
                                   steps |-> <<>>])

StartSession(due) ==
  /\ Free
  /\ CreateSession(due)
  /\ UNCHANGED <<up, handler, effects, runs, inFlight, sent, crashes, answers>>

\* An explicit end.  A game in progress is interrupted by a public step; a game
\* that is over only gives up the slot.
Finish(s) ==
  /\ Free
  /\ s \in Holders
  /\ IF sessions[s].status = "active"
     THEN /\ Revised < MaxRevision
          /\ sessions' = [sessions EXCEPT
               ![s].slot = FALSE, ![s].status = "interrupted",
               ![s].steps = Append(@, [kind |-> "system", by |-> 0])]
     ELSE sessions' = [sessions EXCEPT ![s].slot = FALSE]
  /\ UNCHANGED <<up, handler, effects, runs, inFlight, sent, crashes, answers>>

\* A quiet end moves the revision on and writes no step.
EndQuietly(s) ==
  /\ s \in Holders
  /\ Revised < MaxRevision
  /\ sessions' = [sessions EXCEPT ![s].slot = FALSE, ![s].status = "interrupted",
                                  ![s].steps = Append(@, [kind |-> "none", by |-> 0])]

FinishQuiet(s) ==
  /\ Free
  /\ EndQuietly(s)
  /\ UNCHANGED <<up, handler, effects, runs, inFlight, sent, crashes, answers>>

\* A restart ends the source quietly if it still holds the slot,
RestartFinishes(s) ==
  /\ Free
  /\ EndQuietly(s)
  /\ handler' = [at |-> "cancel", on |-> s, arg |-> 0]
  /\ UNCHANGED <<up, effects, runs, inFlight, sent, crashes, answers>>

RestartGoesOn(s) ==
  /\ Free
  /\ s \in DOMAIN sessions \ Holders
  /\ handler' = [at |-> "create", on |-> s, arg |-> 0]
  /\ UNCHANGED <<up, sessions, effects, runs, inFlight, sent, crashes, answers>>

Cancelled(rows, doomed) ==
  [e \in DOMAIN rows |-> IF e \in doomed THEN [rows[e] EXCEPT !.status = "cancelled"] ELSE rows[e]]

\* then cancels the source's pending effects, one commit each,
RestartCancels ==
  /\ up /\ handler.at = "cancel"
  /\ LET doomed == {e \in DOMAIN effects :
                      effects[e].session = handler.on /\ effects[e].status = "pending"}
     IN IF doomed = {}
        THEN /\ handler' = [handler EXCEPT !.at = "create"]
             /\ UNCHANGED effects
        ELSE /\ \E e \in doomed : effects' = Cancelled(effects, {e})
             /\ UNCHANGED handler
  /\ UNCHANGED <<up, sessions, runs, inFlight, sent, crashes, answers>>

\* and creates the successor, unless create() fails or the slot is taken.
RestartCreates ==
  /\ up /\ handler.at = "create"
  /\ handler' = NoHandler
  /\ \/ \E due \in BOOLEAN : CreateSession(due)
     \/ UNCHANGED sessions
  /\ UNCHANGED <<up, effects, runs, inFlight, sent, crashes, answers>>

-----------------------------------------------------------------------------
(* Actions of people, and the script seats that move after them.           *)

\* A page submits an action on the revision it shows.
Send(r, s) ==
  /\ s \in Holders
  /\ \A m \in sent : m.request # r
  /\ sent' = sent \cup {[request |-> r, session |-> s, expected |-> Revision(s)]}
  /\ UNCHANGED <<up, handler, sessions, effects, runs, inFlight, crashes, answers>>

\* While the game goes on the request then asks the script seats.
Advance(s, status) ==
  IF status = "active" THEN [at |-> "advance", on |-> s, arg |-> 0] ELSE NoHandler

\* Mutant: the revision is compared before the requestId is looked up.
SubmitStale_First(m) ==
  /\ Free /\ m \in sent
  /\ m.expected # Revision(m.session)
  /\ answers' = answers \cup {<<m.request, "stale">>}
  /\ UNCHANGED <<up, handler, sessions, effects, runs, inFlight, sent, crashes>>

\* submitAction(): the requestId comes first, so a repeated request is told the
\* truth although its revision is old,
SubmitAgain(m) ==
  /\ Free /\ m \in sent
  /\ TakenBy(m.request, m.session) # {}
  /\ answers' = answers \cup {<<m.request, "applied">>}
  /\ handler' = Advance(m.session, sessions[m.session].status)
  /\ UNCHANGED <<up, sessions, effects, runs, inFlight, sent, crashes>>

\* then the revision,
SubmitStale(m) ==
  /\ Free /\ m \in sent
  /\ TakenBy(m.request, m.session) = {}
  /\ m.expected # Revision(m.session)
  /\ answers' = answers \cup {<<m.request, "stale">>}
  /\ UNCHANGED <<up, handler, sessions, effects, runs, inFlight, sent, crashes>>

\* then the rules.
Submit(m, t) ==
  /\ Free /\ m \in sent
  /\ TakenBy(m.request, m.session) = {}
  /\ m.expected = Revision(m.session)
  /\ ApplyTransition(m.session, [kind |-> "action", by |-> m.request], t, effects)
  /\ answers' = answers \cup {<<m.request, "applied">>}
  /\ handler' = Advance(m.session, t.status)
  /\ UNCHANGED <<up, runs, inFlight, sent, crashes>>

\* advanceScriptTurns(): a script seat chooses and its choice is applied, until
\* none is due.  (The bound of 200 moves lies beyond the model.)
ScriptMoves(t) ==
  /\ up /\ handler.at = "advance"
  /\ sessions[handler.on].due
  /\ ApplyTransition(handler.on, [kind |-> "script", by |-> 0], t, effects)
  /\ handler' = Advance(handler.on, t.status)
  /\ UNCHANGED <<up, runs, inFlight, sent, crashes, answers>>

\* The author's choose() or reduce() may fail, and the seat stays due.
AdvanceEnds ==
  /\ up /\ handler.at = "advance"
  /\ handler' = NoHandler
  /\ UNCHANGED <<up, sessions, effects, runs, inFlight, sent, crashes, answers>>

\* undoToRevision() appends a step with a state of the past, in which a script
\* seat may be due.  It may fail, and then nothing changes.
Undo(s, target, due) ==
  /\ Free
  /\ ApplyTransition(s, [kind |-> "system", by |-> 0],
                     [status |-> "active", due |-> due, emits |-> <<>>], effects)
  /\ handler' = [at |-> "rewind", on |-> s, arg |-> target]
  /\ UNCHANGED <<up, runs, inFlight, sent, crashes, answers>>

\* Mutant: the timers of undone steps are cancelled, whatever has become of them.
UndoCancels_Any ==
  /\ up /\ handler.at = "rewind"
  /\ effects' = Cancelled(effects, {e \in DOMAIN effects :
                  /\ effects[e].session = handler.on /\ effects[e].kind = "timer"
                  /\ effects[e].origin > handler.arg})
  /\ handler' = NoHandler
  /\ UNCHANGED <<up, sessions, runs, inFlight, sent, crashes, answers>>

\* Pending timers of the steps that were undone are cancelled.
UndoCancels ==
  /\ up /\ handler.at = "rewind"
  /\ effects' = Cancelled(effects, {e \in DOMAIN effects :
                  /\ effects[e].session = handler.on /\ effects[e].kind = "timer"
                  /\ effects[e].status = "pending" /\ effects[e].origin > handler.arg})
  /\ handler' = NoHandler
  /\ UNCHANGED <<up, sessions, runs, inFlight, sent, crashes, answers>>

-----------------------------------------------------------------------------
(* Effects.                                                                *)

Mark(e, status) == [effects EXCEPT ![e].status = status]

\* A pending effect is claimed, and counted, before anything is done for it.
Claim(e) ==
  /\ Free
  /\ effects[e].status = "pending"
  /\ effects' = [effects EXCEPT ![e].status = "running", ![e].claims = @ + 1]
  /\ runs' = runs \cup {e}

\* The scheduler hands out the timers it finds, once per run;
ClaimTimer(e) ==
  /\ Claim(e)
  /\ effects[e].kind = "timer" /\ e \notin inFlight
  /\ inFlight' = inFlight \cup {e}
  /\ UNCHANGED <<up, handler, sessions, sent, crashes, answers>>

\* a page asks for the model effects it sees.
ClaimModel(e) ==
  /\ Claim(e)
  /\ effects[e].kind = "model"
  /\ UNCHANGED <<up, handler, sessions, inFlight, sent, crashes, answers>>

\* Mutant: the guard of a run is not lifted when the run is over.
RunOver_StillInFlight(e) == runs' = runs \ {e} /\ UNCHANGED inFlight

RunOver(e) == runs' = runs \ {e} /\ inFlight' = inFlight \ {e}

\* The run fails: an unanswerable request, an illegal tick, a provider error.
RunFails(e) ==
  /\ Free /\ e \in runs
  /\ effects' = Mark(e, "failed")
  /\ RunOver(e)
  /\ UNCHANGED <<up, handler, sessions, sent, crashes, answers>>

\* The page that asked for a model reply has gone.
RunAborted(e) ==
  /\ Free /\ e \in runs
  /\ effects[e].kind = "model"
  /\ effects' = Mark(e, "cancelled")
  /\ RunOver(e)
  /\ UNCHANGED <<up, handler, sessions, sent, crashes, answers>>

\* The wait is over: the result is stored before it is fed back.
RunSucceeds(e) ==
  /\ Free /\ e \in runs
  /\ effects' = Mark(e, "succeeded")
  /\ handler' = [at |-> "land", on |-> effects[e].session, arg |-> e]
  /\ UNCHANGED <<up, sessions, runs, inFlight, sent, crashes, answers>>

\* applyEffectResult(): the rules are run on the state there is and the step is
\* written, at first on the revision the effect was asked for at, on the second
\* attempt on the revision that was read with the state.
Delivering == handler.at \in {"land", "again"}
Landing(e) == up /\ Delivering /\ handler.arg = e
MovedOn(e) == handler.at = "land" /\ Revision(handler.on) # effects[e].origin

Deliver(e, t) ==
  /\ Landing(e) /\ ~MovedOn(e)
  /\ ApplyTransition(handler.on, [kind |-> "effect_result", by |-> e], t,
                     [effects EXCEPT ![e].fate = "heard"])
  /\ handler' = NoHandler
  /\ RunOver(e)
  /\ UNCHANGED <<up, sent, crashes, answers>>

\* The feed-back ends without a step, and the effect stays succeeded:
Undelivered(e, fate) ==
  /\ Landing(e)
  /\ effects' = [effects EXCEPT ![e].fate = fate]
  /\ handler' = NoHandler
  /\ RunOver(e)
  /\ UNCHANGED <<up, sessions, sent, crashes, answers>>

\* the rules throw at the action, on either attempt,
Refused(e) == Undelivered(e, "refused")

\* Mutant: a tick is given the second attempt too.
TooLate_Again(e) ==
  /\ Landing(e) /\ MovedOn(e)
  /\ effects[e].kind = "timer"
  /\ handler' = [handler EXCEPT !.at = "again"]
  /\ UNCHANGED <<up, sessions, effects, runs, inFlight, sent, crashes, answers>>

\* or they accept a tick that comes too late: a tick gets one attempt.
TooLate(e) == MovedOn(e) /\ effects[e].kind = "timer" /\ Undelivered(e, "stale")

\* Mutant: a reply that is late is dropped like a tick.
TakeUp_Drops(e) == MovedOn(e) /\ effects[e].kind = "model" /\ Undelivered(e, "stale")

\* A reply they accept for a game that has moved on is put to them once more.  (A
\* third attempt is for a game that moves on between the reading and the writing
\* of one attempt; here it cannot.)
TakeUp(e) ==
  /\ Landing(e) /\ MovedOn(e)
  /\ effects[e].kind = "model"
  /\ handler' = [handler EXCEPT !.at = "again"]
  /\ UNCHANGED <<up, sessions, effects, runs, inFlight, sent, crashes, answers>>

\* Only a person gives an effect another attempt.
RetryEffect(e) ==
  /\ Free
  /\ effects[e].status \in Settled \ {"succeeded"}
  /\ effects[e].attempts < MaxRetries
  /\ effects' = [effects EXCEPT ![e].status = "pending", ![e].attempts = @ + 1]
  /\ UNCHANGED <<up, handler, sessions, runs, inFlight, sent, crashes, answers>>

-----------------------------------------------------------------------------
(* The process.                                                            *)

Crash ==
  /\ up /\ crashes < MaxCrashes
  /\ up' = FALSE
  /\ crashes' = crashes + 1
  /\ effects' = IF Delivering THEN [effects EXCEPT ![handler.arg].fate = "cut"] ELSE effects
  /\ handler' = NoHandler
  /\ runs' = {} /\ inFlight' = {}
  /\ UNCHANGED <<sessions, sent, answers>>

Reconciled(row) == IF row.status = "running" THEN [row EXCEPT !.status = "unknown"] ELSE row

\* Mutant: what a dead process was doing is simply done again.
Boot_Resumes ==
  /\ ~up /\ up' = TRUE
  /\ effects' = [e \in DOMAIN effects |->
                   IF effects[e].status = "running" THEN [effects[e] EXCEPT !.status = "pending"]
                                                    ELSE effects[e]]
  /\ UNCHANGED <<handler, sessions, runs, inFlight, sent, crashes, answers>>

\* Mutant: nothing is reconciled.
Boot_Forgets ==
  /\ ~up /\ up' = TRUE
  /\ UNCHANGED <<handler, sessions, effects, runs, inFlight, sent, crashes, answers>>

\* What a dead process was doing becomes unknown before requests are accepted.
Boot ==
  /\ ~up /\ up' = TRUE
  /\ effects' = [e \in DOMAIN effects |-> Reconciled(effects[e])]
  /\ UNCHANGED <<handler, sessions, runs, inFlight, sent, crashes, answers>>

-----------------------------------------------------------------------------
Match ==
  \/ \E due \in BOOLEAN : StartSession(due)
  \/ \E s \in DOMAIN sessions : Finish(s) \/ FinishQuiet(s) \/ RestartFinishes(s) \/ RestartGoesOn(s)
  \/ \E s \in DOMAIN sessions, due \in BOOLEAN :
       \E target \in 0..Revision(s) - 1 : Undo(s, target, due)

Play ==
  \/ \E r \in Request, s \in DOMAIN sessions : Send(r, s)
  \/ \E m \in sent : SubmitAgain(m) \/ SubmitStale(m) \/ \E t \in Transition : Submit(m, t)

Continue ==
  \/ RestartCancels \/ RestartCreates \/ UndoCancels
  \/ AdvanceEnds
  \/ \E t \in Transition : ScriptMoves(t)
  \/ \E e \in DOMAIN effects : Refused(e) \/ TakeUp(e) \/ TooLate(e) \/ \E t \in Transition : Deliver(e, t)

RunEnds(e) == RunFails(e) \/ RunAborted(e) \/ RunSucceeds(e)

Host ==
  \E e \in DOMAIN effects : ClaimTimer(e) \/ ClaimModel(e) \/ RunEnds(e) \/ RetryEffect(e)

Next == Match \/ Play \/ Continue \/ Host \/ Crash \/ Boot

Spec == Init /\ [][Next]_vars

\* Continuations run, a dead process is started again, and between the requests
\* it serves the event loop comes to the timers, sleeps and replies that wait.
\* Their number is bounded, so no one of them needs a condition of its own.
Known(e) == e \in DOMAIN effects
Waiting == \E e \in DOMAIN effects : ClaimTimer(e) \/ RunEnds(e)
Fairness == WF_vars(Continue \/ Boot) /\ SF_vars(Waiting)

FairSpec == Spec /\ Fairness

-----------------------------------------------------------------------------
\* What the rows and the journals show of the effects.
StatusOf == [e \in 1..MaxEffects |-> IF e \in DOMAIN effects THEN effects[e].status ELSE "none"]
HomeOf == [e \in 1..MaxEffects |-> IF e \in DOMAIN effects THEN effects[e].session ELSE 0]
Results(s) == {i \in DOMAIN sessions[s].steps : sessions[s].steps[i].kind = "effect_result"}
Landed ==
  UNION {{[of |-> sessions[s].steps[i].by, session |-> s, at |-> i] : i \in Results(s)}
           : s \in DOMAIN sessions}

Ledger == INSTANCE EffectLedger WITH
  EffectId <- 1..MaxEffects, SessionId <- 1..MaxSessions, NoSession <- 0,
  status <- StatusOf, home <- HomeOf, landed <- Landed

\* The rows and journals keep the contract of EffectLedger: an effect that has
\* succeeded is never run again nor takes another end, its result changes the game at
\* most once and only the match that asked for it, whatever is undone, restarted,
\* retried or cut off (claimEffect(), completeEffect(), retryEffect() and the feed-back
\* of applyEffectResult(), each a commit of its own).
ImplementsLedger == Ledger!LedgerSpec

\* "Must precede the CAS check: a retried duplicate carries the ORIGINAL
\* (now-stale) expectedRevision" (experience-service.ts, l. 701-703).  Whatever
\* was answered stays true: an action called applied was and is applied exactly
\* once, one called stale is not applied by any copy of it that comes later,
\* across undos, restarts of the match and deaths of the process.
AnswersAreTrue ==
  \A m \in sent :
    LET times == Cardinality(TakenBy(m.request, m.session))
    IN /\ times <= 1
       /\ <<m.request, "applied">> \in answers => times = 1
       /\ <<m.request, "stale">> \in answers => times = 0

\* "never silently re-run ... Only an explicit user retry (retryEffect) creates
\* a new attempt" (experience-timer-effect-service.ts, l. 9-18): an effect is
\* slept for or asked of a model once, and once more for every retry.
NoSilentRerun ==
  \A e \in DOMAIN effects : effects[e].claims <= effects[e].attempts + 1

\* An effect that says it is running is being run by this very process.
RunningIsRun ==
  up => \A e \in DOMAIN effects : effects[e].status = "running" => e \in runs

\* A tick changes the game only at the moment it was asked for: nothing has
\* happened between the step that armed it and the step it makes.
TicksHitTheirMoment ==
  \A s \in DOMAIN sessions : \A i \in DOMAIN sessions[s].steps :
    LET step == sessions[s].steps[i]
    IN step.kind = "effect_result" /\ effects[step.by].kind = "timer" =>
         effects[step.by].session = s /\ i = effects[step.by].origin + 1

InJournal(e) ==
  \E i \in Results(effects[e].session) : sessions[effects[e].session].steps[i].by = e

\* "without re-origination the rest would stay terminal succeeded yet undelivered
\* forever" (experience-service.ts, l. 1113-1114): a stored result is in the journal
\* of its match, unless the rules refused it, the process died before it was fed
\* back, or it is a tick and the game has moved on since it was asked for.  A reply
\* is never lost to a game that moved on.  (The comments of the caller,
\* experience-model-effect-service.ts, l. 26-30 and 237-239, still say that it is;
\* the loop of applyEffectResult(), l. 1134-1177, is what runs.)
ResultsAreAccountedFor ==
  \A e \in DOMAIN effects :
    effects[e].status = "succeeded" =>
      \/ InJournal(e)
      \/ Landing(e) \/ effects[e].fate \in {"refused", "cut"}
      \/ effects[e].kind = "timer" /\ Revision(effects[e].session) > effects[e].origin

\* A timer that is asked for is run, and whatever is run comes to an end, though
\* the process die meanwhile.
EffectsSettle ==
  \A e \in 1..MaxEffects :
    (Known(e) /\ (\/ effects[e].status = "running"
                  \/ effects[e].status = "pending" /\ effects[e].kind = "timer"))
      ~> (Known(e) /\ effects[e].status \in Settled)

\* "After every transition it walks the roster ... a script seat -- the host
\* calls choose and applies the chosen action"
\* (services/api/assets/interactive-rules.md, l. 78-80): a transition after
\* which a script seat is due is followed by asking it.  (Undos are left out:
\* they do not go through the rules.)
ScriptSeatsAreAsked ==
  [][\A s \in DOMAIN sessions :
       /\ Len(sessions'[s].steps) > Revision(s)
       /\ sessions'[s].status = "active" /\ sessions'[s].due
       /\ sessions'[s].steps[Revision(s) + 1].kind # "system"
       => handler'.at = "advance" /\ handler'.on = s]_vars
=============================================================================
