---------------------- MODULE ExperienceSessionProofs ----------------------
(***************************************************************************)
(* Proofs about ExperienceSession, for every set of requests and of        *)
(* emissions and every value of the bounds.  First what the operators do   *)
(* to the rows, so that the invariants need not look into sequences; then  *)
(* the types and who refers to whom; then the invariants of the effects,   *)
(* of the journal and of the answers, each resting on those before it; and *)
(* at last, that the sessions implement EffectLedger.                      *)
(***************************************************************************)
EXTENDS ExperienceSession, SequenceTheorems, FiniteSetTheorems, TLAPS

USE DEF Delivering

\* A function on 1..n is a sequence.
LEMMA FunctionIsSeq ==
  ASSUME NEW S, NEW n \in Nat, NEW f \in [1..n -> S]
  PROVE  f \in Seq(S) /\ Len(f) = n /\ DOMAIN f = 1..n
<1>1. f \in Seq(S)
  BY SeqDef
<1>. QED
  BY <1>1, LenProperties

LEMMA SameInterval ==
  ASSUME NEW m \in Nat, NEW n \in Nat, 1..m = 1..n
  PROVE  m = n
<1>1. m > 0 => m \in 1..n
  <2>1. m > 0 => m \in 1..m
    OBVIOUS
  <2>. QED
    BY <2>1
<1>2. n > 0 => n \in 1..m
  <2>1. n > 0 => n \in 1..n
    OBVIOUS
  <2>. QED
    BY <2>1
<1>. QED
  BY <1>1, <1>2

\* One row is rewritten.
LEMMA Rewritten ==
  ASSUME NEW S, NEW seq \in Seq(S), NEW i \in DOMAIN seq, NEW row \in S
  PROVE  /\ [seq EXCEPT ![i] = row] \in Seq(S)
         /\ DOMAIN [seq EXCEPT ![i] = row] = DOMAIN seq
         /\ \A j \in DOMAIN seq : [seq EXCEPT ![i] = row][j] = IF j = i THEN row ELSE seq[j]
<1>1. DOMAIN seq = 1..Len(seq)
  BY LenProperties
<1>2. [seq EXCEPT ![i] = row] \in Seq(S)
  BY <1>1, ExceptSeq
<1>. QED
  BY <1>2

\* One row is added at the end.
LEMMA Appended ==
  ASSUME NEW S, NEW seq \in Seq(S), NEW row \in S
  PROVE  /\ Append(seq, row) \in Seq(S)
         /\ Len(Append(seq, row)) = Len(seq) + 1
         /\ DOMAIN seq = 1..Len(seq)
         /\ DOMAIN Append(seq, row) = 1..(Len(seq) + 1)
         /\ \A j \in DOMAIN seq : Append(seq, row)[j] = seq[j]
         /\ Append(seq, row)[Len(seq) + 1] = row
<1>1. Append(seq, row) \in Seq(S) /\ Len(Append(seq, row)) = Len(seq) + 1
  BY AppendProperties
<1>2. DOMAIN seq = 1..Len(seq) /\ DOMAIN Append(seq, row) = 1..(Len(seq) + 1)
  BY <1>1, LenProperties
<1>3. /\ \A j \in 1..Len(seq) : Append(seq, row)[j] = seq[j]
      /\ Append(seq, row)[Len(seq) + 1] = row
  BY AppendProperties
<1>. QED
  BY <1>1, <1>2, <1>3

-----------------------------------------------------------------------------
(***************************************************************************)
(* Who refers to whom: the handler in the middle of its commits to a       *)
(* session, and in the middle of a delivery to an effect of that session   *)
(* whose result is stored, a reply if it is the second attempt; an effect  *)
(* to the session that asked for it.                                       *)
(***************************************************************************)
Bound ==
  /\ handler.at # "none" => handler.on \in DOMAIN sessions
  /\ Delivering =>
       /\ handler.arg \in DOMAIN effects
       /\ effects[handler.arg].session = handler.on
       /\ effects[handler.arg].status = "succeeded"
  /\ handler.at = "again" => effects[handler.arg].kind = "model"
  /\ \A e \in DOMAIN effects : effects[e].session \in DOMAIN sessions

Shape == TypeOK /\ Bound

\* The journal of a session grows by one step.
Grown(s, step) ==
  /\ sessions' \in Seq(Session)
  /\ DOMAIN sessions' = DOMAIN sessions
  /\ \A q \in DOMAIN sessions \ {s} : sessions'[q].steps = sessions[q].steps
  /\ sessions'[s].steps = Append(sessions[s].steps, step)

LEMMA SessionRow ==
  ASSUME TypeOK, NEW s \in DOMAIN sessions
  PROVE  /\ DOMAIN sessions = 1..Len(sessions) /\ Len(sessions) \in Nat
         /\ sessions[s] \in Session
         /\ sessions[s].steps \in Seq(Step)
         /\ Revision(s) \in Nat
         /\ DOMAIN sessions[s].steps = 1..Revision(s)
<1>1. sessions \in Seq(Session)
  BY DEF TypeOK
<1>2. DOMAIN sessions = 1..Len(sessions) /\ Len(sessions) \in Nat /\ sessions[s] \in Session
  BY <1>1, LenProperties
<1>3. sessions[s].steps \in Seq(Step)
  BY <1>2 DEF Session
<1>. QED
  BY <1>2, <1>3, LenProperties DEF Revision

LEMMA SetSession ==
  ASSUME TypeOK, NEW s \in DOMAIN sessions, NEW row \in Session,
         sessions' = [sessions EXCEPT ![s] = row]
  PROVE  /\ sessions' \in Seq(Session)
         /\ DOMAIN sessions' = DOMAIN sessions
         /\ \A q \in DOMAIN sessions : sessions'[q] = IF q = s THEN row ELSE sessions[q]
<1>1. sessions \in Seq(Session)
  BY DEF TypeOK
<1>2. /\ [sessions EXCEPT ![s] = row] \in Seq(Session)
      /\ DOMAIN [sessions EXCEPT ![s] = row] = DOMAIN sessions
      /\ \A q \in DOMAIN sessions :
           [sessions EXCEPT ![s] = row][q] = IF q = s THEN row ELSE sessions[q]
  BY <1>1, Rewritten, Zenon
<1>. QED
  BY <1>2, Zenon

LEMMA SetEffect ==
  ASSUME effects \in Seq(Effect), NEW e \in DOMAIN effects, NEW row \in Effect
  PROVE  /\ [effects EXCEPT ![e] = row] \in Seq(Effect)
         /\ DOMAIN [effects EXCEPT ![e] = row] = DOMAIN effects
         /\ \A f \in DOMAIN effects :
              [effects EXCEPT ![e] = row][f] = IF f = e THEN row ELSE effects[f]
BY Rewritten, Zenon

LEMMA GrownByStep ==
  ASSUME TypeOK, NEW s \in DOMAIN sessions, NEW step \in Step, NEW row \in Session,
         row.steps = Append(sessions[s].steps, step),
         sessions' = [sessions EXCEPT ![s] = row]
  PROVE  Grown(s, step)
<1>1. /\ sessions' \in Seq(Session) /\ DOMAIN sessions' = DOMAIN sessions
      /\ \A q \in DOMAIN sessions : sessions'[q] = IF q = s THEN row ELSE sessions[q]
  BY SetSession, Zenon
<1>. QED
  BY <1>1 DEF Grown

\* What applyTransition() is given: a verdict of the rules, or a rewind.
Returned ==
  [status : {"active", "completed"}, due : BOOLEAN, emits : Seq({"timer", "model"})]

LEMMA TransitionReturned == Transition \subseteq Returned
BY EmissionAssumption DEF Transition, Returned

\* The effects a transition asks for, added to the rows there are.
LEMMA AskedFacts ==
  ASSUME TypeOK, NEW s \in DOMAIN sessions, NEW t \in Returned,
         NEW rows \in Seq(Effect), DOMAIN rows = DOMAIN effects
  PROVE  /\ rows \o Asked(s, t) \in Seq(Effect)
         /\ DOMAIN effects \subseteq DOMAIN (rows \o Asked(s, t))
         /\ DOMAIN (rows \o Asked(s, t)) = 1..Len(effects) + Len(t.emits)
         /\ \A e \in DOMAIN effects : (rows \o Asked(s, t))[e] = rows[e]
         /\ \A e \in DOMAIN (rows \o Asked(s, t)) \ DOMAIN effects :
              LET new == (rows \o Asked(s, t))[e]
              IN /\ new.session = s /\ new.status = "pending" /\ new.fate = "open"
                 /\ new.origin = Revision(s) + 1 /\ new.attempts = 0 /\ new.claims = 0
<1>1. t.emits \in Seq({"timer", "model"})
  BY DEF Returned
<1>2. /\ DOMAIN t.emits = 1..Len(t.emits) /\ Len(t.emits) \in Nat
      /\ \A i \in DOMAIN t.emits : t.emits[i] \in {"timer", "model"}
  BY <1>1, LenProperties
<1>3. Revision(s) \in Nat /\ s \in Nat
  BY SessionRow
<1>. DEFINE new == Asked(s, t)
<1>4. new \in [1..Len(t.emits) -> Effect]
  BY <1>2, <1>3 DEF Asked, Effect
<1>5. \A i \in 1..Len(t.emits) :
        /\ new[i].session = s /\ new[i].status = "pending" /\ new[i].fate = "open"
        /\ new[i].origin = Revision(s) + 1 /\ new[i].attempts = 0 /\ new[i].claims = 0
  BY <1>2 DEF Asked
<1>. HIDE DEF new
<1>6. new \in Seq(Effect) /\ Len(new) = Len(t.emits)
  BY <1>2, <1>4, FunctionIsSeq, Zenon
<1>7. Len(rows) \in Nat /\ DOMAIN rows = 1..Len(rows)
  BY LenProperties
<1>8. /\ rows \o new \in Seq(Effect) /\ Len(rows \o new) = Len(rows) + Len(new)
      /\ \A i \in 1..Len(rows) + Len(new) :
           (rows \o new)[i] = IF i <= Len(rows) THEN rows[i] ELSE new[i - Len(rows)]
  BY <1>6, ConcatProperties, Zenon
<1>9. DOMAIN (rows \o new) = 1..Len(rows) + Len(new)
  BY <1>8, LenProperties
<1>10. \A e \in DOMAIN (rows \o new) \ DOMAIN effects :
         /\ e - Len(rows) \in 1..Len(t.emits)
         /\ (rows \o new)[e] = new[e - Len(rows)]
  BY <1>2, <1>6, <1>7, <1>8, <1>9
<1>11. \A e \in DOMAIN effects : (rows \o new)[e] = rows[e]
  BY <1>2, <1>6, <1>7, <1>8, <1>9
<1>12. DOMAIN effects \subseteq DOMAIN (rows \o new)
  BY <1>2, <1>6, <1>7, <1>9
<1>13. Len(rows) = Len(effects)
  <2>1. Len(effects) \in Nat /\ DOMAIN effects = 1..Len(effects)
    BY LenProperties DEF TypeOK
  <2>. QED
    BY <1>7, <2>1, SameInterval, Zenon
<1>14. DOMAIN (rows \o new) = 1..Len(effects) + Len(t.emits)
  BY <1>6, <1>9, <1>13
<1>. QED
  BY <1>5, <1>8, <1>10, <1>11, <1>12, <1>14 DEF new

\* New rows: they belong to the session and its new step, wait, and are not too
\* many.
AskedBy(s) ==
  /\ DOMAIN effects \subseteq DOMAIN effects' /\ DOMAIN effects' \subseteq 1..MaxEffects
  /\ \A e \in DOMAIN effects' \ DOMAIN effects :
       /\ effects'[e].session = s /\ effects'[e].status = "pending"
       /\ effects'[e].fate = "open" /\ effects'[e].origin = Revision(s)'

\* What applyTransition() does to both tables.
LEMMA TransitionFacts ==
  ASSUME TypeOK, NEW s \in DOMAIN sessions, NEW step \in Step, NEW t \in Returned,
         NEW rows \in Seq(Effect), DOMAIN rows = DOMAIN effects,
         ApplyTransition(s, step, t, rows)
  PROVE  /\ Grown(s, step)
         /\ AskedBy(s)
         /\ effects' \in Seq(Effect)
         /\ DOMAIN effects \subseteq DOMAIN effects'
         /\ \A e \in DOMAIN effects : effects'[e] = rows[e]
         /\ \A e \in DOMAIN effects' \ DOMAIN effects :
              /\ effects'[e].session = s /\ effects'[e].status = "pending"
              /\ effects'[e].attempts = 0 /\ effects'[e].claims = 0
<1>1. effects' = rows \o Asked(s, t)
  BY DEF ApplyTransition
<1>. DEFINE row == [sessions[s] EXCEPT !.status = t.status, !.due = t.due,
                                       !.steps = Append(@, step)]
<1>2. Append(sessions[s].steps, step) \in Seq(Step) /\ sessions[s] \in Session
  BY SessionRow, AppendProperties
<1>3. t.status \in {"active", "completed"} /\ t.due \in BOOLEAN
  BY DEF Returned
<1>4. row \in Session /\ row.steps = Append(sessions[s].steps, step)
  BY <1>2, <1>3 DEF Session
<1>5. sessions' = [sessions EXCEPT ![s] = row]
  BY DEF ApplyTransition
<1>. HIDE DEF row
<1>6. Grown(s, step)
  BY <1>4, <1>5, GrownByStep, Zenon
<1>7. /\ effects' \in Seq(Effect)
      /\ DOMAIN effects \subseteq DOMAIN effects'
      /\ DOMAIN effects' = 1..Len(effects) + Len(t.emits)
      /\ \A e \in DOMAIN effects : effects'[e] = rows[e]
      /\ \A e \in DOMAIN effects' \ DOMAIN effects :
           /\ effects'[e].session = s /\ effects'[e].status = "pending"
           /\ effects'[e].fate = "open" /\ effects'[e].origin = Revision(s) + 1
           /\ effects'[e].attempts = 0 /\ effects'[e].claims = 0
  BY <1>1, AskedFacts
<1>9. Revision(s)' = Revision(s) + 1
  BY <1>6, SessionRow, AppendProperties DEF Grown, Revision
<1>8. 1..Len(effects) + Len(t.emits) \subseteq 1..MaxEffects
  <2>1. t.emits \in Seq({"timer", "model"}) /\ effects \in Seq(Effect)
    BY DEF Returned, TypeOK
  <2>2. Len(effects) \in Nat /\ Len(t.emits) \in Nat /\ MaxEffects \in Nat
    BY <2>1, LenProperties, BoundAssumption
  <2>3. Len(effects) + Len(t.emits) <= MaxEffects
    BY DEF ApplyTransition
  <2>. QED
    BY <2>2, <2>3
<1>. QED
  BY <1>6, <1>7, <1>8, <1>9 DEF AskedBy

LEMMA EffectRow ==
  ASSUME TypeOK
  PROVE  /\ effects \in Seq(Effect)
         /\ DOMAIN effects = 1..Len(effects) /\ Len(effects) \in Nat
         /\ \A e \in DOMAIN effects : effects[e] \in Effect
<1>1. effects \in Seq(Effect)
  BY DEF TypeOK
<1>. QED
  BY <1>1, LenProperties

-----------------------------------------------------------------------------
(***************************************************************************)
(* What may become of an effect's row in one step: it is claimed, its run  *)
(* or its wait ends, its result finds its fate, or a person asks for       *)
(* another attempt.  Nothing else ever changes in it.                      *)
(***************************************************************************)
Claimed(old, new) ==
  old.status = "pending" /\ new = [old EXCEPT !.status = "running", !.claims = @ + 1]
Ended(old, new) == \E status \in Settled : new = [old EXCEPT !.status = status]
Judged(old, new) == \E fate \in {"heard", "refused", "stale", "cut"} : new = [old EXCEPT !.fate = fate]
Retried(old, new) ==
  /\ old.status \in Settled \ {"succeeded"}
  /\ new = [old EXCEPT !.status = "pending", !.attempts = @ + 1]

Moved(old, new) ==
  new = old \/ Claimed(old, new) \/ Ended(old, new) \/ Judged(old, new) \/ Retried(old, new)

\* The rows after a step; those that are new belong to a session and wait.
RowsMoved ==
  /\ effects' \in Seq(Effect)
  /\ DOMAIN effects \subseteq DOMAIN effects'
  /\ \A e \in DOMAIN effects : Moved(effects[e], effects'[e])
  /\ \A e \in DOMAIN effects' \ DOMAIN effects :
       /\ effects'[e].session \in DOMAIN sessions /\ effects'[e].status = "pending"
       /\ effects'[e].attempts = 0 /\ effects'[e].claims = 0

\* A row that moves stays a row, and keeps what it was born with.
LEMMA MovedFacts ==
  ASSUME NEW old \in Effect, NEW new, Moved(old, new)
  PROVE  /\ new \in Effect
         /\ new.session = old.session /\ new.kind = old.kind /\ new.origin = old.origin
<1>1. CASE new = old
  BY <1>1
<1>2. CASE Claimed(old, new)
  <2>1. old.claims + 1 \in Nat
    BY DEF Effect
  <2>. DEFINE claims == old.claims + 1
  <2>2. new = [old EXCEPT !.status = "running", !.claims = claims]
    BY <1>2 DEF Claimed
  <2>3. claims \in Nat
    BY <2>1
  <2>. HIDE DEF claims
  <2>. QED
    BY <2>2, <2>3 DEF Effect
<1>3. CASE Ended(old, new)
  BY <1>3 DEF Ended, Effect
<1>4. CASE Judged(old, new)
  BY <1>4 DEF Judged, Effect
<1>5. CASE Retried(old, new)
  <2>1. old.attempts + 1 \in Nat
    BY DEF Effect
  <2>. DEFINE attempts == old.attempts + 1
  <2>2. new = [old EXCEPT !.status = "pending", !.attempts = attempts]
    BY <1>5 DEF Retried
  <2>3. attempts \in Nat
    BY <2>1
  <2>. HIDE DEF attempts
  <2>. QED
    BY <2>2, <2>3 DEF Effect
<1>. QED
  BY <1>1, <1>2, <1>3, <1>4, <1>5 DEF Moved

LEMMA OneRowMoved ==
  ASSUME TypeOK, NEW e \in DOMAIN effects, NEW row, Moved(effects[e], row),
         effects' = [effects EXCEPT ![e] = row]
  PROVE  /\ RowsMoved
         /\ DOMAIN effects' = DOMAIN effects
         /\ effects'[e] = row
         /\ \A f \in DOMAIN effects \ {e} : effects'[f] = effects[f]
<1>1. row \in Effect
  BY EffectRow, MovedFacts
<1>2. /\ effects' \in Seq(Effect) /\ DOMAIN effects' = DOMAIN effects
      /\ \A f \in DOMAIN effects : effects'[f] = IF f = e THEN row ELSE effects[f]
  BY <1>1, EffectRow, SetEffect, Zenon
<1>3. \A f \in DOMAIN effects : Moved(effects[f], effects'[f])
  BY <1>2 DEF Moved
<1>. QED
  BY <1>2, <1>3 DEF RowsMoved

\* Every row is rewritten, or none.
LEMMA RowsMovedTogether ==
  ASSUME TypeOK, NEW rows, DOMAIN rows = DOMAIN effects,
         rows = [e \in DOMAIN effects |-> rows[e]],
         \A e \in DOMAIN effects : Moved(effects[e], rows[e]),
         effects' = rows
  PROVE  RowsMoved
<1>1. \A e \in DOMAIN effects : rows[e] \in Effect
  BY EffectRow, MovedFacts
<1>2. rows \in [1..Len(effects) -> Effect]
  BY <1>1, EffectRow
<1>3. rows \in Seq(Effect)
  BY <1>2, EffectRow, FunctionIsSeq, Zenon
<1>. QED
  BY <1>3 DEF RowsMoved

LEMMA CancelledMoved ==
  ASSUME TypeOK, NEW doomed, effects' = Cancelled(effects, doomed)
  PROVE  /\ RowsMoved
         /\ DOMAIN effects' = DOMAIN effects
         /\ \A e \in DOMAIN effects :
              effects'[e] = IF e \in doomed THEN [effects[e] EXCEPT !.status = "cancelled"]
                                            ELSE effects[e]
<1>1. /\ effects' = [e \in DOMAIN effects |-> effects'[e]]
      /\ DOMAIN effects' = DOMAIN effects
      /\ \A e \in DOMAIN effects :
           effects'[e] = IF e \in doomed THEN [effects[e] EXCEPT !.status = "cancelled"]
                                         ELSE effects[e]
  BY DEF Cancelled
<1>2. \A e \in DOMAIN effects : Moved(effects[e], effects'[e])
  BY <1>1 DEF Moved, Ended, Settled
<1>. QED
  BY <1>1, <1>2, RowsMovedTogether

LEMMA Untouched ==
  ASSUME TypeOK, UNCHANGED effects
  PROVE  RowsMoved
BY EffectRow DEF RowsMoved, Moved

\* A transition moves the rows it is given and adds new ones.
LEMMA TransitionMoves ==
  ASSUME TypeOK, NEW s \in DOMAIN sessions, NEW step \in Step, NEW t \in Returned,
         NEW rows \in Seq(Effect), DOMAIN rows = DOMAIN effects,
         \A e \in DOMAIN effects : Moved(effects[e], rows[e]),
         ApplyTransition(s, step, t, rows)
  PROVE  /\ RowsMoved /\ AskedBy(s) /\ Grown(s, step)
         /\ \A e \in DOMAIN effects : effects'[e] = rows[e]
<1>1. /\ Grown(s, step) /\ AskedBy(s)
      /\ effects' \in Seq(Effect)
      /\ DOMAIN effects \subseteq DOMAIN effects'
      /\ \A e \in DOMAIN effects : effects'[e] = rows[e]
      /\ \A e \in DOMAIN effects' \ DOMAIN effects :
           /\ effects'[e].session = s /\ effects'[e].status = "pending"
           /\ effects'[e].attempts = 0 /\ effects'[e].claims = 0
  BY TransitionFacts
<1>2. \A e \in DOMAIN effects : Moved(effects[e], effects'[e])
  BY <1>1
<1>3. RowsMoved
  BY <1>1, <1>2 DEF RowsMoved
<1>. QED
  BY <1>1, <1>3

-----------------------------------------------------------------------------
(***************************************************************************)
(* What each action does to the tables.                                    *)
(***************************************************************************)

\* No step is written; a new match has none.
Unwritten ==
  /\ sessions' \in Seq(Session)
  /\ DOMAIN sessions \subseteq DOMAIN sessions'
  /\ DOMAIN sessions' \subseteq DOMAIN sessions \cup 1..MaxSessions
  /\ \A q \in DOMAIN sessions : sessions'[q].steps = sessions[q].steps
  /\ \A q \in DOMAIN sessions' \ DOMAIN sessions : sessions'[q].steps = <<>>

\* A step of the host or of a script is written.
Hosted ==
  \E s \in DOMAIN sessions, step \in Step :
    step.kind \in {"script", "system", "none"} /\ Grown(s, step)

LEMMA Idle ==
  ASSUME TypeOK, UNCHANGED sessions
  PROVE  Unwritten
BY DEF Unwritten, TypeOK

LEMMA CreateUnwritten ==
  ASSUME TypeOK, NEW due \in BOOLEAN, CreateSession(due)
  PROVE  Unwritten
<1>. DEFINE row == [slot |-> TRUE, status |-> "active", due |-> due, steps |-> <<>>]
<1>1. row \in Session /\ row.steps = <<>>
  BY EmptySeq DEF Session
<1>2. sessions' = Append(sessions, row) /\ sessions \in Seq(Session)
  BY DEF CreateSession, TypeOK
<1>. HIDE DEF row
<1>3. /\ Append(sessions, row) \in Seq(Session)
      /\ Len(Append(sessions, row)) = Len(sessions) + 1
      /\ DOMAIN sessions = 1..Len(sessions)
      /\ DOMAIN Append(sessions, row) = 1..(Len(sessions) + 1)
      /\ \A j \in DOMAIN sessions : Append(sessions, row)[j] = sessions[j]
      /\ Append(sessions, row)[Len(sessions) + 1] = row
  BY <1>1, <1>2, Appended
<1>4. Len(sessions) \in Nat
  BY <1>2, LenProperties
<1>5. \A q \in 1..(Len(sessions) + 1) \ 1..Len(sessions) : q = Len(sessions) + 1
  BY <1>4
<1>6. 1..Len(sessions) \subseteq 1..(Len(sessions) + 1)
  BY <1>4
<1>7. 1..(Len(sessions) + 1) \subseteq 1..MaxSessions
  BY <1>4, BoundAssumption DEF CreateSession
<1>. QED
  BY <1>1, <1>2, <1>3, <1>5, <1>6, <1>7 DEF Unwritten

LEMMA QuietHosted ==
  ASSUME TypeOK, NEW s \in DOMAIN sessions, EndQuietly(s)
  PROVE  Hosted
<1>. DEFINE step == [kind |-> "none", by |-> 0]
            row == [sessions[s] EXCEPT !.slot = FALSE, !.status = "interrupted",
                                       !.steps = Append(@, step)]
<1>1. step \in Step /\ step.kind = "none"
  BY DEF Step
<1>2. sessions[s] \in Session /\ sessions[s].steps \in Seq(Step)
  BY SessionRow
<1>3. sessions' = [sessions EXCEPT ![s] = row]
  BY DEF EndQuietly
<1>. HIDE DEF step
<1>4. Append(sessions[s].steps, step) \in Seq(Step)
  BY <1>1, <1>2, AppendProperties
<1>5. row \in Session /\ row.steps = Append(sessions[s].steps, step)
  BY <1>2, <1>4 DEF Session
<1>. HIDE DEF row
<1>6. Grown(s, step)
  BY <1>1, <1>3, <1>5, GrownByStep, Zenon
<1>. QED
  BY <1>1, <1>6 DEF Hosted

LEMMA FinishWrites ==
  ASSUME TypeOK, NEW s \in DOMAIN sessions, Finish(s)
  PROVE  Unwritten \/ Hosted
<1>2. sessions[s] \in Session /\ sessions[s].steps \in Seq(Step)
  BY SessionRow
<1>3. CASE sessions[s].status = "active"
  <2>. DEFINE step == [kind |-> "system", by |-> 0]
              row == [sessions[s] EXCEPT !.slot = FALSE, !.status = "interrupted",
                                         !.steps = Append(@, step)]
  <2>1. step \in Step /\ step.kind = "system"
    BY DEF Step
  <2>2. sessions' = [sessions EXCEPT ![s] = row]
    BY <1>3 DEF Finish
  <2>. HIDE DEF step
  <2>3. Append(sessions[s].steps, step) \in Seq(Step)
    BY <1>2, <2>1, AppendProperties
  <2>4. row \in Session /\ row.steps = Append(sessions[s].steps, step)
    BY <1>2, <2>3 DEF Session
  <2>. HIDE DEF row
  <2>5. Grown(s, step)
    BY <2>1, <2>2, <2>4, GrownByStep, Zenon
  <2>. QED
    BY <2>1, <2>5 DEF Hosted
<1>4. CASE sessions[s].status # "active"
  <2>. DEFINE row == [sessions[s] EXCEPT !.slot = FALSE]
  <2>1. row \in Session /\ row.steps = sessions[s].steps
    BY <1>2 DEF Session
  <2>2. sessions' = [sessions EXCEPT ![s] = row]
    BY <1>4 DEF Finish
  <2>. HIDE DEF row
  <2>3. /\ sessions' \in Seq(Session) /\ DOMAIN sessions' = DOMAIN sessions
        /\ \A q \in DOMAIN sessions : sessions'[q] = IF q = s THEN row ELSE sessions[q]
    BY <2>1, <2>2, SetSession, Zenon
  <2>. QED
    BY <2>1, <2>3 DEF Unwritten
<1>. QED
  BY <1>3, <1>4

\* The four handlers of a transition.
LEMMA SubmitWrites ==
  ASSUME Shape, NEW m \in sent, NEW t \in Transition, Submit(m, t)
  PROVE  /\ m.session \in DOMAIN sessions /\ m.request \in Request
         /\ RowsMoved /\ AskedBy(m.session)
         /\ Grown(m.session, [kind |-> "action", by |-> m.request])
         /\ \A e \in DOMAIN effects : effects'[e] = effects[e]
<1>1. TypeOK /\ m.session \in DOMAIN sessions /\ m.request \in Request
  BY DEF Shape, TypeOK
<1>. DEFINE step == [kind |-> "action", by |-> m.request]
<1>2. step \in Step
  BY <1>1 DEF Step
<1>3. ApplyTransition(m.session, step, t, effects)
  BY DEF Submit
<1>4. effects \in Seq(Effect) /\ \A e \in DOMAIN effects : Moved(effects[e], effects[e])
  BY <1>1, EffectRow DEF Moved
<1>. HIDE DEF step
<1>5. /\ RowsMoved /\ AskedBy(m.session) /\ Grown(m.session, step)
      /\ \A e \in DOMAIN effects : effects'[e] = effects[e]
  BY <1>1, <1>2, <1>3, <1>4, TransitionReturned, TransitionMoves, Zenon
<1>. QED
  BY <1>1, <1>5 DEF step

LEMMA HostTransition ==
  ASSUME TypeOK, NEW s \in DOMAIN sessions, NEW step \in Step,
         step.kind \in {"script", "system", "none"},
         NEW t \in Returned, ApplyTransition(s, step, t, effects)
  PROVE  /\ RowsMoved /\ AskedBy(s) /\ Hosted
         /\ \A e \in DOMAIN effects : effects'[e] = effects[e]
<1>1. effects \in Seq(Effect) /\ \A e \in DOMAIN effects : Moved(effects[e], effects[e])
  BY EffectRow DEF Moved
<1>2. /\ RowsMoved /\ AskedBy(s) /\ Grown(s, step)
      /\ \A e \in DOMAIN effects : effects'[e] = effects[e]
  BY <1>1, TransitionMoves, Zenon
<1>. QED
  BY <1>2 DEF Hosted

LEMMA ScriptWrites ==
  ASSUME Shape, NEW t \in Transition, ScriptMoves(t)
  PROVE  /\ handler.on \in DOMAIN sessions
         /\ RowsMoved /\ AskedBy(handler.on) /\ Hosted
         /\ \A e \in DOMAIN effects : effects'[e] = effects[e]
<1>. DEFINE step == [kind |-> "script", by |-> 0]
<1>1. TypeOK /\ handler.on \in DOMAIN sessions
  BY DEF Shape, Bound, ScriptMoves
<1>2. step \in Step /\ step.kind \in {"script", "system", "none"}
  BY DEF Step
<1>3. ApplyTransition(handler.on, step, t, effects)
  BY DEF ScriptMoves
<1>. HIDE DEF step
<1>. QED
  BY <1>1, <1>2, <1>3, TransitionReturned, HostTransition, Zenon

LEMMA UndoWrites ==
  ASSUME Shape, NEW s \in DOMAIN sessions, NEW target, NEW due \in BOOLEAN,
         Undo(s, target, due)
  PROVE  /\ RowsMoved /\ AskedBy(s) /\ Hosted
         /\ \A e \in DOMAIN effects : effects'[e] = effects[e]
<1>. DEFINE step == [kind |-> "system", by |-> 0]
            t == [status |-> "active", due |-> due, emits |-> <<>>]
<1>1. TypeOK
  BY DEF Shape
<1>2. step \in Step /\ step.kind \in {"script", "system", "none"}
  BY DEF Step
<1>3. t \in Returned
  BY EmptySeq DEF Returned
<1>4. ApplyTransition(s, step, t, effects)
  BY DEF Undo
<1>. HIDE DEF step, t
<1>. QED
  BY <1>1, <1>2, <1>3, <1>4, HostTransition, Zenon

LEMMA DeliverWrites ==
  ASSUME Shape, NEW e \in DOMAIN effects, NEW t \in Transition, Deliver(e, t)
  PROVE  /\ e = handler.arg /\ handler.on = effects[e].session
         /\ handler.on \in DOMAIN sessions
         /\ effects[e].status = "succeeded"
         /\ RowsMoved /\ AskedBy(handler.on)
         /\ Grown(handler.on, [kind |-> "effect_result", by |-> e])
         /\ effects'[e] = [effects[e] EXCEPT !.fate = "heard"]
         /\ \A f \in DOMAIN effects \ {e} : effects'[f] = effects[f]
<1>1. /\ TypeOK /\ e = handler.arg /\ handler.on = effects[e].session
      /\ handler.on \in DOMAIN sessions /\ effects[e].status = "succeeded"
  BY DEF Shape, Bound, Deliver, Landing
<1>. DEFINE step == [kind |-> "effect_result", by |-> e]
            row == [effects[e] EXCEPT !.fate = "heard"]
            rows == [effects EXCEPT ![e] = row]
<1>2. step \in Step
  BY <1>1, EffectRow DEF Step
<1>3. Moved(effects[e], row)
  BY DEF Moved, Judged
<1>4. row \in Effect
  BY <1>1, <1>3, EffectRow, MovedFacts
<1>5. rows = [effects EXCEPT ![e].fate = "heard"]
  OBVIOUS
<1>6. ApplyTransition(handler.on, step, t, rows)
  BY <1>5 DEF Deliver
<1>. HIDE DEF row
<1>7. /\ rows \in Seq(Effect) /\ DOMAIN rows = DOMAIN effects
      /\ \A f \in DOMAIN effects : rows[f] = IF f = e THEN row ELSE effects[f]
  BY <1>1, <1>4, EffectRow, SetEffect, Zenon
<1>. HIDE DEF rows, step
<1>8. \A f \in DOMAIN effects : Moved(effects[f], rows[f])
  BY <1>3, <1>7 DEF Moved
<1>9. /\ RowsMoved /\ AskedBy(handler.on) /\ Grown(handler.on, step)
      /\ \A f \in DOMAIN effects : effects'[f] = rows[f]
  BY <1>1, <1>2, <1>6, <1>7, <1>8, TransitionReturned, TransitionMoves, Zenon
<1>. QED
  BY <1>1, <1>7, <1>9 DEF row, step

\* The actions on one row.
LEMMA ClaimMoves ==
  ASSUME TypeOK, NEW e \in DOMAIN effects, Claim(e)
  PROVE  /\ RowsMoved /\ DOMAIN effects' = DOMAIN effects
         /\ effects'[e].status = "running"
         /\ \A f \in DOMAIN effects \ {e} : effects'[f] = effects[f]
<1>. DEFINE row == [effects[e] EXCEPT !.status = "running", !.claims = @ + 1]
<1>1. Moved(effects[e], row)
  BY DEF Claim, Moved, Claimed
<1>2. row.status = "running"
  BY EffectRow DEF Effect
<1>3. effects' = [effects EXCEPT ![e] = row]
  BY DEF Claim
<1>. HIDE DEF row
<1>. QED
  BY <1>1, <1>2, <1>3, OneRowMoved, Zenon

LEMMA MarkMoves ==
  ASSUME TypeOK, NEW e \in DOMAIN effects, NEW status \in Settled, effects' = Mark(e, status)
  PROVE  /\ RowsMoved /\ DOMAIN effects' = DOMAIN effects
         /\ effects'[e] = [effects[e] EXCEPT !.status = status]
         /\ effects'[e].status = status
         /\ \A f \in DOMAIN effects \ {e} : effects'[f] = effects[f]
<1>. DEFINE row == [effects[e] EXCEPT !.status = status]
<1>1. Moved(effects[e], row)
  BY DEF Moved, Ended
<1>2. row.status = status
  BY EffectRow DEF Effect
<1>3. effects' = [effects EXCEPT ![e] = row]
  BY DEF Mark
<1>. HIDE DEF row
<1>4. /\ RowsMoved /\ DOMAIN effects' = DOMAIN effects /\ effects'[e] = row
      /\ \A f \in DOMAIN effects \ {e} : effects'[f] = effects[f]
  BY <1>1, <1>3, OneRowMoved, Zenon
<1>. QED
  BY <1>2, <1>4 DEF row

LEMMA JudgeMoves ==
  ASSUME TypeOK, NEW e \in DOMAIN effects, NEW fate \in {"heard", "refused", "stale", "cut"},
         effects' = [effects EXCEPT ![e].fate = fate]
  PROVE  /\ RowsMoved /\ DOMAIN effects' = DOMAIN effects
         /\ effects'[e] = [effects[e] EXCEPT !.fate = fate]
         /\ effects'[e].fate = fate
         /\ \A f \in DOMAIN effects \ {e} : effects'[f] = effects[f]
<1>. DEFINE row == [effects[e] EXCEPT !.fate = fate]
<1>1. Moved(effects[e], row)
  BY DEF Moved, Judged
<1>2. row.fate = fate
  BY EffectRow DEF Effect
<1>3. effects' = [effects EXCEPT ![e] = row]
  OBVIOUS
<1>. HIDE DEF row
<1>4. /\ RowsMoved /\ DOMAIN effects' = DOMAIN effects /\ effects'[e] = row
      /\ \A f \in DOMAIN effects \ {e} : effects'[f] = effects[f]
  BY <1>1, <1>3, OneRowMoved, Zenon
<1>. QED
  BY <1>2, <1>4 DEF row

LEMMA RetryMoves ==
  ASSUME TypeOK, NEW e \in DOMAIN effects, RetryEffect(e)
  PROVE  /\ RowsMoved /\ DOMAIN effects' = DOMAIN effects
         /\ effects'[e].status = "pending"
         /\ \A f \in DOMAIN effects \ {e} : effects'[f] = effects[f]
<1>. DEFINE row == [effects[e] EXCEPT !.status = "pending", !.attempts = @ + 1]
<1>1. Moved(effects[e], row)
  BY DEF RetryEffect, Moved, Retried
<1>2. row.status = "pending"
  BY EffectRow DEF Effect
<1>3. effects' = [effects EXCEPT ![e] = row]
  BY DEF RetryEffect
<1>. HIDE DEF row
<1>. QED
  BY <1>1, <1>2, <1>3, OneRowMoved, Zenon

\* A result is dropped: the rules refused it or it is a tick that came too late.
Spent(e) == Refused(e) \/ TooLate(e)

LEMMA SpentMoves ==
  ASSUME TypeOK, NEW e \in DOMAIN effects, Spent(e)
  PROVE  /\ RowsMoved /\ DOMAIN effects' = DOMAIN effects
         /\ effects'[e].status = effects[e].status
         /\ effects'[e].fate \in {"refused", "stale"}
         /\ effects'[e].fate = "stale" => TooLate(e)
         /\ \A f \in DOMAIN effects \ {e} : effects'[f] = effects[f]
<1>1. PICK fate \in {"refused", "stale"} :
        /\ effects' = [effects EXCEPT ![e].fate = fate]
        /\ fate = "stale" => TooLate(e)
  BY DEF Spent, Refused, TooLate, Undelivered
<1>2. /\ RowsMoved /\ DOMAIN effects' = DOMAIN effects
      /\ effects'[e] = [effects[e] EXCEPT !.fate = fate] /\ effects'[e].fate = fate
      /\ \A f \in DOMAIN effects \ {e} : effects'[f] = effects[f]
  BY <1>1, JudgeMoves
<1>. QED
  BY <1>1, <1>2, EffectRow DEF Effect

LEMMA SpentFacts ==
  ASSUME NEW e, Spent(e)
  PROVE  /\ Landing(e) /\ handler' = NoHandler /\ RunOver(e)
         /\ UNCHANGED <<up, sessions, sent, crashes, answers>>
BY DEF Spent, Refused, TooLate, Undelivered

LEMMA BootMoves ==
  ASSUME TypeOK, Boot
  PROVE  /\ RowsMoved /\ DOMAIN effects' = DOMAIN effects
         /\ \A e \in DOMAIN effects :
              effects'[e] = IF effects[e].status = "running"
                            THEN [effects[e] EXCEPT !.status = "unknown"] ELSE effects[e]
<1>1. /\ effects' = [e \in DOMAIN effects |-> effects'[e]]
      /\ DOMAIN effects' = DOMAIN effects
      /\ \A e \in DOMAIN effects :
           effects'[e] = IF effects[e].status = "running"
                         THEN [effects[e] EXCEPT !.status = "unknown"] ELSE effects[e]
  BY DEF Boot, Reconciled
<1>2. \A e \in DOMAIN effects : Moved(effects[e], effects'[e])
  BY <1>1 DEF Moved, Ended, Settled
<1>. QED
  BY <1>1, <1>2, RowsMovedTogether

LEMMA CrashMoves ==
  ASSUME Shape, Crash
  PROVE  /\ RowsMoved /\ DOMAIN effects' = DOMAIN effects
         /\ Delivering => /\ effects'[handler.arg].fate = "cut"
                          /\ effects'[handler.arg].status = "succeeded"
         /\ \A f \in DOMAIN effects :
              ~Delivering \/ f # handler.arg => effects'[f] = effects[f]
<1>1. TypeOK
  BY DEF Shape
<1>2. CASE Delivering
  <2>1. handler.arg \in DOMAIN effects /\ effects[handler.arg].status = "succeeded"
    BY <1>2 DEF Shape, Bound
  <2>2. effects' = [effects EXCEPT ![handler.arg].fate = "cut"]
    BY <1>2 DEF Crash
  <2>3. /\ RowsMoved /\ DOMAIN effects' = DOMAIN effects
        /\ effects'[handler.arg] = [effects[handler.arg] EXCEPT !.fate = "cut"]
        /\ effects'[handler.arg].fate = "cut"
        /\ \A f \in DOMAIN effects \ {handler.arg} : effects'[f] = effects[f]
    BY <1>1, <2>1, <2>2, JudgeMoves
  <2>. QED
    BY <1>1, <1>2, <2>1, <2>3, EffectRow DEF Effect
<1>3. CASE ~Delivering
  <2>1. UNCHANGED effects
    BY <1>3 DEF Crash
  <2>. QED
    BY <1>1, <1>3, <2>1, Untouched
<1>. QED
  BY <1>2, <1>3

LEMMA CancelsMove ==
  ASSUME TypeOK, RestartCancels \/ UndoCancels
  PROVE  /\ RowsMoved /\ DOMAIN effects' = DOMAIN effects
         /\ \A e \in DOMAIN effects :
              \/ effects'[e] = effects[e]
              \/ effects[e].status = "pending" /\ effects'[e].status = "cancelled"
<1>1. CASE UNCHANGED effects
  BY <1>1, Untouched
<1>2. CASE ~UNCHANGED effects
  <2>1. PICK doomed : /\ effects' = Cancelled(effects, doomed)
                      /\ \A e \in doomed : effects[e].status = "pending"
    <3>1. CASE RestartCancels
      <4>1. PICK e \in DOMAIN effects : /\ effects[e].status = "pending"
                                        /\ effects' = Cancelled(effects, {e})
        BY <1>2, <3>1 DEF RestartCancels
      <4>. QED
        BY <4>1
    <3>2. CASE UndoCancels
      BY <3>2 DEF UndoCancels
    <3>. QED
      BY <3>1, <3>2
  <2>2. /\ RowsMoved /\ DOMAIN effects' = DOMAIN effects
        /\ \A e \in DOMAIN effects :
             effects'[e] = IF e \in doomed THEN [effects[e] EXCEPT !.status = "cancelled"]
                                           ELSE effects[e]
    BY <2>1, CancelledMoved
  <2>. QED
    BY <2>1, <2>2, EffectRow DEF Effect
<1>. QED
  BY <1>1, <1>2

-----------------------------------------------------------------------------
(***************************************************************************)
(* Types and references.                                                   *)
(***************************************************************************)
Tables == RowsMoved /\ sessions' \in Seq(Session) /\ DOMAIN sessions \subseteq DOMAIN sessions'

LEMMA HostedTables ==
  ASSUME RowsMoved, Unwritten \/ Hosted
  PROVE  Tables
BY DEF Tables, Unwritten, Hosted, Grown

LEMMA ShapeKept ==
  ASSUME Shape, Tables,
         up' \in BOOLEAN, crashes' \in Nat,
         runs' \subseteq DOMAIN effects, inFlight' \subseteq DOMAIN effects,
         answers' \subseteq Request \X {"applied", "stale"},
         sent' \subseteq [request : Request, session : DOMAIN sessions, expected : Nat],
         handler' \in Handler,
         handler'.at # "none" => handler'.on \in DOMAIN sessions,
         Delivering' => /\ handler'.arg \in DOMAIN effects
                        /\ effects'[handler'.arg].session = handler'.on
                        /\ effects'[handler'.arg].status = "succeeded",
         handler'.at = "again" => effects'[handler'.arg].kind = "model"
  PROVE  Shape'
<1>1. /\ effects' \in Seq(Effect) /\ DOMAIN effects \subseteq DOMAIN effects'
      /\ sessions' \in Seq(Session) /\ DOMAIN sessions \subseteq DOMAIN sessions'
  BY DEF Tables, RowsMoved
<1>2. sent' \subseteq [request : Request, session : DOMAIN sessions', expected : Nat]
  BY <1>1
<1>3. TypeOK'
  BY <1>1, <1>2 DEF TypeOK
<1>4. ASSUME NEW e \in DOMAIN effects' PROVE effects'[e].session \in DOMAIN sessions'
  <2>1. CASE e \in DOMAIN effects
    <3>1. Moved(effects[e], effects'[e]) /\ effects[e] \in Effect
      BY <2>1, EffectRow DEF Shape, Tables, RowsMoved
    <3>2. effects'[e].session = effects[e].session
      BY <3>1, MovedFacts
    <3>. QED
      BY <1>1, <2>1, <3>2 DEF Shape, Bound
  <2>2. CASE e \notin DOMAIN effects
    BY <1>1, <2>2 DEF Tables, RowsMoved
  <2>. QED
    BY <2>1, <2>2
<1>5. Bound'
  BY <1>1, <1>4 DEF Bound
<1>. QED
  BY <1>3, <1>5 DEF Shape

\* Away from a delivery it is enough that the handler knows its session.
LEMMA ShapeKeptAway ==
  ASSUME Shape, Tables,
         up' \in BOOLEAN, crashes' \in Nat,
         runs' \subseteq DOMAIN effects, inFlight' \subseteq DOMAIN effects,
         answers' \subseteq Request \X {"applied", "stale"},
         sent' \subseteq [request : Request, session : DOMAIN sessions, expected : Nat],
         \/ handler' = NoHandler
         \/ handler' = handler /\ ~Delivering
         \/ \E at \in {"advance", "cancel", "create", "rewind"}, s \in DOMAIN sessions, arg \in Nat :
              handler' = [at |-> at, on |-> s, arg |-> arg]
  PROVE  Shape'
<1>1. CASE handler' = NoHandler
  <2>1. handler' \in Handler /\ handler'.at = "none"
    BY <1>1 DEF NoHandler, Handler
  <2>. QED
    BY <2>1, ShapeKept
<1>2. CASE handler' = handler /\ ~Delivering
  <2>1. handler' \in Handler /\ ~Delivering'
    BY <1>2 DEF Shape, TypeOK
  <2>2. handler'.at # "none" => handler'.on \in DOMAIN sessions
    BY <1>2 DEF Shape, Bound
  <2>. QED
    BY <2>1, <2>2, ShapeKept
<1>3. CASE \E at \in {"advance", "cancel", "create", "rewind"}, s \in DOMAIN sessions, arg \in Nat :
             handler' = [at |-> at, on |-> s, arg |-> arg]
  <2>1. PICK at \in {"advance", "cancel", "create", "rewind"}, s \in DOMAIN sessions, arg \in Nat :
          handler' = [at |-> at, on |-> s, arg |-> arg]
    BY <1>3
  <2>2. s \in Nat
    BY LenProperties DEF Shape, TypeOK
  <2>3. handler' \in Handler /\ ~Delivering' /\ handler'.on \in DOMAIN sessions
    BY <2>1, <2>2 DEF Handler
  <2>. QED
    BY <2>3, ShapeKept
<1>. QED
  BY <1>1, <1>2, <1>3

LEMMA AdvanceFacts ==
  ASSUME NEW s \in DOMAIN sessions, NEW status, handler' = Advance(s, status)
  PROVE  \/ handler' = NoHandler
         \/ \E at \in {"advance", "cancel", "create", "rewind"}, q \in DOMAIN sessions, arg \in Nat :
              handler' = [at |-> at, on |-> q, arg |-> arg]
BY DEF Advance

THEOREM ShapeInit == Init => Shape
<1>1. <<>> \in Seq(Session) /\ <<>> \in Seq(Effect) /\ DOMAIN <<>> = {}
  BY EmptySeq
<1>. QED
  BY <1>1 DEF Init, Shape, TypeOK, Bound, Handler, NoHandler

\* Every action, in the order of the module.
THEOREM ShapeStep ==
  ASSUME Shape, [Next]_vars
  PROVE  Shape' /\ Tables
<1>. USE DEF Free
<1>0. /\ TypeOK /\ up \in BOOLEAN /\ crashes \in Nat
      /\ runs \subseteq DOMAIN effects /\ inFlight \subseteq DOMAIN effects
      /\ answers \subseteq Request \X {"applied", "stale"}
      /\ sent \subseteq [request : Request, session : DOMAIN sessions, expected : Nat]
      /\ NoHandler.at = "none"
  BY DEF Shape, TypeOK, NoHandler
<1>1. ASSUME NEW due \in BOOLEAN, StartSession(due) PROVE Shape' /\ Tables
  <2>1. Tables
    BY <1>0, <1>1, CreateUnwritten, Untouched, HostedTables DEF StartSession
  <2>. QED
    BY <1>0, <1>1, <2>1, ShapeKeptAway DEF StartSession
<1>2. ASSUME NEW s \in DOMAIN sessions, Finish(s) PROVE Shape' /\ Tables
  <2>1. Tables
    BY <1>0, <1>2, FinishWrites, Untouched, HostedTables DEF Finish
  <2>. QED
    BY <1>0, <1>2, <2>1, ShapeKeptAway DEF Finish
<1>3. ASSUME NEW s \in DOMAIN sessions, FinishQuiet(s) PROVE Shape' /\ Tables
  <2>1. Tables
    BY <1>0, <1>3, QuietHosted, Untouched, HostedTables DEF FinishQuiet
  <2>. QED
    BY <1>0, <1>3, <2>1, ShapeKeptAway DEF FinishQuiet
<1>4. ASSUME NEW s \in DOMAIN sessions, RestartFinishes(s) PROVE Shape' /\ Tables
  <2>1. Tables
    BY <1>0, <1>4, QuietHosted, Untouched, HostedTables DEF RestartFinishes
  <2>. QED
    BY <1>0, <1>4, <2>1, ShapeKeptAway DEF RestartFinishes
<1>5. ASSUME NEW s \in DOMAIN sessions, RestartGoesOn(s) PROVE Shape' /\ Tables
  <2>1. Tables
    BY <1>0, <1>5, Idle, Untouched, HostedTables DEF RestartGoesOn
  <2>. QED
    BY <1>0, <1>5, <2>1, ShapeKeptAway DEF RestartGoesOn
<1>6. CASE RestartCancels
  <2>1. Tables
    BY <1>0, <1>6, Idle, CancelsMove, HostedTables DEF RestartCancels
  <2>2. handler' = handler \/ handler' = [at |-> "create", on |-> handler.on, arg |-> handler.arg]
    BY <1>0, <1>6 DEF RestartCancels, TypeOK, Handler
  <2>3. handler.on \in DOMAIN sessions /\ handler.arg \in Nat /\ ~Delivering
    BY <1>0, <1>6 DEF RestartCancels, Shape, Bound, TypeOK, Handler
  <2>. QED
    BY <1>0, <1>6, <2>1, <2>2, <2>3, ShapeKeptAway DEF RestartCancels
<1>7. CASE RestartCreates
  <2>1. Tables
    BY <1>0, <1>7, Idle, CreateUnwritten, Untouched, HostedTables DEF RestartCreates
  <2>. QED
    BY <1>0, <1>7, <2>1, ShapeKeptAway DEF RestartCreates
<1>8. ASSUME NEW r \in Request, NEW s \in DOMAIN sessions, Send(r, s) PROVE Shape' /\ Tables
  <2>1. Tables
    BY <1>0, <1>8, Idle, Untouched, HostedTables DEF Send
  <2>2. sent' \subseteq [request : Request, session : DOMAIN sessions, expected : Nat]
    BY <1>0, <1>8, SessionRow DEF Send
  <2>3. /\ handler'.at # "none" => handler'.on \in DOMAIN sessions
        /\ handler' \in Handler
        /\ Delivering' => /\ handler'.arg \in DOMAIN effects
                          /\ effects'[handler'.arg].session = handler'.on
                          /\ effects'[handler'.arg].status = "succeeded"
        /\ handler'.at = "again" => effects'[handler'.arg].kind = "model"
    BY <1>8 DEF Send, Shape, Bound, TypeOK
  <2>. QED
    BY <1>0, <1>8, <2>1, <2>2, <2>3, ShapeKept DEF Send
<1>9. ASSUME NEW m \in sent, SubmitAgain(m) PROVE Shape' /\ Tables
  <2>1. Tables
    BY <1>0, <1>9, Idle, Untouched, HostedTables DEF SubmitAgain
  <2>2. m.session \in DOMAIN sessions /\ m.request \in Request
    BY <1>0
  <2>3. handler' = Advance(m.session, sessions[m.session].status)
    BY <1>9 DEF SubmitAgain
  <2>. QED
    BY <1>0, <1>9, <2>1, <2>2, <2>3, AdvanceFacts, ShapeKeptAway DEF SubmitAgain
<1>10. ASSUME NEW m \in sent, SubmitStale(m) PROVE Shape' /\ Tables
  <2>1. Tables
    BY <1>0, <1>10, Idle, Untouched, HostedTables DEF SubmitStale
  <2>2. m.request \in Request
    BY <1>0
  <2>. QED
    BY <1>0, <1>10, <2>1, <2>2, ShapeKeptAway DEF SubmitStale
<1>11. ASSUME NEW m \in sent, NEW t \in Transition, Submit(m, t) PROVE Shape' /\ Tables
  <2>1. /\ m.session \in DOMAIN sessions /\ m.request \in Request /\ RowsMoved
        /\ Grown(m.session, [kind |-> "action", by |-> m.request])
    BY <1>11, SubmitWrites
  <2>2. Tables
    BY <2>1 DEF Tables, Grown
  <2>3. handler' = Advance(m.session, t.status)
    BY <1>11 DEF Submit
  <2>. QED
    BY <1>0, <1>11, <2>1, <2>2, <2>3, AdvanceFacts, ShapeKeptAway DEF Submit
<1>12. ASSUME NEW t \in Transition, ScriptMoves(t) PROVE Shape' /\ Tables
  <2>1. handler.on \in DOMAIN sessions /\ Tables
    BY <1>12, ScriptWrites, HostedTables
  <2>2. handler' = Advance(handler.on, t.status)
    BY <1>12 DEF ScriptMoves
  <2>. QED
    BY <1>0, <1>12, <2>1, <2>2, AdvanceFacts, ShapeKeptAway DEF ScriptMoves
<1>13. CASE AdvanceEnds
  <2>1. Tables
    BY <1>0, <1>13, Idle, Untouched, HostedTables DEF AdvanceEnds
  <2>. QED
    BY <1>0, <1>13, <2>1, ShapeKeptAway DEF AdvanceEnds
<1>14. ASSUME NEW s \in DOMAIN sessions, NEW due \in BOOLEAN, NEW target \in 0..Revision(s) - 1,
              Undo(s, target, due)
       PROVE  Shape' /\ Tables
  <2>1. Tables
    BY <1>14, UndoWrites, HostedTables
  <2>2. target \in Nat
    OBVIOUS
  <2>. QED
    BY <1>0, <1>14, <2>1, <2>2, ShapeKeptAway DEF Undo
<1>15. CASE UndoCancels
  <2>1. Tables
    BY <1>0, <1>15, Idle, CancelsMove, HostedTables DEF UndoCancels
  <2>. QED
    BY <1>0, <1>15, <2>1, ShapeKeptAway DEF UndoCancels
<1>16. ASSUME NEW e \in DOMAIN effects, ClaimTimer(e) PROVE Shape' /\ Tables
  <2>1. Tables
    BY <1>0, <1>16, Idle, ClaimMoves, HostedTables DEF ClaimTimer
  <2>. QED
    BY <1>0, <1>16, <2>1, ShapeKeptAway DEF ClaimTimer, Claim
<1>17. ASSUME NEW e \in DOMAIN effects, ClaimModel(e) PROVE Shape' /\ Tables
  <2>1. Tables
    BY <1>0, <1>17, Idle, ClaimMoves, HostedTables DEF ClaimModel
  <2>. QED
    BY <1>0, <1>17, <2>1, ShapeKeptAway DEF ClaimModel, Claim
<1>18. ASSUME NEW e \in DOMAIN effects, RunFails(e) \/ RunAborted(e) PROVE Shape' /\ Tables
  <2>1. PICK status \in Settled : effects' = Mark(e, status)
    BY <1>18 DEF RunFails, RunAborted, Settled
  <2>2. UNCHANGED sessions
    BY <1>18 DEF RunFails, RunAborted
  <2>3. Tables
    BY <1>0, <2>1, <2>2, Idle, MarkMoves, HostedTables
  <2>. QED
    BY <1>0, <1>18, <2>3, ShapeKeptAway DEF RunFails, RunAborted, RunOver
<1>19. ASSUME NEW e \in DOMAIN effects, RunSucceeds(e) PROVE Shape' /\ Tables
  <2>1. /\ RowsMoved /\ DOMAIN effects' = DOMAIN effects
        /\ effects'[e] = [effects[e] EXCEPT !.status = "succeeded"]
        /\ effects'[e].status = "succeeded"
    BY <1>0, <1>19, MarkMoves DEF RunSucceeds, Settled
  <2>2. Tables
    BY <1>0, <1>19, <2>1, Idle, HostedTables DEF RunSucceeds
  <2>3. effects[e].session \in DOMAIN sessions /\ effects'[e].session = effects[e].session
    BY <1>0, <2>1, EffectRow DEF Shape, Bound, Effect
  <2>4. e \in Nat /\ effects[e].session \in Nat
    BY <1>0, EffectRow DEF Effect
  <2>5. handler' = [at |-> "land", on |-> effects[e].session, arg |-> e]
    BY <1>19 DEF RunSucceeds
  <2>6. /\ handler' \in Handler
        /\ handler'.on \in DOMAIN sessions /\ handler'.arg \in DOMAIN effects
        /\ effects'[handler'.arg].session = handler'.on
        /\ effects'[handler'.arg].status = "succeeded"
        /\ handler'.at # "again"
    BY <2>1, <2>3, <2>4, <2>5 DEF Handler
  <2>. QED
    BY <1>0, <1>19, <2>2, <2>6, ShapeKept DEF RunSucceeds
<1>20. ASSUME NEW e \in DOMAIN effects, NEW t \in Transition, Deliver(e, t) PROVE Shape' /\ Tables
  <2>1. Tables
    BY <1>20, DeliverWrites DEF Tables, Grown
  <2>. QED
    BY <1>0, <1>20, <2>1, ShapeKeptAway DEF Deliver, RunOver
<1>21. ASSUME NEW e \in DOMAIN effects, Spent(e) PROVE Shape' /\ Tables
  <2>1. Tables
    BY <1>0, <1>21, Idle, SpentMoves, SpentFacts, HostedTables
  <2>. QED
    BY <1>0, <1>21, <2>1, SpentFacts, ShapeKeptAway DEF RunOver
<1>22. ASSUME NEW e \in DOMAIN effects, TakeUp(e) PROVE Shape' /\ Tables
  <2>1. Tables
    BY <1>0, <1>22, Idle, Untouched, HostedTables DEF TakeUp
  <2>2. /\ UNCHANGED effects /\ handler.arg = e /\ Delivering
        /\ handler' = [handler EXCEPT !.at = "again"] /\ effects[e].kind = "model"
    BY <1>22 DEF TakeUp, Landing
  <2>3. /\ handler' \in Handler /\ handler'.on = handler.on /\ handler'.arg = e
        /\ handler.on \in DOMAIN sessions /\ effects[e].session = handler.on
        /\ effects[e].status = "succeeded"
    BY <1>0, <2>2 DEF Shape, Bound, TypeOK, Handler
  <2>. QED
    BY <1>0, <1>22, <2>1, <2>2, <2>3, ShapeKept DEF TakeUp
<1>23. ASSUME NEW e \in DOMAIN effects, RetryEffect(e) PROVE Shape' /\ Tables
  <2>1. Tables
    BY <1>0, <1>23, Idle, RetryMoves, HostedTables DEF RetryEffect
  <2>. QED
    BY <1>0, <1>23, <2>1, ShapeKeptAway DEF RetryEffect
<1>24. CASE Crash
  <2>1. Tables
    BY <1>0, <1>24, Idle, CrashMoves, HostedTables DEF Crash
  <2>2. /\ runs' = {} /\ inFlight' = {} /\ handler' = NoHandler
        /\ UNCHANGED <<sent, answers>>
    BY <1>24 DEF Crash
  <2>3. crashes' = crashes + 1 /\ up' = FALSE
    BY <1>24 DEF Crash
  <2>4. crashes' \in Nat
    BY <1>0, <2>3
  <2>. QED
    BY <1>0, <2>1, <2>2, <2>3, <2>4, ShapeKeptAway
<1>25. CASE Boot
  <2>1. Tables
    BY <1>0, <1>25, Idle, BootMoves, HostedTables DEF Boot
  <2>2. /\ handler'.at # "none" => handler'.on \in DOMAIN sessions
        /\ handler' \in Handler
        /\ Delivering' => /\ handler'.arg \in DOMAIN effects
                          /\ effects'[handler'.arg].session = handler'.on
                          /\ effects'[handler'.arg].status = "succeeded"
        /\ handler'.at = "again" => effects'[handler'.arg].kind = "model"
    <3>1. handler' = handler
      BY <1>25 DEF Boot
    <3>2. \A e \in DOMAIN effects : effects[e].status = "succeeded" => effects'[e] = effects[e]
      BY <1>0, <1>25, BootMoves
    <3>. QED
      BY <3>1, <3>2 DEF Shape, Bound, TypeOK
  <2>. QED
    BY <1>0, <1>25, <2>1, <2>2, ShapeKept DEF Boot
<1>26. CASE UNCHANGED vars
  <2>1. Tables
    BY <1>0, <1>26, Idle, Untouched, HostedTables DEF vars
  <2>2. Shape'
    BY <1>26 DEF Shape, TypeOK, Bound, vars
  <2>. QED
    BY <2>1, <2>2
<1>. QED
  BY <1>1, <1>2, <1>3, <1>4, <1>5, <1>6, <1>7, <1>8, <1>9, <1>10, <1>11, <1>12, <1>13,
     <1>14, <1>15, <1>16, <1>17, <1>18, <1>19, <1>20, <1>21, <1>22, <1>23, <1>24, <1>25, <1>26
  DEF Next, Match, Play, Continue, Host, RunEnds, Spent

\* Every variable keeps its type.
THEOREM TypeCorrect == Spec => []TypeOK
<1>1. Spec => []Shape
  BY ShapeInit, ShapeStep, PTL DEF Spec
<1>2. Shape => TypeOK
  BY DEF Shape
<1>. QED
  BY <1>1, <1>2, PTL

-----------------------------------------------------------------------------
(***************************************************************************)
(* The effects.  A row that is not waiting has been claimed once more than *)
(* it was retried, at most; one that waits has no claim left over.         *)
(***************************************************************************)
Counted ==
  \A e \in DOMAIN effects :
    /\ effects[e].claims <= effects[e].attempts + 1
    /\ effects[e].status = "pending" => effects[e].claims <= effects[e].attempts

LEMMA CountedMove ==
  ASSUME NEW old \in Effect, NEW new, Moved(old, new),
         old.claims <= old.attempts + 1, old.status = "pending" => old.claims <= old.attempts
  PROVE  new.claims <= new.attempts + 1 /\ (new.status = "pending" => new.claims <= new.attempts)
<1>1. old.claims \in Nat /\ old.attempts \in Nat
  BY DEF Effect
<1>2. CASE new = old
  BY <1>2
<1>3. CASE Claimed(old, new)
  <2>1. old.status = "pending" /\ new.status = "running"
    BY <1>3 DEF Claimed, Effect
  <2>2. new.claims = old.claims + 1 /\ new.attempts = old.attempts
    BY <1>3 DEF Claimed, Effect
  <2>. QED
    BY <1>1, <2>1, <2>2
<1>4. CASE Ended(old, new) \/ Judged(old, new)
  <2>1. new.claims = old.claims /\ new.attempts = old.attempts
    BY <1>4 DEF Ended, Judged, Effect
  <2>2. new.status = old.status \/ new.status # "pending"
    BY <1>4 DEF Ended, Judged, Effect, Settled
  <2>. QED
    BY <1>1, <2>1, <2>2
<1>5. CASE Retried(old, new)
  <2>1. new.claims = old.claims /\ new.attempts = old.attempts + 1
    BY <1>5 DEF Retried, Effect
  <2>. QED
    BY <1>1, <2>1
<1>. QED
  BY <1>2, <1>3, <1>4, <1>5 DEF Moved

LEMMA CountedStep ==
  ASSUME Shape, Counted, [Next]_vars
  PROVE  Counted'
<1>1. RowsMoved
  BY ShapeStep DEF Tables
<1>2. ASSUME NEW e \in DOMAIN effects'
      PROVE  /\ effects'[e].claims <= effects'[e].attempts + 1
             /\ effects'[e].status = "pending" => effects'[e].claims <= effects'[e].attempts
  <2>1. CASE e \notin DOMAIN effects
    BY <1>1, <2>1 DEF RowsMoved
  <2>2. CASE e \in DOMAIN effects
    <3>1. effects[e] \in Effect /\ Moved(effects[e], effects'[e])
      BY <1>1, <2>2, EffectRow DEF RowsMoved, Shape
    <3>2. /\ effects[e].claims <= effects[e].attempts + 1
          /\ effects[e].status = "pending" => effects[e].claims <= effects[e].attempts
      BY <2>2 DEF Counted
    <3>. QED
      BY <3>1, <3>2, CountedMove
  <2>. QED
    BY <2>1, <2>2
<1>. QED
  BY <1>2 DEF Counted

\* An effect is run once and once more for every retry, never of the host's own
\* accord, however often the process dies.
THEOREM NothingRerunSilently == Spec => []NoSilentRerun
<1>1. Init => Shape /\ Counted
  BY ShapeInit DEF Init, Counted
<1>2. Shape /\ Counted /\ [Next]_vars => (Shape /\ Counted)'
  BY ShapeStep, CountedStep
<1>3. Shape /\ Counted => NoSilentRerun
  BY EffectRow DEF Shape, Counted, NoSilentRerun, Effect
<1>. QED
  BY <1>1, <1>2, <1>3, PTL DEF Spec

\* Away from claims and runs an effect at most stops: it is given up or waits.
Rested ==
  \A e \in DOMAIN effects :
    effects'[e] = effects[e] \/ effects'[e].status \in {"pending", "failed", "cancelled", "unknown"}

Resting ==
  \/ \E due \in BOOLEAN : StartSession(due)
  \/ \E s \in DOMAIN sessions : Finish(s) \/ FinishQuiet(s) \/ RestartFinishes(s) \/ RestartGoesOn(s)
  \/ \E s \in DOMAIN sessions, due \in BOOLEAN :
       \E target \in 0..Revision(s) - 1 : Undo(s, target, due)
  \/ \E m \in sent : SubmitAgain(m) \/ SubmitStale(m) \/ \E t \in Transition : Submit(m, t)
  \/ RestartCancels \/ RestartCreates \/ UndoCancels \/ AdvanceEnds
  \/ \E t \in Transition : ScriptMoves(t)
  \/ \E e \in DOMAIN effects : RetryEffect(e)

LEMMA RestingRests ==
  ASSUME Shape, Resting
  PROVE  Rested /\ UNCHANGED <<up, runs>> /\ ~Delivering
<1>. USE DEF Free, NoHandler
<1>0. TypeOK
  BY DEF Shape
<1>1. ASSUME \/ \E due \in BOOLEAN : StartSession(due)
             \/ \E s \in DOMAIN sessions :
                  Finish(s) \/ FinishQuiet(s) \/ RestartFinishes(s) \/ RestartGoesOn(s)
             \/ \E m \in sent : SubmitAgain(m) \/ SubmitStale(m)
             \/ RestartCreates \/ AdvanceEnds
      PROVE  UNCHANGED <<up, runs, effects>> /\ ~Delivering
  <2>1. CASE \E due \in BOOLEAN : StartSession(due)
    BY <2>1 DEF StartSession
  <2>2. CASE \E s \in DOMAIN sessions : Finish(s) \/ FinishQuiet(s)
    BY <2>2 DEF Finish, FinishQuiet
  <2>3. CASE \E s \in DOMAIN sessions : RestartFinishes(s) \/ RestartGoesOn(s)
    BY <2>3 DEF RestartFinishes, RestartGoesOn
  <2>4. CASE \E m \in sent : SubmitAgain(m) \/ SubmitStale(m)
    BY <2>4 DEF SubmitAgain, SubmitStale
  <2>5. CASE RestartCreates \/ AdvanceEnds
    BY <2>5 DEF RestartCreates, AdvanceEnds
  <2>. QED
    BY <1>1, <2>1, <2>2, <2>3, <2>4, <2>5
<1>2. ASSUME NEW s \in DOMAIN sessions, NEW due \in BOOLEAN, NEW target, Undo(s, target, due)
      PROVE  Rested /\ UNCHANGED <<up, runs>> /\ ~Delivering
  BY <1>2, UndoWrites DEF Undo, Rested
<1>3. ASSUME NEW m \in sent, NEW t \in Transition, Submit(m, t)
      PROVE  Rested /\ UNCHANGED <<up, runs>> /\ ~Delivering
  BY <1>3, SubmitWrites DEF Submit, Rested
<1>4. ASSUME RestartCancels \/ UndoCancels
      PROVE  Rested /\ UNCHANGED <<up, runs>> /\ ~Delivering
  <2>1. Rested
    BY <1>0, <1>4, CancelsMove DEF Rested
  <2>. QED
    BY <1>4, <2>1 DEF RestartCancels, UndoCancels
<1>5. ASSUME NEW t \in Transition, ScriptMoves(t)
      PROVE  Rested /\ UNCHANGED <<up, runs>> /\ ~Delivering
  BY <1>5, ScriptWrites DEF ScriptMoves, Rested
<1>6. ASSUME NEW e \in DOMAIN effects, RetryEffect(e)
      PROVE  Rested /\ UNCHANGED <<up, runs>> /\ ~Delivering
  <2>1. Rested
    BY <1>0, <1>6, RetryMoves DEF Rested
  <2>. QED
    BY <1>6, <2>1 DEF RetryEffect
<1>7. UNCHANGED effects => Rested
  BY DEF Rested
<1>. QED
  BY <1>1, <1>2, <1>3, <1>4, <1>5, <1>6, <1>7 DEF Resting

\* Neither tables nor runs change, and what is held stays in hand.
Still ==
  /\ UNCHANGED <<up, sessions, effects, runs>>
  /\ Delivering' = Delivering /\ handler'.arg = handler.arg

\* The step splits into those above and those that concern a run.
LEMMA StepKinds ==
  ASSUME [Next]_vars
  PROVE  \/ Resting
         \/ Still
         \/ \E e \in DOMAIN effects :
              \/ ClaimTimer(e) \/ ClaimModel(e) \/ RunFails(e) \/ RunAborted(e) \/ RunSucceeds(e)
              \/ Spent(e) \/ \E t \in Transition : Deliver(e, t)
         \/ Crash \/ Boot
<1>1. UNCHANGED handler /\ UNCHANGED <<up, sessions, effects, runs>> => Still
  BY DEF Still
<1>2. ASSUME NEW e \in DOMAIN effects, TakeUp(e) PROVE Still
  BY <1>2 DEF TakeUp, Still, Landing
<1>. QED
  BY <1>1, <1>2 DEF Resting, Next, Match, Play, Continue, Host, RunEnds, Send, Spent, vars

LEMMA RunningStep ==
  ASSUME Shape, RunningIsRun, [Next]_vars
  PROVE  RunningIsRun'
<1>0. TypeOK /\ RowsMoved
  BY ShapeStep DEF Shape, Tables
<1>. SUFFICES ASSUME up', NEW e \in DOMAIN effects', effects'[e].status = "running"
              PROVE  e \in runs'
  BY DEF RunningIsRun
<1>1. e \in DOMAIN effects
  BY <1>0 DEF RowsMoved
<1>2. up /\ effects[e].status = "running" => e \in runs
  BY <1>1 DEF RunningIsRun
<1>3. CASE Resting
  BY <1>1, <1>2, <1>3, RestingRests DEF Rested
<1>4. CASE Still
  BY <1>2, <1>4 DEF Still
<1>5. ASSUME NEW f \in DOMAIN effects, ClaimTimer(f) \/ ClaimModel(f) PROVE e \in runs'
  <2>1. up /\ runs' = runs \cup {f} /\ Claim(f)
    BY <1>5 DEF ClaimTimer, ClaimModel, Claim, Free
  <2>2. e # f => effects'[e] = effects[e]
    BY <1>0, <1>1, <2>1, ClaimMoves
  <2>. QED
    BY <1>2, <2>1, <2>2
<1>6. ASSUME NEW f \in DOMAIN effects, RunFails(f) \/ RunAborted(f) PROVE e \in runs'
  <2>1. PICK status \in {"failed", "cancelled"} : effects' = Mark(f, status)
    BY <1>6 DEF RunFails, RunAborted
  <2>2. effects'[f].status = status /\ (e # f => effects'[e] = effects[e])
    BY <1>0, <1>1, <2>1, MarkMoves DEF Settled
  <2>3. up /\ runs' = runs \ {f}
    BY <1>6 DEF RunFails, RunAborted, RunOver, Free
  <2>. QED
    BY <1>2, <2>1, <2>2, <2>3
<1>7. ASSUME NEW f \in DOMAIN effects, RunSucceeds(f) PROVE e \in runs'
  <2>1. effects'[f].status = "succeeded" /\ (e # f => effects'[e] = effects[e])
    BY <1>0, <1>1, <1>7, MarkMoves DEF RunSucceeds, Settled
  <2>. QED
    BY <1>2, <1>7, <2>1 DEF RunSucceeds, Free
<1>8. ASSUME NEW f \in DOMAIN effects, NEW t \in Transition, Deliver(f, t) PROVE e \in runs'
  <2>1. /\ effects[f].status = "succeeded"
        /\ effects'[f] = [effects[f] EXCEPT !.fate = "heard"]
        /\ e # f => effects'[e] = effects[e]
    BY <1>1, <1>8, DeliverWrites
  <2>2. effects'[f].status = "succeeded"
    BY <1>0, <2>1, EffectRow DEF Effect
  <2>. QED
    BY <1>2, <1>8, <2>1, <2>2 DEF Deliver, RunOver, Landing
<1>9. ASSUME NEW f \in DOMAIN effects, Spent(f) PROVE e \in runs'
  <2>1. effects'[f].status = effects[f].status /\ (e # f => effects'[e] = effects[e])
    BY <1>0, <1>1, <1>9, SpentMoves
  <2>2. Landing(f) /\ RunOver(f)
    BY <1>9, SpentFacts
  <2>3. effects[f].status = "succeeded"
    BY <2>2 DEF Landing, Shape, Bound
  <2>. QED
    BY <1>2, <2>1, <2>2, <2>3 DEF RunOver, Landing
<1>10. CASE Crash
  BY <1>10 DEF Crash
<1>11. CASE Boot
  <2>1. effects'[e] = IF effects[e].status = "running"
                      THEN [effects[e] EXCEPT !.status = "unknown"] ELSE effects[e]
    BY <1>0, <1>1, <1>11, BootMoves
  <2>2. effects[e] \in Effect
    BY <1>0, <1>1, EffectRow
  <2>. QED
    BY <2>1, <2>2 DEF Effect
<1>. QED
  BY <1>3, <1>4, <1>5, <1>6, <1>7, <1>8, <1>9, <1>10, <1>11, StepKinds

\* No row says running without a run, whatever dies, fails, is cancelled or
\* undone.
THEOREM RunningMeansRun == Spec => []RunningIsRun
<1>1. Init => Shape /\ RunningIsRun
  BY ShapeInit DEF Init, RunningIsRun
<1>2. Shape /\ RunningIsRun /\ [Next]_vars => (Shape /\ RunningIsRun)'
  BY ShapeStep, RunningStep
<1>. QED
  BY <1>1, <1>2, PTL DEF Spec

-----------------------------------------------------------------------------
(***************************************************************************)
(* The journals.                                                           *)
(***************************************************************************)

\* Who writes into a journal.
LEMMA WhoWrites ==
  ASSUME Shape, [Next]_vars
  PROVE  \/ UNCHANGED <<sent, answers>> /\ (Unwritten \/ Hosted)
         \/ \E e \in DOMAIN effects, t \in Transition : Deliver(e, t)
         \/ \E r \in Request, s \in DOMAIN sessions : Send(r, s)
         \/ \E m \in sent : SubmitAgain(m) \/ SubmitStale(m) \/ \E t \in Transition : Submit(m, t)
<1>0. TypeOK
  BY DEF Shape
<1>1. CASE UNCHANGED <<sent, answers, sessions>>
  BY <1>0, <1>1, Idle
<1>2. CASE \E due \in BOOLEAN : StartSession(due)
  BY <1>0, <1>2, CreateUnwritten DEF StartSession
<1>3. CASE \E s \in DOMAIN sessions : Finish(s)
  BY <1>0, <1>3, FinishWrites DEF Finish
<1>4. CASE \E s \in DOMAIN sessions : FinishQuiet(s)
  BY <1>0, <1>4, QuietHosted DEF FinishQuiet
<1>5. CASE \E s \in DOMAIN sessions : RestartFinishes(s)
  BY <1>0, <1>5, QuietHosted DEF RestartFinishes
<1>6. CASE \E s \in DOMAIN sessions, due \in BOOLEAN :
             \E target \in 0..Revision(s) - 1 : Undo(s, target, due)
  BY <1>6, UndoWrites DEF Undo
<1>7. CASE RestartCreates
  BY <1>0, <1>7, Idle, CreateUnwritten DEF RestartCreates
<1>8. CASE \E t \in Transition : ScriptMoves(t)
  BY <1>8, ScriptWrites DEF ScriptMoves
<1>9. CASE Play
  BY <1>9 DEF Play
<1>10. CASE \E e \in DOMAIN effects, t \in Transition : Deliver(e, t)
  BY <1>10
<1>11. \/ Play
       \/ UNCHANGED <<sent, answers, sessions>>
       \/ \E due \in BOOLEAN : StartSession(due)
       \/ \E s \in DOMAIN sessions : Finish(s) \/ FinishQuiet(s) \/ RestartFinishes(s)
       \/ \E s \in DOMAIN sessions, due \in BOOLEAN :
             \E target \in 0..Revision(s) - 1 : Undo(s, target, due)
       \/ RestartCreates
       \/ \E t \in Transition : ScriptMoves(t)
       \/ \E e \in DOMAIN effects, t \in Transition : Deliver(e, t)
  <2>1. CASE Match
    BY <2>1 DEF Match, RestartGoesOn
  <2>2. CASE Continue
    BY <2>2 DEF Continue, RestartCancels, UndoCancels, AdvanceEnds,
                    Refused, TooLate, Undelivered, TakeUp
  <2>3. CASE Host
    BY <2>3 DEF Host, RunEnds, ClaimTimer, ClaimModel, RunFails, RunAborted, RunSucceeds, RetryEffect
  <2>4. CASE Crash \/ Boot \/ UNCHANGED vars
    BY <2>4 DEF Crash, Boot, vars
  <2>. QED
    BY <2>1, <2>2, <2>3, <2>4 DEF Next
<1>. QED
  BY <1>1, <1>2, <1>3, <1>4, <1>5, <1>6, <1>7, <1>8, <1>9, <1>10, <1>11

\* A step of a journal that has grown is an old one or the new one.
LEMMA GrownFacts ==
  ASSUME TypeOK, NEW s \in DOMAIN sessions, NEW step \in Step, Grown(s, step)
  PROVE  /\ Revision(s)' = Revision(s) + 1
         /\ DOMAIN sessions'[s].steps = DOMAIN sessions[s].steps \cup {Revision(s) + 1}
         /\ Revision(s) + 1 \notin DOMAIN sessions[s].steps
         /\ \A i \in DOMAIN sessions[s].steps : sessions'[s].steps[i] = sessions[s].steps[i]
         /\ sessions'[s].steps[Revision(s) + 1] = step
<1>. DEFINE old == sessions[s].steps
            new == Append(old, step)
<1>1. old \in Seq(Step) /\ Len(old) = Revision(s) /\ Revision(s) \in Nat
  BY SessionRow DEF Revision
<1>2. sessions'[s].steps = new
  BY DEF Grown
<1>. HIDE DEF old
<1>3. /\ Len(new) = Len(old) + 1
      /\ DOMAIN old = 1..Len(old) /\ DOMAIN new = 1..(Len(old) + 1)
      /\ \A j \in DOMAIN old : new[j] = old[j]
      /\ new[Len(old) + 1] = step
  BY <1>1, Appended
<1>. HIDE DEF new
<1>4. 1..(Len(old) + 1) = 1..Len(old) \cup {Len(old) + 1} /\ Len(old) + 1 \notin 1..Len(old)
  BY <1>1
<1>. QED
  BY <1>1, <1>2, <1>3, <1>4 DEF Revision, old

\* Ticks in the journal are effects of that session, at their moment.
Timely ==
  \A s \in DOMAIN sessions : \A i \in DOMAIN sessions[s].steps :
    LET step == sessions[s].steps[i]
    IN step.kind = "effect_result" =>
         /\ step.by \in DOMAIN effects
         /\ effects[step.by].kind = "timer" =>
              effects[step.by].session = s /\ i = effects[step.by].origin + 1

LEMMA TimelyStep ==
  ASSUME Shape, Timely, [Next]_vars
  PROVE  Timely'
<1>0. TypeOK /\ RowsMoved
  BY ShapeStep DEF Shape, Tables
<1>. SUFFICES ASSUME NEW s \in DOMAIN sessions', NEW i \in DOMAIN sessions'[s].steps,
                     sessions'[s].steps[i].kind = "effect_result"
              PROVE  LET by == sessions'[s].steps[i].by
                     IN /\ by \in DOMAIN effects'
                        /\ effects'[by].kind = "timer" =>
                             effects'[by].session = s /\ i = effects'[by].origin + 1
  BY DEF Timely
<1>1. \A e \in DOMAIN effects :
        /\ e \in DOMAIN effects'
        /\ effects'[e].session = effects[e].session /\ effects'[e].kind = effects[e].kind
        /\ effects'[e].origin = effects[e].origin
  BY <1>0, EffectRow, MovedFacts DEF RowsMoved
<1>2. ASSUME s \in DOMAIN sessions, i \in DOMAIN sessions[s].steps,
             sessions'[s].steps[i] = sessions[s].steps[i]
      PROVE  LET by == sessions'[s].steps[i].by
             IN /\ by \in DOMAIN effects'
                /\ effects'[by].kind = "timer" =>
                     effects'[by].session = s /\ i = effects'[by].origin + 1
  BY <1>1, <1>2 DEF Timely
<1>3. CASE Unwritten
  <2>1. s \in DOMAIN sessions
    BY <1>3, EmptySeq DEF Unwritten
  <2>. QED
    BY <1>2, <1>3, <2>1 DEF Unwritten
<1>4. ASSUME NEW q \in DOMAIN sessions, NEW step \in Step, Grown(q, step)
      PROVE  /\ s \in DOMAIN sessions
             /\ \/ i \in DOMAIN sessions[s].steps /\ sessions'[s].steps[i] = sessions[s].steps[i]
                \/ s = q /\ i = Revision(q) + 1 /\ sessions'[s].steps[i] = step
  <2>1. s \in DOMAIN sessions /\ (s # q => sessions'[s].steps = sessions[s].steps)
    BY <1>4 DEF Grown
  <2>2. CASE s # q
    BY <2>1, <2>2
  <2>3. CASE s = q
    BY <1>0, <1>4, <2>1, <2>3, GrownFacts
  <2>. QED
    BY <2>1, <2>2, <2>3
<1>5. CASE Hosted
  <2>1. PICK q \in DOMAIN sessions, step \in Step :
          step.kind \in {"script", "system", "none"} /\ Grown(q, step)
    BY <1>5 DEF Hosted
  <2>. QED
    BY <1>2, <1>4, <2>1
<1>6. ASSUME NEW m \in sent, NEW t \in Transition, Submit(m, t)
      PROVE  s \in DOMAIN sessions /\ i \in DOMAIN sessions[s].steps
             /\ sessions'[s].steps[i] = sessions[s].steps[i]
  <2>. DEFINE step == [kind |-> "action", by |-> m.request]
  <2>1. m.session \in DOMAIN sessions /\ m.request \in Request /\ Grown(m.session, step)
    BY <1>6, SubmitWrites
  <2>2. step \in Step /\ step.kind = "action"
    BY <2>1 DEF Step
  <2>. HIDE DEF step
  <2>. QED
    BY <1>4, <2>1, <2>2
<1>7. ASSUME NEW e \in DOMAIN effects, NEW t \in Transition, Deliver(e, t)
      PROVE  LET by == sessions'[s].steps[i].by
             IN /\ by \in DOMAIN effects'
                /\ effects'[by].kind = "timer" =>
                     effects'[by].session = s /\ i = effects'[by].origin + 1
  <2>. DEFINE step == [kind |-> "effect_result", by |-> e]
  <2>1. handler.on = effects[e].session /\ handler.on \in DOMAIN sessions /\ Grown(handler.on, step)
    BY <1>7, DeliverWrites
  <2>2. step \in Step /\ step.by = e
    BY <1>0, EffectRow DEF Step
  <2>3. effects[e].kind = "timer" => Revision(handler.on) = effects[e].origin
    BY <1>7 DEF Deliver, MovedOn, Landing, Shape, Bound
  <2>. HIDE DEF step
  <2>4. CASE i \in DOMAIN sessions[s].steps /\ sessions'[s].steps[i] = sessions[s].steps[i]
    BY <1>2, <1>4, <2>1, <2>2, <2>4
  <2>5. CASE s = handler.on /\ i = Revision(handler.on) + 1 /\ sessions'[s].steps[i] = step
    BY <1>1, <2>1, <2>2, <2>3, <2>5
  <2>. QED
    BY <1>4, <2>1, <2>2, <2>4, <2>5
<1>8. CASE UNCHANGED sessions
  BY <1>0, <1>3, <1>8, Idle
<1>9. CASE \E m \in sent : SubmitAgain(m) \/ SubmitStale(m)
  BY <1>8, <1>9 DEF SubmitAgain, SubmitStale
<1>10. CASE \E r \in Request, q \in DOMAIN sessions : Send(r, q)
  BY <1>8, <1>10 DEF Send
<1>. QED
  BY <1>2, <1>3, <1>5, <1>6, <1>7, <1>9, <1>10, WhoWrites

\* A tick changes the game at the moment it was asked for or not at all.
THEOREM TicksAreTimely == Spec => []TicksHitTheirMoment
<1>1. Init => Shape /\ Timely
  BY ShapeInit, EmptySeq DEF Init, Timely
<1>2. Shape /\ Timely /\ [Next]_vars => (Shape /\ Timely)'
  BY ShapeStep, TimelyStep
<1>3. Timely => TicksHitTheirMoment
  BY DEF Timely, TicksHitTheirMoment
<1>. QED
  BY <1>1, <1>2, <1>3, PTL DEF Spec

\* What a request has done, after a journal has stayed or grown.
LEMMA TakenKept ==
  ASSUME NEW s, NEW r, sessions'[s].steps = sessions[s].steps
  PROVE  TakenBy(r, s)' = TakenBy(r, s) /\ Revision(s)' = Revision(s)
BY DEF TakenBy, Revision

LEMMA TakenGrown ==
  ASSUME TypeOK, NEW s \in DOMAIN sessions, NEW step \in Step, Grown(s, step), NEW r
  PROVE  /\ Revision(s)' = Revision(s) + 1
         /\ step = [kind |-> "action", by |-> r] =>
              TakenBy(r, s)' = TakenBy(r, s) \cup {Revision(s) + 1}
         /\ step # [kind |-> "action", by |-> r] => TakenBy(r, s)' = TakenBy(r, s)
<1>. DEFINE Act == [kind |-> "action", by |-> r]
            old == sessions[s].steps
            new == sessions'[s].steps
<1>1. /\ Revision(s)' = Revision(s) + 1
      /\ DOMAIN new = DOMAIN old \cup {Revision(s) + 1}
      /\ Revision(s) + 1 \notin DOMAIN old
      /\ \A i \in DOMAIN old : new[i] = old[i]
      /\ new[Revision(s) + 1] = step
  BY GrownFacts
<1>2. /\ TakenBy(r, s) = {i \in DOMAIN old : old[i] = Act}
      /\ TakenBy(r, s)' = {i \in DOMAIN new : new[i] = Act}
  BY DEF TakenBy
<1>. HIDE DEF Act, old, new
<1>3. /\ step = Act => TakenBy(r, s)' = TakenBy(r, s) \cup {Revision(s) + 1}
      /\ step # Act => TakenBy(r, s)' = TakenBy(r, s)
  BY <1>1, <1>2
<1>. QED
  BY <1>1, <1>3 DEF Act

(***************************************************************************)
(* The answers.  A request is sent for one session and one revision, which *)
(* the session has reached; only requests that were sent are answered or   *)
(* stand in a journal; a request that was refused as stale will be refused *)
(* for ever, since the session has left its revision behind.               *)
(***************************************************************************)
SentOnce == \A m, n \in sent : m.request = n.request => m = n
Reached == \A m \in sent : m.expected <= Revision(m.session)
OnlySent ==
  /\ \A a \in answers : \E m \in sent : m.request = a[1]
  /\ \A s \in DOMAIN sessions, r \in Request :
       TakenBy(r, s) # {} => \E m \in sent : m.request = r /\ m.session = s

\* What is promised to the sender of one message.
Kept(m) ==
  /\ \A i, j \in TakenBy(m.request, m.session) : i = j
  /\ <<m.request, "applied">> \in answers => TakenBy(m.request, m.session) # {}
  /\ <<m.request, "stale">> \in answers =>
       TakenBy(m.request, m.session) = {} /\ m.expected < Revision(m.session)

Honest == SentOnce /\ Reached /\ OnlySent /\ \A m \in sent : Kept(m)

\* A message is typed, and a step that is not its action leaves it alone.
LEMMA SentFacts ==
  ASSUME TypeOK, NEW m \in sent
  PROVE  /\ m.session \in DOMAIN sessions /\ m.request \in Request /\ m.expected \in Nat
         /\ Revision(m.session) \in Nat
<1>1. m.session \in DOMAIN sessions /\ m.request \in Request /\ m.expected \in Nat
  BY DEF TypeOK
<1>. QED
  BY <1>1, SessionRow

\* The journals move on, and none of the actions of people is among the new
\* steps.
NoAction ==
  /\ DOMAIN sessions \subseteq DOMAIN sessions'
  /\ \A s \in DOMAIN sessions, r \in Request :
       /\ TakenBy(r, s)' = TakenBy(r, s)
       /\ Revision(s)' \in Nat /\ Revision(s)' >= Revision(s)
  /\ \A s \in DOMAIN sessions' \ DOMAIN sessions, r \in Request : TakenBy(r, s)' = {}

LEMMA UnwrittenNoAction ==
  ASSUME TypeOK, Unwritten
  PROVE  NoAction
<1>1. ASSUME NEW s \in DOMAIN sessions, NEW r \in Request
      PROVE  /\ TakenBy(r, s)' = TakenBy(r, s)
             /\ Revision(s)' \in Nat /\ Revision(s)' >= Revision(s)
  <2>1. sessions'[s].steps = sessions[s].steps
    BY DEF Unwritten
  <2>2. TakenBy(r, s)' = TakenBy(r, s) /\ Revision(s)' = Revision(s)
    BY <2>1, TakenKept, Zenon
  <2>3. Revision(s) \in Nat
    BY SessionRow
  <2>. QED
    BY <2>2, <2>3
<1>2. ASSUME NEW s \in DOMAIN sessions' \ DOMAIN sessions, NEW r \in Request
      PROVE  TakenBy(r, s)' = {}
  <2>1. sessions'[s].steps = <<>>
    BY DEF Unwritten
  <2>. QED
    BY <2>1, EmptySeq DEF TakenBy
<1>. QED
  BY <1>1, <1>2 DEF NoAction, Unwritten

LEMMA GrownNoAction ==
  ASSUME TypeOK, NEW q \in DOMAIN sessions, NEW step \in Step, step.kind # "action",
         Grown(q, step)
  PROVE  NoAction
<1>1. ASSUME NEW s \in DOMAIN sessions, NEW r \in Request
      PROVE  /\ TakenBy(r, s)' = TakenBy(r, s)
             /\ Revision(s)' \in Nat /\ Revision(s)' >= Revision(s)
  <2>1. Revision(s) \in Nat
    BY SessionRow
  <2>2. CASE s = q
    <3>1. [kind |-> "action", by |-> r].kind = "action"
      OBVIOUS
    <3>2. TakenBy(r, s)' = TakenBy(r, s) /\ Revision(s)' = Revision(s) + 1
      BY <2>2, <3>1, TakenGrown, Zenon
    <3>. QED
      BY <2>1, <3>2
  <2>3. CASE s # q
    <3>1. sessions'[s].steps = sessions[s].steps
      BY <2>3 DEF Grown
    <3>. QED
      BY <2>1, <3>1, TakenKept
  <2>. QED
    BY <2>2, <2>3
<1>. QED
  BY <1>1 DEF NoAction, Grown

LEMMA HonestKept ==
  ASSUME TypeOK, Honest, NoAction, UNCHANGED <<sent, answers>>
  PROVE  Honest'
<1>1. \A m \in sent : /\ m.session \in DOMAIN sessions /\ m.request \in Request /\ m.expected \in Nat
                      /\ Revision(m.session) \in Nat
  BY SentFacts
<1>2. \A m \in sent : /\ TakenBy(m.request, m.session)' = TakenBy(m.request, m.session)
                      /\ Revision(m.session)' \in Nat /\ Revision(m.session)' >= Revision(m.session)
  BY <1>1 DEF NoAction
<1>3. SentOnce'
  BY DEF Honest, SentOnce
<1>4. Reached'
  <2>. SUFFICES ASSUME NEW m \in sent PROVE m.expected <= Revision(m.session)'
    BY DEF Reached
  <2>1. m.expected <= Revision(m.session)
    BY DEF Honest, Reached
  <2>. QED
    BY <1>1, <1>2, <2>1
<1>5. OnlySent'
  BY DEF Honest, OnlySent, NoAction
<1>6. ASSUME NEW m \in sent PROVE Kept(m)'
  <2>1. /\ TakenBy(m.request, m.session)' = TakenBy(m.request, m.session)
        /\ m.expected < Revision(m.session) => m.expected < Revision(m.session)'
    BY <1>1, <1>2
  <2>2. Kept(m)
    BY DEF Honest
  <2>. QED
    BY <2>1, <2>2 DEF Kept
<1>. QED
  BY <1>3, <1>4, <1>5, <1>6 DEF Honest

\* A new request: nobody has heard of it.
LEMMA HonestSend ==
  ASSUME TypeOK, Honest, NEW r \in Request, NEW s \in DOMAIN sessions, Send(r, s)
  PROVE  Honest'
<1>. DEFINE new == [request |-> r, session |-> s, expected |-> Revision(s)]
<1>1. /\ sent' = sent \cup {new} /\ UNCHANGED <<sessions, answers>>
      /\ \A m \in sent : m.request # r
  BY DEF Send
<1>2. new.request = r /\ new.session = s /\ new.expected = Revision(s) /\ Revision(s) \in Nat
  BY SessionRow
<1>. HIDE DEF new
<1>3. SentOnce'
  BY <1>1, <1>2 DEF Honest, SentOnce
<1>4. \A q, k : TakenBy(k, q)' = TakenBy(k, q) /\ Revision(q)' = Revision(q)
  BY <1>1 DEF TakenBy, Revision
<1>5. Reached'
  <2>1. new.expected <= Revision(new.session)
    BY <1>2
  <2>. QED
    BY <1>1, <1>4, <2>1 DEF Honest, Reached
<1>6. OnlySent'
  BY <1>1, <1>4 DEF Honest, OnlySent
<1>7. ASSUME NEW m \in sent' PROVE Kept(m)'
  <2>1. CASE m \in sent
    BY <1>1, <1>4, <2>1 DEF Honest, Kept
  <2>2. CASE m = new
    <3>1. TakenBy(r, s) = {}
      BY <1>1 DEF Honest, OnlySent
    <3>2. \A verdict : <<r, verdict>> \notin answers
      BY <1>1 DEF Honest, OnlySent
    <3>. QED
      BY <1>1, <1>2, <1>4, <2>2, <3>1, <3>2 DEF Kept
  <2>. QED
    BY <1>1, <2>1, <2>2
<1>. QED
  BY <1>3, <1>5, <1>6, <1>7 DEF Honest

\* An answer is given and nothing is written.
LEMMA HonestAnswer ==
  ASSUME TypeOK, Honest, NEW m \in sent, SubmitAgain(m) \/ SubmitStale(m)
  PROVE  Honest'
<1>1. UNCHANGED <<sessions, sent>>
  BY DEF SubmitAgain, SubmitStale
<1>2. \A q, k : TakenBy(k, q)' = TakenBy(k, q) /\ Revision(q)' = Revision(q)
  BY <1>1 DEF TakenBy, Revision
<1>3. PICK verdict \in {"applied", "stale"} :
        /\ answers' = answers \cup {<<m.request, verdict>>}
        /\ verdict = "applied" => TakenBy(m.request, m.session) # {}
        /\ verdict = "stale" => /\ TakenBy(m.request, m.session) = {}
                               /\ m.expected # Revision(m.session)
  BY DEF SubmitAgain, SubmitStale
<1>4. SentOnce' /\ Reached' /\ OnlySent'
  <2>1. \A a \in answers' : \E n \in sent : n.request = a[1]
    BY <1>3 DEF Honest, OnlySent
  <2>. QED
    BY <1>1, <1>2, <2>1 DEF Honest, SentOnce, Reached, OnlySent
<1>5. ASSUME NEW n \in sent PROVE Kept(n)'
  <2>1. Kept(n)
    BY DEF Honest
  <2>2. CASE n = m
    <3>1. m.expected \in Nat /\ Revision(m.session) \in Nat /\ m.expected <= Revision(m.session)
      BY SentFacts DEF Honest, Reached
    <3>2. verdict = "stale" => m.expected < Revision(m.session)
      BY <1>3, <3>1
    <3>. QED
      BY <1>2, <1>3, <2>1, <2>2, <3>2 DEF Kept
  <2>3. CASE n # m
    <3>1. n.request # m.request
      BY <2>3 DEF Honest, SentOnce
    <3>. QED
      BY <1>2, <1>3, <2>1, <3>1 DEF Kept
  <2>. QED
    BY <2>2, <2>3
<1>. QED
  BY <1>1, <1>4, <1>5 DEF Honest

\* An action is applied: once, and for a request that was never refused.
LEMMA HonestSubmit ==
  ASSUME Shape, Honest, NEW m \in sent, NEW t \in Transition, Submit(m, t)
  PROVE  Honest'
<1>. DEFINE step == [kind |-> "action", by |-> m.request]
<1>1. /\ TypeOK /\ m.session \in DOMAIN sessions /\ m.request \in Request
      /\ m.expected \in Nat /\ Revision(m.session) \in Nat
  BY SentFacts DEF Shape
<1>2. Grown(m.session, step)
  BY SubmitWrites
<1>3. step \in Step
  BY <1>1 DEF Step
<1>4. \A r : r # m.request => step # [kind |-> "action", by |-> r]
  BY [kind |-> "action", by |-> m.request].by = m.request,
     \A r : [kind |-> "action", by |-> r].by = r
<1>5. /\ UNCHANGED sent /\ answers' = answers \cup {<<m.request, "applied">>}
      /\ TakenBy(m.request, m.session) = {} /\ m.expected = Revision(m.session)
  BY DEF Submit
<1>6. /\ TakenBy(m.request, m.session)' = {Revision(m.session) + 1}
      /\ Revision(m.session)' = Revision(m.session) + 1
  BY <1>1, <1>2, <1>3, <1>5, TakenGrown
<1>. HIDE DEF step
<1>7. ASSUME NEW q \in DOMAIN sessions, NEW r, r # m.request \/ q # m.session
      PROVE  TakenBy(r, q)' = TakenBy(r, q)
  <2>1. CASE q = m.session
    BY <1>1, <1>2, <1>3, <1>4, <1>7, <2>1, TakenGrown, Zenon
  <2>2. CASE q # m.session
    <3>1. sessions'[q].steps = sessions[q].steps
      BY <1>2, <2>2 DEF Grown
    <3>. QED
      BY <3>1, TakenKept, Zenon
  <2>. QED
    BY <2>1, <2>2
<1>8. ASSUME NEW q \in DOMAIN sessions
      PROVE  Revision(q) \in Nat /\ Revision(q)' \in Nat /\ Revision(q)' >= Revision(q)
  <2>1. Revision(q) \in Nat
    BY <1>1, SessionRow
  <2>2. CASE q = m.session
    BY <1>6, <2>1, <2>2
  <2>3. CASE q # m.session
    <3>1. sessions'[q].steps = sessions[q].steps
      BY <1>2, <2>3 DEF Grown
    <3>2. Revision(q)' = Revision(q)
      BY <3>1, TakenKept, Zenon
    <3>. QED
      BY <2>1, <3>2
  <2>. QED
    BY <2>2, <2>3
<1>9. SentOnce'
  BY <1>5 DEF Honest, SentOnce
<1>10. ASSUME NEW n \in sent
       PROVE  /\ n.session \in DOMAIN sessions /\ n.expected \in Nat
              /\ Revision(n.session) \in Nat /\ Revision(n.session)' \in Nat
              /\ Revision(n.session)' >= Revision(n.session)
  <2>1. n.session \in DOMAIN sessions /\ n.expected \in Nat
    BY <1>1, SentFacts
  <2>. QED
    BY <1>8, <2>1
<1>11. Reached'
  <2>. SUFFICES ASSUME NEW n \in sent PROVE n.expected <= Revision(n.session)'
    BY <1>5 DEF Reached
  <2>1. n.expected <= Revision(n.session)
    BY DEF Honest, Reached
  <2>. QED
    BY <1>10, <2>1
<1>12. OnlySent'
  <2>1. \A a \in answers' : \E n \in sent : n.request = a[1]
    BY <1>5 DEF Honest, OnlySent
  <2>2. ASSUME NEW q \in DOMAIN sessions, NEW r \in Request, TakenBy(r, q)' # {}
        PROVE  \E n \in sent : n.request = r /\ n.session = q
    <3>1. CASE r # m.request \/ q # m.session
      BY <1>7, <2>2, <3>1 DEF Honest, OnlySent
    <3>. QED
      BY <3>1
  <2>3. DOMAIN sessions' = DOMAIN sessions
    BY <1>2 DEF Grown
  <2>. QED
    BY <1>5, <2>1, <2>2, <2>3 DEF OnlySent
<1>13. ASSUME NEW n \in sent PROVE Kept(n)'
  <2>1. Kept(n)
    BY DEF Honest
  <2>2. CASE n = m
    <3>1. <<m.request, "stale">> \notin answers'
      <4>1. <<m.request, "stale">> \notin answers
        BY <1>1, <1>5, <2>1, <2>2 DEF Kept
      <4>. QED
        BY <1>5, <4>1
    <3>. QED
      BY <1>6, <2>2, <3>1 DEF Kept
  <2>3. CASE n # m
    <3>1. n.request # m.request
      BY <2>3 DEF Honest, SentOnce
    <3>2. TakenBy(n.request, n.session)' = TakenBy(n.request, n.session)
      BY <1>7, <1>10, <3>1
    <3>3. n.expected < Revision(n.session) => n.expected < Revision(n.session)'
      BY <1>10
    <3>. QED
      BY <1>5, <2>1, <3>1, <3>2, <3>3 DEF Kept
  <2>. QED
    BY <2>2, <2>3
<1>. QED
  BY <1>5, <1>9, <1>11, <1>12, <1>13 DEF Honest

LEMMA HonestStep ==
  ASSUME Shape, Honest, [Next]_vars
  PROVE  Honest'
<1>0. TypeOK
  BY DEF Shape
<1>1. CASE UNCHANGED <<sent, answers>> /\ Unwritten
  BY <1>0, <1>1, UnwrittenNoAction, HonestKept
<1>2. CASE UNCHANGED <<sent, answers>> /\ Hosted
  <2>1. PICK s \in DOMAIN sessions, step \in Step :
          step.kind \in {"script", "system", "none"} /\ Grown(s, step)
    BY <1>2 DEF Hosted
  <2>. QED
    BY <1>0, <1>2, <2>1, GrownNoAction, HonestKept
<1>3. ASSUME NEW e \in DOMAIN effects, NEW t \in Transition, Deliver(e, t) PROVE Honest'
  <2>. DEFINE step == [kind |-> "effect_result", by |-> e]
  <2>1. handler.on \in DOMAIN sessions /\ Grown(handler.on, step)
    BY <1>3, DeliverWrites
  <2>2. step \in Step /\ step.kind # "action"
    BY <1>0, EffectRow DEF Step
  <2>3. UNCHANGED <<sent, answers>>
    BY <1>3 DEF Deliver
  <2>. HIDE DEF step
  <2>. QED
    BY <1>0, <2>1, <2>2, <2>3, GrownNoAction, HonestKept
<1>. QED
  BY <1>0, <1>1, <1>2, <1>3, HonestSend, HonestAnswer, HonestSubmit, WhoWrites

\* At most one step, counted.
LEMMA CountTaken ==
  ASSUME NEW T, \A i, j \in T : i = j
  PROVE  /\ Cardinality(T) <= 1
         /\ T # {} => Cardinality(T) = 1
         /\ T = {} => Cardinality(T) = 0
<1>1. CASE T = {}
  BY <1>1, FS_EmptySet
<1>2. CASE T # {}
  <2>1. PICK i \in T : TRUE
    BY <1>2
  <2>2. T = {i}
    BY <2>1
  <2>3. Cardinality({i}) = 1
    BY FS_Singleton
  <2>. QED
    BY <1>2, <2>2, <2>3
<1>. QED
  BY <1>1, <1>2

\* No answer is ever belied: however late or often a submission arrives, and
\* whatever is undone, ended, restarted or dies in between.
THEOREM AnswersStayTrue == Spec => []AnswersAreTrue
<1>1. Init => Shape /\ Honest
  BY ShapeInit, EmptySeq DEF Init, Honest, SentOnce, Reached, OnlySent
<1>2. Shape /\ Honest /\ [Next]_vars => (Shape /\ Honest)'
  BY ShapeStep, HonestStep
<1>3. Honest => AnswersAreTrue
  <2>. SUFFICES ASSUME Honest, NEW m \in sent
                PROVE  LET times == Cardinality(TakenBy(m.request, m.session))
                       IN /\ times <= 1
                          /\ <<m.request, "applied">> \in answers => times = 1
                          /\ <<m.request, "stale">> \in answers => times = 0
    BY DEF AnswersAreTrue
  <2>1. Kept(m)
    BY DEF Honest
  <2>. DEFINE T == TakenBy(m.request, m.session)
  <2>2. \A i, j \in T : i = j
    BY <2>1 DEF Kept
  <2>3. /\ <<m.request, "applied">> \in answers => T # {}
        /\ <<m.request, "stale">> \in answers => T = {}
    BY <2>1 DEF Kept
  <2>. HIDE DEF T
  <2>4. /\ Cardinality(T) <= 1
        /\ T # {} => Cardinality(T) = 1
        /\ T = {} => Cardinality(T) = 0
    BY <2>2, CountTaken
  <2>5. /\ Cardinality(T) <= 1
        /\ <<m.request, "applied">> \in answers => Cardinality(T) = 1
        /\ <<m.request, "stale">> \in answers => Cardinality(T) = 0
    BY <2>3, <2>4
  <2>. QED
    BY <2>5 DEF T
<1>. QED
  BY <1>1, <1>2, <1>3, PTL DEF Spec

-----------------------------------------------------------------------------
(***************************************************************************)
(* The ledger of effects.  Every step of a session is a step of            *)
(* EffectLedger or none, once three things are known of the effects: a run *)
(* is of a row that says so, or whose result the handler is about to feed  *)
(* back; a result that has found its fate is never looked at again; and    *)
(* what stands in a journal was heard, once.                               *)
(***************************************************************************)
Holding(e) == Delivering /\ handler.arg = e

Bounded == DOMAIN sessions \subseteq 1..MaxSessions /\ DOMAIN effects \subseteq 1..MaxEffects

Owned == \A e \in runs : up /\ (effects[e].status = "running" \/ Holding(e))

Decided ==
  \A e \in DOMAIN effects :
    effects[e].fate # "open" => effects[e].status = "succeeded" /\ ~Holding(e)

Heard == \A r \in Landed : r.of \in DOMAIN effects /\ effects[r.of].fate = "heard"

Booked == Bounded /\ Owned /\ Decided /\ Heard

\* The results in the journals, one by one.
LEMMA InLanded ==
  ASSUME NEW x
  PROVE  /\ x \in Landed <=>
              \E s \in DOMAIN sessions : \E i \in DOMAIN sessions[s].steps :
                /\ sessions[s].steps[i].kind = "effect_result"
                /\ x = [of |-> sessions[s].steps[i].by, session |-> s, at |-> i]
         /\ x \in Landed' <=>
              \E s \in DOMAIN sessions' : \E i \in DOMAIN sessions'[s].steps :
                /\ sessions'[s].steps[i].kind = "effect_result"
                /\ x = [of |-> sessions'[s].steps[i].by, session |-> s, at |-> i]
BY DEF Landed, Results

\* No journal has a result more or less.
LEMMA LandedKept ==
  ASSUME DOMAIN sessions \subseteq DOMAIN sessions',
         \A s \in DOMAIN sessions : \A i \in DOMAIN sessions[s].steps :
           i \in DOMAIN sessions'[s].steps /\ sessions'[s].steps[i] = sessions[s].steps[i],
         \A s \in DOMAIN sessions' : \A i \in DOMAIN sessions'[s].steps :
           sessions'[s].steps[i].kind = "effect_result" =>
             s \in DOMAIN sessions /\ i \in DOMAIN sessions[s].steps
  PROVE  Landed' = Landed
<1>1. ASSUME NEW x \in Landed PROVE x \in Landed'
  <2>1. PICK s \in DOMAIN sessions : \E i \in DOMAIN sessions[s].steps :
          /\ sessions[s].steps[i].kind = "effect_result"
          /\ x = [of |-> sessions[s].steps[i].by, session |-> s, at |-> i]
    BY <1>1, InLanded
  <2>2. PICK i \in DOMAIN sessions[s].steps :
          /\ sessions[s].steps[i].kind = "effect_result"
          /\ x = [of |-> sessions[s].steps[i].by, session |-> s, at |-> i]
    BY <2>1
  <2>3. /\ s \in DOMAIN sessions' /\ i \in DOMAIN sessions'[s].steps
        /\ sessions'[s].steps[i] = sessions[s].steps[i]
    BY <2>1, <2>2
  <2>. QED
    BY <2>2, <2>3, InLanded
<1>2. ASSUME NEW x \in Landed' PROVE x \in Landed
  <2>1. PICK s \in DOMAIN sessions' : \E i \in DOMAIN sessions'[s].steps :
          /\ sessions'[s].steps[i].kind = "effect_result"
          /\ x = [of |-> sessions'[s].steps[i].by, session |-> s, at |-> i]
    BY <1>2, InLanded
  <2>2. PICK i \in DOMAIN sessions'[s].steps :
          /\ sessions'[s].steps[i].kind = "effect_result"
          /\ x = [of |-> sessions'[s].steps[i].by, session |-> s, at |-> i]
    BY <2>1
  <2>3. /\ s \in DOMAIN sessions /\ i \in DOMAIN sessions[s].steps
        /\ sessions'[s].steps[i] = sessions[s].steps[i]
    BY <2>1, <2>2
  <2>. QED
    BY <2>2, <2>3, InLanded
<1>. QED
  BY <1>1, <1>2

\* A journal that grows gives one result more, or none.
LEMMA LandedGrown ==
  ASSUME TypeOK, NEW s \in DOMAIN sessions, NEW step \in Step, Grown(s, step)
  PROVE  /\ step.kind # "effect_result" => Landed' = Landed
         /\ step.kind = "effect_result" =>
              Landed' = Landed \cup {[of |-> step.by, session |-> s, at |-> Revision(s) + 1]}
<1>0. /\ DOMAIN sessions' = DOMAIN sessions
      /\ \A q \in DOMAIN sessions \ {s} : sessions'[q].steps = sessions[q].steps
      /\ DOMAIN sessions'[s].steps = DOMAIN sessions[s].steps \cup {Revision(s) + 1}
      /\ Revision(s) + 1 \notin DOMAIN sessions[s].steps
      /\ \A i \in DOMAIN sessions[s].steps : sessions'[s].steps[i] = sessions[s].steps[i]
      /\ sessions'[s].steps[Revision(s) + 1] = step
  BY GrownFacts DEF Grown
<1>1. \A q \in DOMAIN sessions : \A i \in DOMAIN sessions[q].steps :
        i \in DOMAIN sessions'[q].steps /\ sessions'[q].steps[i] = sessions[q].steps[i]
  BY <1>0
<1>2. \A q \in DOMAIN sessions' : \A i \in DOMAIN sessions'[q].steps :
        \/ i \in DOMAIN sessions[q].steps
        \/ q = s /\ i = Revision(s) + 1 /\ sessions'[q].steps[i] = step
  BY <1>0
<1>3. CASE step.kind # "effect_result"
  BY <1>0, <1>1, <1>2, <1>3, LandedKept
<1>4. CASE step.kind = "effect_result"
  <2>. DEFINE new == [of |-> step.by, session |-> s, at |-> Revision(s) + 1]
  <2>1. new \in Landed'
    <3>1. /\ Revision(s) + 1 \in DOMAIN sessions'[s].steps /\ s \in DOMAIN sessions'
          /\ sessions'[s].steps[Revision(s) + 1].kind = "effect_result"
          /\ new = [of |-> sessions'[s].steps[Revision(s) + 1].by, session |-> s,
                    at |-> Revision(s) + 1]
      BY <1>0, <1>4
    <3>. QED
      BY <3>1, InLanded, Zenon
  <2>2. ASSUME NEW x \in Landed PROVE x \in Landed'
    <3>1. PICK q \in DOMAIN sessions : \E i \in DOMAIN sessions[q].steps :
            /\ sessions[q].steps[i].kind = "effect_result"
            /\ x = [of |-> sessions[q].steps[i].by, session |-> q, at |-> i]
      BY <2>2, InLanded
    <3>2. PICK i \in DOMAIN sessions[q].steps :
            /\ sessions[q].steps[i].kind = "effect_result"
            /\ x = [of |-> sessions[q].steps[i].by, session |-> q, at |-> i]
      BY <3>1
    <3>3. /\ q \in DOMAIN sessions' /\ i \in DOMAIN sessions'[q].steps
          /\ sessions'[q].steps[i] = sessions[q].steps[i]
      BY <1>0, <1>1, <3>1, <3>2
    <3>. QED
      BY <3>2, <3>3, InLanded
  <2>3. ASSUME NEW x \in Landed' PROVE x \in Landed \/ x = new
    <3>1. PICK q \in DOMAIN sessions' : \E i \in DOMAIN sessions'[q].steps :
            /\ sessions'[q].steps[i].kind = "effect_result"
            /\ x = [of |-> sessions'[q].steps[i].by, session |-> q, at |-> i]
      BY <2>3, InLanded
    <3>2. PICK i \in DOMAIN sessions'[q].steps :
            /\ sessions'[q].steps[i].kind = "effect_result"
            /\ x = [of |-> sessions'[q].steps[i].by, session |-> q, at |-> i]
      BY <3>1
    <3>3. CASE i \in DOMAIN sessions[q].steps
      <4>1. q \in DOMAIN sessions /\ sessions'[q].steps[i] = sessions[q].steps[i]
        BY <1>0, <1>1, <3>1, <3>3
      <4>. QED
        BY <3>2, <3>3, <4>1, InLanded
    <3>4. CASE q = s /\ i = Revision(s) + 1 /\ sessions'[q].steps[i] = step
      BY <3>2, <3>4
    <3>. QED
      BY <1>2, <3>1, <3>2, <3>3, <3>4
  <2>. QED
    BY <1>4, <2>1, <2>2, <2>3
<1>. QED
  BY <1>3, <1>4

\* Only a delivery puts a result into a journal.
LEMMA NoLanding ==
  ASSUME Shape, [Next]_vars, ~Delivering \/ UNCHANGED sessions
  PROVE  Landed' = Landed
<1>0. TypeOK
  BY DEF Shape
<1>1. CASE UNCHANGED sessions
  BY <1>1, LandedKept
<1>2. CASE Unwritten
  BY <1>2, EmptySeq, LandedKept DEF Unwritten
<1>3. CASE Hosted
  <2>1. PICK s \in DOMAIN sessions, step \in Step :
          step.kind \in {"script", "system", "none"} /\ Grown(s, step)
    BY <1>3 DEF Hosted
  <2>. QED
    BY <1>0, <2>1, LandedGrown
<1>4. ASSUME NEW m \in sent, NEW t \in Transition, Submit(m, t) PROVE Landed' = Landed
  <2>. DEFINE step == [kind |-> "action", by |-> m.request]
  <2>1. m.session \in DOMAIN sessions /\ m.request \in Request /\ Grown(m.session, step)
    BY <1>4, SubmitWrites
  <2>2. step \in Step /\ step.kind # "effect_result"
    BY <2>1 DEF Step
  <2>. HIDE DEF step
  <2>. QED
    BY <1>0, <2>1, <2>2, LandedGrown
<1>5. CASE \E m \in sent : SubmitAgain(m) \/ SubmitStale(m)
  BY <1>1, <1>5 DEF SubmitAgain, SubmitStale
<1>6. CASE \E r \in Request, s \in DOMAIN sessions : Send(r, s)
  BY <1>1, <1>6 DEF Send
<1>7. CASE \E e \in DOMAIN effects, t \in Transition : Deliver(e, t)
  BY <1>1, <1>7 DEF Deliver, Landing
<1>. QED
  BY <1>2, <1>3, <1>4, <1>5, <1>6, <1>7, WhoWrites

\* What a step away from claims and runs does to the rows.
LEMMA RestingRows ==
  ASSUME Shape, Resting
  PROVE  /\ ~Delivering'
         /\ \/ UNCHANGED effects
            \/ \E s \in DOMAIN sessions :
                 AskedBy(s) /\ \A e \in DOMAIN effects : effects'[e] = effects[e]
            \/ RestartCancels \/ UndoCancels
            \/ \E e \in DOMAIN effects : RetryEffect(e)
<1>. USE DEF Free, NoHandler
<1>1. ASSUME \/ \E due \in BOOLEAN : StartSession(due)
             \/ \E s \in DOMAIN sessions :
                  Finish(s) \/ FinishQuiet(s) \/ RestartFinishes(s) \/ RestartGoesOn(s)
             \/ \E m \in sent : SubmitAgain(m) \/ SubmitStale(m)
             \/ RestartCreates \/ AdvanceEnds
      PROVE  UNCHANGED effects /\ ~Delivering'
  <2>1. CASE \E due \in BOOLEAN : StartSession(due)
    BY <2>1 DEF StartSession
  <2>2. CASE \E s \in DOMAIN sessions : Finish(s) \/ FinishQuiet(s)
    BY <2>2 DEF Finish, FinishQuiet
  <2>3. CASE \E s \in DOMAIN sessions : RestartFinishes(s) \/ RestartGoesOn(s)
    BY <2>3 DEF RestartFinishes, RestartGoesOn
  <2>4. CASE \E m \in sent : SubmitAgain(m) \/ SubmitStale(m)
    BY <2>4 DEF SubmitAgain, SubmitStale, Advance
  <2>5. CASE RestartCreates \/ AdvanceEnds
    BY <2>5 DEF RestartCreates, AdvanceEnds
  <2>. QED
    BY <1>1, <2>1, <2>2, <2>3, <2>4, <2>5
<1>2. ASSUME NEW s \in DOMAIN sessions, NEW due \in BOOLEAN, NEW target, Undo(s, target, due)
      PROVE  /\ AskedBy(s) /\ ~Delivering'
             /\ \A e \in DOMAIN effects : effects'[e] = effects[e]
  BY <1>2, UndoWrites DEF Undo
<1>3. ASSUME NEW m \in sent, NEW t \in Transition, Submit(m, t)
      PROVE  /\ m.session \in DOMAIN sessions /\ AskedBy(m.session) /\ ~Delivering'
             /\ \A e \in DOMAIN effects : effects'[e] = effects[e]
  BY <1>3, SubmitWrites DEF Submit, Advance
<1>4. ASSUME RestartCancels \/ UndoCancels PROVE ~Delivering'
  BY <1>4 DEF RestartCancels, UndoCancels, Shape, TypeOK, Handler
<1>5. ASSUME NEW t \in Transition, ScriptMoves(t)
      PROVE  /\ handler.on \in DOMAIN sessions /\ AskedBy(handler.on) /\ ~Delivering'
             /\ \A e \in DOMAIN effects : effects'[e] = effects[e]
  BY <1>5, ScriptWrites DEF ScriptMoves, Advance
<1>6. ASSUME NEW e \in DOMAIN effects, RetryEffect(e) PROVE ~Delivering'
  BY <1>6 DEF RetryEffect
<1>. QED
  BY <1>1, <1>2, <1>3, <1>4, <1>5, <1>6 DEF Resting

\* A row whose result has found its fate never changes again.
LEMMA RowsKept ==
  ASSUME Shape, Owned, Decided, [Next]_vars,
         NEW e \in DOMAIN effects, effects[e].fate # "open"
  PROVE  effects'[e] = effects[e]
<1>0. TypeOK /\ effects[e].status = "succeeded" /\ ~Holding(e)
  BY DEF Shape, Decided
<1>1. CASE Resting
  <2>1. CASE RestartCancels \/ UndoCancels
    BY <1>0, <2>1, CancelsMove
  <2>2. ASSUME NEW f \in DOMAIN effects, RetryEffect(f) PROVE effects'[e] = effects[e]
    <3>1. e # f
      BY <1>0, <2>2 DEF RetryEffect
    <3>. QED
      BY <1>0, <2>2, <3>1, RetryMoves
  <2>. QED
    BY <1>1, <2>1, <2>2, RestingRows
<1>2. ASSUME NEW f \in DOMAIN effects, ClaimTimer(f) \/ ClaimModel(f)
      PROVE  effects'[e] = effects[e]
  <2>1. Claim(f) /\ e # f
    BY <1>0, <1>2 DEF ClaimTimer, ClaimModel, Claim
  <2>. QED
    BY <1>0, <2>1, ClaimMoves
<1>3. ASSUME NEW f \in DOMAIN effects, RunFails(f) \/ RunAborted(f) \/ RunSucceeds(f)
      PROVE  effects'[e] = effects[e]
  <2>1. PICK status \in Settled : effects' = Mark(f, status)
    BY <1>3 DEF RunFails, RunAborted, RunSucceeds, Settled
  <2>2. e # f
    BY <1>0, <1>3 DEF RunFails, RunAborted, RunSucceeds, Owned
  <2>. QED
    BY <1>0, <2>1, <2>2, MarkMoves
<1>4. ASSUME NEW f \in DOMAIN effects, Spent(f) PROVE effects'[e] = effects[e]
  <2>1. e # f
    BY <1>0, <1>4, SpentFacts DEF Landing, Holding
  <2>. QED
    BY <1>0, <1>4, <2>1, SpentMoves
<1>5. ASSUME NEW f \in DOMAIN effects, NEW t \in Transition, Deliver(f, t)
      PROVE  effects'[e] = effects[e]
  <2>1. e # f
    BY <1>0, <1>5 DEF Deliver, Landing, Holding
  <2>. QED
    BY <1>5, <2>1, DeliverWrites
<1>6. CASE Crash
  BY <1>0, <1>6, CrashMoves DEF Holding
<1>7. CASE Boot
  BY <1>0, <1>7, BootMoves
<1>. QED
  BY <1>1, <1>2, <1>3, <1>4, <1>5, <1>6, <1>7, StepKinds DEF Still

\* The parts of the invariant, step by step.
LEMMA OwnedStep ==
  ASSUME Shape, Owned, [Next]_vars
  PROVE  Owned'
<1>0. TypeOK /\ runs \subseteq DOMAIN effects
  BY DEF Shape, TypeOK
<1>. SUFFICES ASSUME NEW e \in runs'
              PROVE  up' /\ (effects'[e].status = "running" \/ Holding(e)')
  BY DEF Owned
<1>1. CASE Resting
  <2>1. up' /\ e \in runs /\ e \in DOMAIN effects /\ effects[e].status = "running"
    BY <1>0, <1>1, RestingRests DEF Owned, Holding
  <2>2. CASE RestartCancels \/ UndoCancels
    BY <1>0, <2>1, <2>2, CancelsMove
  <2>3. ASSUME NEW f \in DOMAIN effects, RetryEffect(f) PROVE effects'[e] = effects[e]
    <3>1. e # f
      BY <2>1, <2>3 DEF RetryEffect, Settled
    <3>. QED
      BY <1>0, <2>1, <2>3, <3>1, RetryMoves
  <2>. QED
    BY <1>1, <2>1, <2>2, <2>3, RestingRows
<1>2. CASE Still
  BY <1>2 DEF Still, Owned, Holding
<1>3. ASSUME NEW f \in DOMAIN effects, ClaimTimer(f) \/ ClaimModel(f)
      PROVE  up' /\ effects'[e].status = "running"
  <2>1. Claim(f) /\ up' /\ e \in runs \cup {f} /\ handler = NoHandler
    BY <1>3 DEF ClaimTimer, ClaimModel, Claim, Free
  <2>2. e # f => effects[e].status = "running" /\ e \in DOMAIN effects
    BY <1>0, <2>1 DEF Owned, Holding, NoHandler
  <2>. QED
    BY <1>0, <2>1, <2>2, ClaimMoves
<1>4. ASSUME NEW f \in DOMAIN effects, RunFails(f) \/ RunAborted(f) \/ RunSucceeds(f)
      PROVE  up' /\ (effects'[e].status = "running" \/ Holding(e)')
  <2>1. PICK status \in Settled : effects' = Mark(f, status)
    BY <1>4 DEF RunFails, RunAborted, RunSucceeds, Settled
  <2>2. up' /\ e \in runs /\ e \in DOMAIN effects /\ effects[e].status = "running"
    BY <1>0, <1>4 DEF RunFails, RunAborted, RunSucceeds, RunOver, Free, NoHandler, Owned, Holding
  <2>3. CASE e # f
    BY <1>0, <2>1, <2>2, <2>3, MarkMoves
  <2>4. CASE e = f
    <3>1. RunSucceeds(e)
      BY <1>4, <2>4 DEF RunFails, RunAborted, RunOver
    <3>. QED
      BY <2>2, <3>1 DEF RunSucceeds, Holding
  <2>. QED
    BY <2>3, <2>4
<1>5. ASSUME NEW f \in DOMAIN effects, Spent(f)
      PROVE  up' /\ effects'[e].status = "running"
  <2>1. up' /\ e \in runs /\ e # f /\ Holding(f)
    BY <1>5, SpentFacts DEF RunOver, Landing, Holding
  <2>2. e \in DOMAIN effects /\ effects[e].status = "running"
    BY <1>0, <2>1 DEF Owned, Holding
  <2>. QED
    BY <1>0, <1>5, <2>1, <2>2, SpentMoves
<1>6. ASSUME NEW f \in DOMAIN effects, NEW t \in Transition, Deliver(f, t)
      PROVE  up' /\ effects'[e].status = "running"
  <2>1. up' /\ e \in runs /\ e # f /\ Holding(f)
    BY <1>6 DEF Deliver, RunOver, Landing, Holding
  <2>2. e \in DOMAIN effects /\ effects[e].status = "running"
    BY <1>0, <2>1 DEF Owned, Holding
  <2>. QED
    BY <1>6, <2>1, <2>2, DeliverWrites
<1>7. CASE Crash
  BY <1>7 DEF Crash
<1>8. CASE Boot
  BY <1>8 DEF Boot, Owned
<1>. QED
  BY <1>1, <1>2, <1>3, <1>4, <1>5, <1>6, <1>7, <1>8, StepKinds

\* A row that changes its status keeps its fate.
LEMMA FateKept ==
  ASSUME NEW old \in Effect, NEW new, Moved(old, new), new.status # old.status
  PROVE  new.fate = old.fate
BY DEF Moved, Claimed, Ended, Judged, Retried, Effect

LEMMA DecidedStep ==
  ASSUME Shape, Owned, Decided, [Next]_vars
  PROVE  Decided'
<1>0. TypeOK /\ RowsMoved /\ DOMAIN effects \subseteq DOMAIN effects'
  BY ShapeStep DEF Shape, Tables, RowsMoved
<1>. SUFFICES ASSUME NEW e \in DOMAIN effects', effects'[e].fate # "open"
              PROVE  effects'[e].status = "succeeded" /\ ~Holding(e)'
  BY DEF Decided
<1>1. e \in DOMAIN effects => effects[e] \in Effect /\ Moved(effects[e], effects'[e])
  BY <1>0, EffectRow DEF RowsMoved
<1>2. e \in DOMAIN effects /\ effects[e].fate # "open" =>
        effects'[e] = effects[e] /\ effects[e].status = "succeeded" /\ ~Holding(e)
  BY RowsKept DEF Decided
<1>3. e \in DOMAIN effects /\ effects'[e] = effects[e] =>
        effects'[e].status = "succeeded" /\ ~Holding(e)
  BY <1>2
<1>4. e \in DOMAIN effects /\ effects'[e].status # effects[e].status =>
        effects'[e].status = "succeeded" /\ ~Holding(e)
  BY <1>1, <1>2, FateKept
<1>5. CASE Resting
  <2>1. ~Delivering'
    BY <1>5, RestingRows
  <2>2. CASE UNCHANGED effects
    BY <1>3, <2>1, <2>2 DEF Holding
  <2>3. ASSUME NEW s, AskedBy(s), \A f \in DOMAIN effects : effects'[f] = effects[f]
        PROVE  effects'[e].status = "succeeded" /\ ~Holding(e)'
    BY <1>3, <2>1, <2>3 DEF AskedBy, Holding
  <2>4. CASE RestartCancels \/ UndoCancels
    <3>1. e \in DOMAIN effects
      BY <1>0, <2>4, CancelsMove
    <3>2. effects'[e] = effects[e] \/ effects'[e].status # effects[e].status
      BY <1>0, <2>4, <3>1, CancelsMove
    <3>. QED
      BY <1>3, <1>4, <2>1, <3>1, <3>2 DEF Holding
  <2>5. ASSUME NEW f \in DOMAIN effects, RetryEffect(f)
        PROVE  effects'[e].status = "succeeded" /\ ~Holding(e)'
    <3>1. /\ e \in DOMAIN effects
          /\ effects'[e] = effects[e] \/ effects'[e].status = "pending"
          /\ effects[f].status # "pending" /\ (e # f => effects'[e] = effects[e])
      BY <1>0, <2>5, RetryMoves DEF RetryEffect, Settled
    <3>2. effects'[e] = effects[e] \/ effects'[e].status # effects[e].status
      BY <3>1
    <3>. QED
      BY <1>3, <1>4, <2>1, <3>1, <3>2 DEF Holding
  <2>. QED
    BY <1>5, <2>2, <2>3, <2>4, <2>5, RestingRows
<1>6. CASE Still
  BY <1>3, <1>6 DEF Still, Holding
<1>7. ASSUME NEW f \in DOMAIN effects, ClaimTimer(f) \/ ClaimModel(f)
      PROVE  effects'[e].status = "succeeded" /\ ~Holding(e)'
  <2>1. Claim(f) /\ effects[f].status = "pending" /\ handler' = handler
    BY <1>7 DEF ClaimTimer, ClaimModel, Claim
  <2>2. /\ e \in DOMAIN effects
        /\ effects'[e] = effects[e] \/ effects'[e].status # effects[e].status
    BY <1>0, <2>1, ClaimMoves
  <2>. QED
    BY <1>3, <1>4, <2>1, <2>2 DEF Holding
<1>8. ASSUME NEW f \in DOMAIN effects, RunFails(f) \/ RunAborted(f) \/ RunSucceeds(f)
      PROVE  effects'[e].status = "succeeded" /\ ~Holding(e)'
  <2>1. PICK status \in Settled : effects' = Mark(f, status)
    BY <1>8 DEF RunFails, RunAborted, RunSucceeds, Settled
  <2>2. f \in runs /\ effects[f].status = "running"
    BY <1>8 DEF RunFails, RunAborted, RunSucceeds, Free, NoHandler, Owned, Holding
  <2>3. /\ DOMAIN effects' = DOMAIN effects /\ effects'[f].status = status
        /\ e # f => effects'[e] = effects[e]
    BY <1>0, <2>1, MarkMoves
  <2>4. e # f
    BY <1>1, <1>2, <2>2, <2>3, FateKept DEF Settled
  <2>5. handler' = handler \/ handler'.arg = f
    BY <1>8 DEF RunFails, RunAborted, RunSucceeds
  <2>. QED
    BY <1>3, <2>3, <2>4, <2>5 DEF Holding
<1>9. ASSUME NEW f \in DOMAIN effects, Spent(f)
      PROVE  effects'[e].status = "succeeded" /\ ~Holding(e)'
  <2>1. handler' = NoHandler /\ Holding(f) /\ effects[f].status = "succeeded"
    BY <1>9, SpentFacts DEF Landing, Holding, Shape, Bound
  <2>2. /\ e \in DOMAIN effects /\ (e # f => effects'[e] = effects[e])
        /\ effects'[f].status = effects[f].status
    BY <1>0, <1>9, SpentMoves
  <2>. QED
    BY <1>3, <2>1, <2>2 DEF Holding, NoHandler
<1>10. ASSUME NEW f \in DOMAIN effects, NEW t \in Transition, Deliver(f, t)
       PROVE  effects'[e].status = "succeeded" /\ ~Holding(e)'
  <2>1. /\ handler' = NoHandler /\ effects[f].status = "succeeded" /\ AskedBy(handler.on)
        /\ effects'[f] = [effects[f] EXCEPT !.fate = "heard"]
        /\ \A g \in DOMAIN effects \ {f} : effects'[g] = effects[g]
    BY <1>10, DeliverWrites DEF Deliver
  <2>2. e \in DOMAIN effects
    BY <2>1 DEF AskedBy
  <2>3. effects'[f].status = "succeeded"
    BY <1>0, <2>1, EffectRow DEF Effect
  <2>. QED
    BY <1>3, <2>1, <2>2, <2>3 DEF Holding, NoHandler
<1>11. CASE Crash
  <2>1. handler' = NoHandler /\ e \in DOMAIN effects
    BY <1>11, CrashMoves DEF Crash
  <2>2. /\ effects'[e] = effects[e] \/ effects'[e].status = "succeeded"
    BY <1>11, <2>1, CrashMoves
  <2>. QED
    BY <1>3, <2>1, <2>2 DEF Holding, NoHandler
<1>12. CASE Boot
  <2>1. handler' = handler /\ e \in DOMAIN effects
    BY <1>0, <1>12, BootMoves DEF Boot
  <2>2. effects'[e] = effects[e] \/ effects'[e].status # effects[e].status
    BY <1>0, <1>1, <1>12, <2>1, BootMoves DEF Effect
  <2>. QED
    BY <1>3, <1>4, <2>1, <2>2 DEF Holding
<1>. QED
  BY <1>5, <1>6, <1>7, <1>8, <1>9, <1>10, <1>11, <1>12, StepKinds

\* A delivery is the landing of its effect.
LEMMA DeliveredLands ==
  ASSUME Shape, NEW e \in DOMAIN effects, NEW t \in Transition, Deliver(e, t)
  PROVE  /\ handler.on = effects[e].session
         /\ Landed' = Landed \cup
                        {[of |-> e, session |-> handler.on, at |-> Revision(handler.on) + 1]}
<1>. DEFINE step == [kind |-> "effect_result", by |-> e]
<1>1. /\ TypeOK /\ handler.on = effects[e].session
      /\ handler.on \in DOMAIN sessions /\ Grown(handler.on, step)
  BY DeliverWrites DEF Shape
<1>2. step \in Step /\ step.by = e /\ step.kind = "effect_result"
  BY <1>1, EffectRow DEF Step
<1>. HIDE DEF step
<1>. QED
  BY <1>1, <1>2, LandedGrown

LEMMA HeardStep ==
  ASSUME Shape, Owned, Decided, Heard, [Next]_vars
  PROVE  Heard'
<1>0. DOMAIN effects \subseteq DOMAIN effects'
  BY ShapeStep DEF Shape, Tables, RowsMoved
<1>1. \A r \in Landed : r.of \in DOMAIN effects' /\ effects'[r.of].fate = "heard"
  BY <1>0, RowsKept DEF Heard
<1>2. CASE Landed' = Landed
  BY <1>1, <1>2 DEF Heard
<1>3. ASSUME NEW e \in DOMAIN effects, NEW t \in Transition, Deliver(e, t)
      PROVE  Heard'
  <2>1. /\ effects'[e].fate = "heard"
    BY <1>3, DeliverWrites, EffectRow DEF Effect, Shape
  <2>2. Landed' = Landed \cup
          {[of |-> e, session |-> handler.on, at |-> Revision(handler.on) + 1]}
    BY <1>3, DeliveredLands
  <2>. QED
    BY <1>0, <1>1, <2>1, <2>2 DEF Heard
<1>4. \/ ~Delivering \/ UNCHANGED sessions
      \/ \E e \in DOMAIN effects, t \in Transition : Deliver(e, t)
  <2>1. \A e \in DOMAIN effects : \/ ClaimTimer(e) \/ ClaimModel(e) \/ RunFails(e)
                                  \/ RunAborted(e) \/ RunSucceeds(e) \/ Spent(e)
                                  => UNCHANGED sessions
    BY SpentFacts DEF ClaimTimer, ClaimModel, RunFails, RunAborted, RunSucceeds
  <2>2. Crash \/ Boot => UNCHANGED sessions
    BY DEF Crash, Boot
  <2>. QED
    BY <2>1, <2>2, StepKinds, RestingRests DEF Still
<1>. QED
  BY <1>2, <1>3, <1>4, NoLanding

LEMMA BoundedStep ==
  ASSUME Shape, Bounded, [Next]_vars
  PROVE  Bounded'
<1>0. TypeOK
  BY DEF Shape
<1>1. DOMAIN sessions' \subseteq 1..MaxSessions
  <2>1. CASE Unwritten \/ Hosted
    BY <2>1 DEF Unwritten, Hosted, Grown, Bounded
  <2>2. ASSUME NEW e \in DOMAIN effects, NEW t \in Transition, Deliver(e, t)
        PROVE  DOMAIN sessions' = DOMAIN sessions
    BY <2>2, DeliverWrites DEF Grown
  <2>3. ASSUME NEW m \in sent, NEW t \in Transition, Submit(m, t)
        PROVE  DOMAIN sessions' = DOMAIN sessions
    BY <2>3, SubmitWrites DEF Grown
  <2>4. CASE \/ \E r \in Request, s \in DOMAIN sessions : Send(r, s)
             \/ \E m \in sent : SubmitAgain(m) \/ SubmitStale(m)
    BY <2>4 DEF Send, SubmitAgain, SubmitStale, Bounded
  <2>. QED
    BY <2>1, <2>2, <2>3, <2>4, WhoWrites DEF Bounded
<1>2. DOMAIN effects' \subseteq 1..MaxEffects
  <2>1. CASE Resting
    <3>1. CASE RestartCancels \/ UndoCancels
      BY <1>0, <3>1, CancelsMove DEF Bounded
    <3>2. ASSUME NEW e \in DOMAIN effects, RetryEffect(e) PROVE DOMAIN effects' = DOMAIN effects
      BY <1>0, <3>2, RetryMoves
    <3>. QED
      BY <2>1, <3>1, <3>2, RestingRows DEF Bounded, AskedBy
  <2>2. ASSUME NEW e \in DOMAIN effects, ClaimTimer(e) \/ ClaimModel(e)
        PROVE  DOMAIN effects' = DOMAIN effects
    BY <1>0, <2>2, ClaimMoves DEF ClaimTimer, ClaimModel
  <2>3. ASSUME NEW e \in DOMAIN effects, RunFails(e) \/ RunAborted(e) \/ RunSucceeds(e)
        PROVE  DOMAIN effects' = DOMAIN effects
    <3>1. PICK status \in Settled : effects' = Mark(e, status)
      BY <2>3 DEF RunFails, RunAborted, RunSucceeds, Settled
    <3>. QED
      BY <1>0, <3>1, MarkMoves
  <2>4. ASSUME NEW e \in DOMAIN effects, Spent(e) PROVE DOMAIN effects' = DOMAIN effects
    BY <1>0, <2>4, SpentMoves
  <2>5. ASSUME NEW e \in DOMAIN effects, NEW t \in Transition, Deliver(e, t)
        PROVE  DOMAIN effects' \subseteq 1..MaxEffects
    BY <2>5, DeliverWrites DEF AskedBy
  <2>6. CASE Crash \/ Boot
    BY <1>0, <2>6, CrashMoves, BootMoves DEF Bounded
  <2>. QED
    BY <2>1, <2>2, <2>3, <2>4, <2>5, <2>6, StepKinds DEF Bounded, Still
<1>. QED
  BY <1>1, <1>2 DEF Bounded

\* What is read of the rows, now and after the step.
LEMMA RowsRead ==
  /\ StatusOf = [e \in 1..MaxEffects |-> IF e \in DOMAIN effects THEN effects[e].status ELSE "none"]
  /\ HomeOf = [e \in 1..MaxEffects |-> IF e \in DOMAIN effects THEN effects[e].session ELSE 0]
  /\ StatusOf' = [e \in 1..MaxEffects |->
                    IF e \in DOMAIN effects' THEN effects'[e].status ELSE "none"]
  /\ HomeOf' = [e \in 1..MaxEffects |->
                  IF e \in DOMAIN effects' THEN effects'[e].session ELSE 0]
BY DEF StatusOf, HomeOf

\* An effect stays with its match.
LEMMA HomesKept ==
  ASSUME TypeOK, RowsMoved
  PROVE  \A e \in DOMAIN effects : e \in DOMAIN effects' /\ effects'[e].session = effects[e].session
BY EffectRow, MovedFacts DEF RowsMoved

\* Some rows take a new status and the rest stays.
LEMMA Becomes ==
  ASSUME TypeOK, RowsMoved, DOMAIN effects' = DOMAIN effects, Landed' = Landed,
         NEW E \in SUBSET DOMAIN effects, NEW new,
         \A e \in DOMAIN effects :
           effects'[e].status = IF e \in E THEN new ELSE effects[e].status
  PROVE  Ledger!Become(E, new)
<1>1. \A e \in DOMAIN effects : effects'[e].session = effects[e].session
  BY HomesKept
<1>2. HomeOf' = HomeOf
  BY <1>1, RowsRead
<1>3. StatusOf' = [e \in 1..MaxEffects |-> IF e \in E THEN new ELSE StatusOf[e]]
  BY RowsRead
<1>. QED
  BY <1>2, <1>3 DEF Ledger!Become

\* Fates are no matter of the ledger.
LEMMA Stays ==
  ASSUME TypeOK, RowsMoved, DOMAIN effects' = DOMAIN effects, Landed' = Landed,
         \A e \in DOMAIN effects : effects'[e].status = effects[e].status
  PROVE  UNCHANGED Ledger!ledgerVars
<1>1. \A e \in DOMAIN effects : effects'[e].session = effects[e].session
  BY HomesKept
<1>2. StatusOf' = StatusOf /\ HomeOf' = HomeOf
  BY <1>1, RowsRead
<1>. QED
  BY <1>2 DEF Ledger!ledgerVars

\* New rows are an asking of their match.
LEMMA Asks ==
  ASSUME TypeOK, RowsMoved, Bounded, NEW s, AskedBy(s),
         \A e \in DOMAIN effects : effects'[e].status = effects[e].status
  PROVE  \E E \in SUBSET (1..MaxEffects) : Ledger!Ask(s, E)
<1>. DEFINE E == DOMAIN effects' \ DOMAIN effects
<1>1. /\ DOMAIN effects \subseteq DOMAIN effects' /\ DOMAIN effects' \subseteq 1..MaxEffects
      /\ \A e \in E : effects'[e].session = s /\ effects'[e].status = "pending"
  BY DEF AskedBy
<1>2. \A e \in DOMAIN effects : effects'[e].session = effects[e].session
  BY HomesKept
<1>3. E \in SUBSET (1..MaxEffects)
  BY <1>1
<1>4. \A e \in E : StatusOf[e] = "none"
  BY <1>1, RowsRead
<1>5. StatusOf' = [e \in 1..MaxEffects |-> IF e \in E THEN "pending" ELSE StatusOf[e]]
  BY <1>1, RowsRead
<1>6. HomeOf' = [e \in 1..MaxEffects |-> IF e \in E THEN s ELSE HomeOf[e]]
  BY <1>1, <1>2, RowsRead
<1>. HIDE DEF E
<1>. QED
  BY <1>3, <1>4, <1>5, <1>6 DEF Ledger!Ask

\* Every step of a session is a step of the ledger or none.
LEMMA LedgerStep ==
  ASSUME Shape, Booked, [Next]_vars
  PROVE  [Ledger!LedgerNext]_(Ledger!ledgerVars)
<1>. DEFINE Goal == [Ledger!LedgerNext]_(Ledger!ledgerVars)
<1>0. /\ TypeOK /\ RowsMoved /\ Bounded /\ Owned /\ Decided /\ Heard
      /\ \A e \in DOMAIN effects : e \in 1..MaxEffects /\ StatusOf[e] = effects[e].status
      /\ \A e \in DOMAIN effects : HomeOf[e] = effects[e].session
  BY ShapeStep, RowsRead DEF Shape, Tables, Booked, Bounded
<1>1. ASSUME UNCHANGED effects, Landed' = Landed PROVE Goal
  BY <1>1, RowsRead DEF Ledger!ledgerVars
<1>2. CASE Resting
  <2>1. Landed' = Landed
    BY <1>2, RestingRests, NoLanding
  <2>2. ASSUME NEW s \in DOMAIN sessions, AskedBy(s),
               \A e \in DOMAIN effects : effects'[e] = effects[e]
        PROVE  Goal
    <3>1. \E E \in SUBSET (1..MaxEffects) : Ledger!Ask(s, E)
      BY <1>0, <2>2, Asks
    <3>2. s \in 1..MaxSessions
      BY <1>0 DEF Bounded
    <3>. QED
      BY <2>1, <3>1, <3>2 DEF Ledger!LedgerNext
  <2>3. CASE RestartCancels \/ UndoCancels
    <3>. DEFINE E == {e \in DOMAIN effects : effects'[e] # effects[e]}
    <3>1. /\ DOMAIN effects' = DOMAIN effects
          /\ \A e \in DOMAIN effects :
              \/ effects'[e] = effects[e]
              \/ effects[e].status = "pending" /\ effects'[e].status = "cancelled"
      BY <1>0, <2>3, CancelsMove
    <3>2. \A e \in DOMAIN effects :
            effects'[e].status = IF e \in E THEN "cancelled" ELSE effects[e].status
      BY <3>1
    <3>3. E \in SUBSET DOMAIN effects /\ E \in SUBSET (1..MaxEffects)
      BY <1>0
    <3>4. \A e \in E : StatusOf[e] = "pending"
      BY <1>0, <3>1
    <3>. HIDE DEF E
    <3>5. Ledger!Become(E, "cancelled")
      BY <1>0, <2>1, <3>1, <3>2, <3>3, Becomes
    <3>. QED
      BY <3>3, <3>4, <3>5 DEF Ledger!LedgerNext, Ledger!Withdraw
  <2>4. ASSUME NEW e \in DOMAIN effects, RetryEffect(e) PROVE Goal
    <3>1. /\ DOMAIN effects' = DOMAIN effects /\ effects'[e].status = "pending"
          /\ \A f \in DOMAIN effects \ {e} : effects'[f] = effects[f]
      BY <1>0, <2>4, RetryMoves
    <3>2. Ledger!Become({e}, "pending")
      BY <1>0, <2>1, <3>1, Becomes
    <3>3. StatusOf[e] \in {"failed", "cancelled", "unknown"}
      BY <1>0, <2>4 DEF RetryEffect, Settled
    <3>. QED
      BY <1>0, <3>2, <3>3 DEF Ledger!LedgerNext, Ledger!Retry
  <2>. QED
    BY <1>1, <1>2, <2>1, <2>2, <2>3, <2>4, RestingRows
<1>3. CASE Still
  BY <1>1, <1>3, NoLanding DEF Still
<1>4. ASSUME NEW e \in DOMAIN effects, ClaimTimer(e) \/ ClaimModel(e) PROVE Goal
  <2>1. Claim(e) /\ UNCHANGED sessions
    BY <1>4 DEF ClaimTimer, ClaimModel
  <2>2. StatusOf[e] = "pending"
    BY <1>0, <2>1 DEF Claim
  <2>3. Ledger!Become({e}, "running")
    BY <1>0, <2>1, NoLanding, ClaimMoves, Becomes
  <2>. QED
    BY <1>0, <2>2, <2>3 DEF Ledger!LedgerNext, Ledger!Take
<1>5. ASSUME NEW e \in DOMAIN effects, RunFails(e) \/ RunAborted(e) \/ RunSucceeds(e) PROVE Goal
  <2>1. PICK status \in {"succeeded", "failed", "cancelled"} : effects' = Mark(e, status)
    BY <1>5 DEF RunFails, RunAborted, RunSucceeds
  <2>2. status \in Settled /\ UNCHANGED sessions
    BY <1>5 DEF RunFails, RunAborted, RunSucceeds, Settled
  <2>3. StatusOf[e] = "running"
    BY <1>0, <1>5 DEF RunFails, RunAborted, RunSucceeds, Owned, Holding, Free, NoHandler
  <2>4. /\ DOMAIN effects' = DOMAIN effects /\ effects'[e].status = status
        /\ \A f \in DOMAIN effects \ {e} : effects'[f] = effects[f]
    BY <1>0, <2>1, <2>2, MarkMoves
  <2>5. Landed' = Landed
    BY <2>2, NoLanding
  <2>6. Ledger!Become({e}, status)
    BY <1>0, <2>4, <2>5, Becomes
  <2>. QED
    BY <1>0, <2>3, <2>6 DEF Ledger!LedgerNext, Ledger!End
<1>6. ASSUME NEW e \in DOMAIN effects, Spent(e) PROVE Goal
  <2>1. UNCHANGED sessions
    BY <1>6, SpentFacts
  <2>2. /\ DOMAIN effects' = DOMAIN effects
        /\ \A f \in DOMAIN effects : effects'[f].status = effects[f].status
    BY <1>0, <1>6, SpentMoves
  <2>3. Landed' = Landed
    BY <2>1, NoLanding
  <2>. QED
    BY <1>0, <2>2, <2>3, Stays
<1>7. ASSUME NEW e \in DOMAIN effects, NEW t \in Transition, Deliver(e, t) PROVE Goal
  <2>. DEFINE r == [of |-> e, session |-> handler.on, at |-> Revision(handler.on) + 1]
  <2>1. /\ handler.on = effects[e].session /\ AskedBy(handler.on)
        /\ Holding(e) /\ effects[e].status = "succeeded"
        /\ effects'[e] = [effects[e] EXCEPT !.fate = "heard"]
        /\ \A f \in DOMAIN effects \ {e} : effects'[f] = effects[f]
    BY <1>7, DeliverWrites DEF Deliver, Landing, Holding
  <2>2. \A f \in DOMAIN effects : effects'[f].status = effects[f].status
    <3>1. effects[e] \in Effect
      BY <1>0, EffectRow
    <3>2. effects'[e].status = effects[e].status
      BY <2>1, <3>1 DEF Effect
    <3>. QED
      BY <2>1, <3>2
  <2>3. \E E \in SUBSET (1..MaxEffects) : Ledger!Ask(HomeOf[e], E)
    BY <1>0, <2>1, <2>2, Asks
  <2>4. Landed' = Landed \cup {r} /\ r.of = e /\ r.session = HomeOf[e]
    BY <1>0, <1>7, <2>1, DeliveredLands
  <2>5. \A x \in Landed : x.of # e
    BY <1>0, <2>1 DEF Heard, Decided
  <2>6. StatusOf[e] = "succeeded"
    BY <1>0, <2>1
  <2>. HIDE DEF r
  <2>7. Ledger!Land(e)
    BY <2>3, <2>4, <2>5, <2>6 DEF Ledger!Land
  <2>. QED
    BY <1>0, <2>7 DEF Ledger!LedgerNext
<1>8. CASE Crash
  <2>1. UNCHANGED sessions
    BY <1>8 DEF Crash
  <2>2. /\ DOMAIN effects' = DOMAIN effects
        /\ \A f \in DOMAIN effects : effects'[f].status = effects[f].status
    BY <1>0, <1>8, CrashMoves DEF Shape, Bound
  <2>3. Landed' = Landed
    BY <2>1, NoLanding
  <2>. QED
    BY <1>0, <2>2, <2>3, Stays
<1>9. CASE Boot
  <2>. DEFINE E == {e \in 1..MaxEffects : StatusOf[e] = "running"}
  <2>1. UNCHANGED sessions
    BY <1>9 DEF Boot
  <2>2. E \in SUBSET DOMAIN effects
    BY RowsRead
  <2>3. \A e \in DOMAIN effects : effects[e] \in Effect
    BY <1>0, EffectRow
  <2>4. \A e \in DOMAIN effects :
          effects'[e].status = IF effects[e].status = "running" THEN "unknown"
                                                                ELSE effects[e].status
    BY <1>0, <1>9, <2>3, BootMoves DEF Effect
  <2>5. \A e \in DOMAIN effects :
          effects'[e].status = IF e \in E THEN "unknown" ELSE effects[e].status
    BY <1>0, <2>4
  <2>6. Landed' = Landed /\ DOMAIN effects' = DOMAIN effects
    BY <1>0, <1>9, <2>1, NoLanding, BootMoves
  <2>. HIDE DEF E
  <2>7. Ledger!Become(E, "unknown")
    BY <1>0, <2>2, <2>5, <2>6, Becomes
  <2>. QED
    BY <2>7 DEF Ledger!LedgerNext, Ledger!Lose, E
<1>. QED
  BY <1>2, <1>3, <1>4, <1>5, <1>6, <1>7, <1>8, <1>9, StepKinds

LEMMA LedgerStart == Init => Ledger!LedgerInit
<1>. SUFFICES ASSUME Init PROVE Ledger!LedgerInit
  OBVIOUS
<1>1. DOMAIN effects = {} /\ DOMAIN sessions = {}
  BY DEF Init
<1>2. StatusOf = [e \in 1..MaxEffects |-> "none"] /\ HomeOf = [e \in 1..MaxEffects |-> 0]
  BY <1>1 DEF StatusOf, HomeOf
<1>3. Landed = {}
  BY <1>1, InLanded
<1>. QED
  BY <1>2, <1>3 DEF Ledger!LedgerInit

\* The rows and journals keep the contract of EffectLedger: success is final,
\* whatever is run was taken and comes to one end, and the result of a success
\* enters the journal of the match that asked for it, at most once.
THEOREM SessionsKeepTheLedger == Spec => ImplementsLedger
<1>1. Init => Shape /\ Booked
  <2>. SUFFICES ASSUME Init PROVE Shape /\ Booked
    OBVIOUS
  <2>1. DOMAIN effects = {} /\ DOMAIN sessions = {} /\ runs = {} /\ Landed = {}
    BY LedgerStart DEF Init, Ledger!LedgerInit
  <2>. QED
    BY <2>1, ShapeInit DEF Booked, Bounded, Owned, Decided, Heard
<1>2. Shape /\ Booked /\ [Next]_vars => (Shape /\ Booked)'
  BY ShapeStep, OwnedStep, DecidedStep, HeardStep, BoundedStep DEF Booked
<1>3. Shape /\ Booked /\ [Next]_vars => [Ledger!LedgerNext]_(Ledger!ledgerVars)
  BY LedgerStep
<1>. QED
  BY <1>1, <1>2, <1>3, LedgerStart, PTL DEF Spec, ImplementsLedger, Ledger!LedgerSpec

-----------------------------------------------------------------------------
(***************************************************************************)
(* What becomes of a result.  An effect is asked for at a revision that    *)
(* its session has reached; a success is in the hands of the handler or    *)
(* has found its fate; what was heard stands in the journal, and what came *)
(* too late was a tick of a session that had moved on.                     *)
(***************************************************************************)
Dated == \A e \in DOMAIN effects : effects[e].origin <= Revision(effects[e].session)

InHand ==
  \A e \in DOMAIN effects :
    effects[e].status = "succeeded" => Landing(e) \/ effects[e].fate # "open"

Found ==
  \A e \in DOMAIN effects :
    /\ effects[e].fate = "heard" => InJournal(e)
    /\ effects[e].fate = "stale" =>
         effects[e].kind = "timer" /\ Revision(effects[e].session) > effects[e].origin

\* Journals only grow.
Longer ==
  \A s \in DOMAIN sessions :
    /\ Revision(s) \in Nat /\ Revision(s)' \in Nat /\ Revision(s)' >= Revision(s)
    /\ \A i \in DOMAIN sessions[s].steps :
         i \in DOMAIN sessions'[s].steps /\ sessions'[s].steps[i] = sessions[s].steps[i]

LEMMA GrownLonger ==
  ASSUME TypeOK, NEW q \in DOMAIN sessions, NEW step \in Step, Grown(q, step)
  PROVE  Longer
<1>. SUFFICES ASSUME NEW s \in DOMAIN sessions
              PROVE  /\ Revision(s) \in Nat /\ Revision(s)' \in Nat /\ Revision(s)' >= Revision(s)
                     /\ \A i \in DOMAIN sessions[s].steps :
                          /\ i \in DOMAIN sessions'[s].steps
                          /\ sessions'[s].steps[i] = sessions[s].steps[i]
  BY DEF Longer
<1>1. Revision(s) \in Nat
  BY SessionRow
<1>2. CASE s = q
  BY <1>1, <1>2, GrownFacts
<1>3. CASE s # q
  BY <1>1, <1>3 DEF Grown, Revision
<1>. QED
  BY <1>2, <1>3

LEMMA JournalsGrow ==
  ASSUME Shape, [Next]_vars
  PROVE  Longer
<1>0. TypeOK
  BY DEF Shape
<1>1. CASE Unwritten
  BY <1>0, <1>1, SessionRow DEF Unwritten, Longer, Revision
<1>2. CASE Hosted
  BY <1>0, <1>2, GrownLonger DEF Hosted
<1>3. ASSUME NEW m \in sent, NEW t \in Transition, Submit(m, t) PROVE Longer
  <2>. DEFINE step == [kind |-> "action", by |-> m.request]
  <2>1. m.session \in DOMAIN sessions /\ m.request \in Request /\ Grown(m.session, step)
    BY <1>3, SubmitWrites
  <2>2. step \in Step
    BY <2>1 DEF Step
  <2>. HIDE DEF step
  <2>. QED
    BY <1>0, <2>1, <2>2, GrownLonger
<1>4. ASSUME NEW e \in DOMAIN effects, NEW t \in Transition, Deliver(e, t) PROVE Longer
  <2>. DEFINE step == [kind |-> "effect_result", by |-> e]
  <2>1. handler.on \in DOMAIN sessions /\ Grown(handler.on, step)
    BY <1>4, DeliverWrites
  <2>2. step \in Step
    BY <1>0, EffectRow DEF Step
  <2>. HIDE DEF step
  <2>. QED
    BY <1>0, <2>1, <2>2, GrownLonger
<1>5. CASE UNCHANGED sessions
  BY <1>0, <1>1, <1>5, Idle
<1>6. CASE \/ \E m \in sent : SubmitAgain(m) \/ SubmitStale(m)
           \/ \E r \in Request, s \in DOMAIN sessions : Send(r, s)
  BY <1>5, <1>6 DEF SubmitAgain, SubmitStale, Send
<1>. QED
  BY <1>1, <1>2, <1>3, <1>4, <1>6, WhoWrites

\* Where a row comes from, or where its fate comes from.
LEMMA FatesCome ==
  ASSUME Shape, [Next]_vars, NEW e \in DOMAIN effects'
  PROVE  \/ e \notin DOMAIN effects /\ \E s \in DOMAIN sessions : AskedBy(s)
         \/ /\ e \in DOMAIN effects
            /\ \/ effects'[e].fate \in {effects[e].fate, "cut"}
               \/ Spent(e) \/ \E t \in Transition : Deliver(e, t)
<1>. DEFINE Goal == \/ e \notin DOMAIN effects /\ \E s \in DOMAIN sessions : AskedBy(s)
                    \/ /\ e \in DOMAIN effects
                       /\ \/ effects'[e].fate \in {effects[e].fate, "cut"}
                          \/ Spent(e) \/ \E t \in Transition : Deliver(e, t)
<1>0. /\ TypeOK /\ RowsMoved
      /\ e \in DOMAIN effects => effects[e] \in Effect /\ Moved(effects[e], effects'[e])
  BY ShapeStep, EffectRow DEF Shape, Tables, RowsMoved
<1>1. ASSUME e \in DOMAIN effects, effects'[e] = effects[e] PROVE Goal
  BY <1>1
<1>2. ASSUME e \in DOMAIN effects, effects'[e].status # effects[e].status PROVE Goal
  BY <1>0, <1>2, FateKept
<1>3. CASE Resting
  <2>1. CASE UNCHANGED effects
    BY <1>1, <2>1
  <2>2. ASSUME NEW s \in DOMAIN sessions, AskedBy(s),
               \A f \in DOMAIN effects : effects'[f] = effects[f]
        PROVE  Goal
    BY <1>1, <2>2
  <2>3. CASE RestartCancels \/ UndoCancels
    <3>1. /\ e \in DOMAIN effects
          /\ effects'[e] = effects[e] \/ effects'[e].status # effects[e].status
      BY <1>0, <2>3, CancelsMove
    <3>. QED
      BY <1>1, <1>2, <3>1
  <2>4. ASSUME NEW f \in DOMAIN effects, RetryEffect(f) PROVE Goal
    <3>1. /\ e \in DOMAIN effects
          /\ effects'[f].status = "pending" /\ effects[f].status # "pending"
          /\ e # f => effects'[e] = effects[e]
      BY <1>0, <2>4, RetryMoves DEF RetryEffect, Settled
    <3>. QED
      BY <1>1, <1>2, <3>1
  <2>. QED
    BY <1>3, <2>1, <2>2, <2>3, <2>4, RestingRows
<1>4. CASE Still
  BY <1>1, <1>4 DEF Still
<1>5. ASSUME NEW f \in DOMAIN effects, ClaimTimer(f) \/ ClaimModel(f) PROVE Goal
  <2>1. Claim(f) /\ effects[f].status = "pending"
    BY <1>5 DEF ClaimTimer, ClaimModel, Claim
  <2>2. /\ e \in DOMAIN effects
        /\ effects'[e] = effects[e] \/ effects'[e].status # effects[e].status
    BY <1>0, <2>1, ClaimMoves
  <2>. QED
    BY <1>1, <1>2, <2>2
<1>6. ASSUME NEW f \in DOMAIN effects, RunFails(f) \/ RunAborted(f) \/ RunSucceeds(f) PROVE Goal
  <2>1. PICK status \in Settled : effects' = Mark(f, status)
    BY <1>6 DEF RunFails, RunAborted, RunSucceeds, Settled
  <2>2. /\ e \in DOMAIN effects
        /\ effects'[f].status = status /\ (e # f => effects'[e] = effects[e])
        /\ effects'[f] = [effects[f] EXCEPT !.status = status]
    BY <1>0, <2>1, MarkMoves
  <2>3. effects'[e].fate = effects[e].fate
    BY <1>0, <2>2 DEF Effect
  <2>. QED
    BY <2>2, <2>3
<1>7. ASSUME NEW f \in DOMAIN effects, Spent(f) PROVE Goal
  <2>1. e \in DOMAIN effects /\ (e # f => effects'[e] = effects[e])
    BY <1>0, <1>7, SpentMoves
  <2>. QED
    BY <1>1, <1>7, <2>1
<1>8. ASSUME NEW f \in DOMAIN effects, NEW t \in Transition, Deliver(f, t) PROVE Goal
  <2>1. /\ handler.on \in DOMAIN sessions /\ AskedBy(handler.on)
        /\ \A g \in DOMAIN effects \ {f} : effects'[g] = effects[g]
    BY <1>8, DeliverWrites
  <2>2. CASE e \in DOMAIN effects /\ e # f
    BY <1>1, <2>1, <2>2
  <2>3. CASE e = f
    BY <1>8, <2>3
  <2>4. CASE e \notin DOMAIN effects
    BY <2>1, <2>4
  <2>. QED
    BY <2>2, <2>3, <2>4
<1>9. CASE Crash
  <2>1. e \in DOMAIN effects /\ (effects'[e].fate = "cut" \/ effects'[e] = effects[e])
    BY <1>9, CrashMoves
  <2>. QED
    BY <2>1
<1>10. CASE Boot
  <2>1. /\ e \in DOMAIN effects
        /\ effects'[e] = effects[e] \/ effects'[e] = [effects[e] EXCEPT !.status = "unknown"]
    BY <1>0, <1>10, BootMoves
  <2>2. effects'[e].fate = effects[e].fate
    BY <1>0, <2>1 DEF Effect
  <2>. QED
    BY <2>1, <2>2
<1>. QED
  BY <1>3, <1>4, <1>5, <1>6, <1>7, <1>8, <1>9, <1>10, StepKinds

\* What a row was born with it keeps.
LEMMA RowsStay ==
  ASSUME Shape, [Next]_vars
  PROVE  \A e \in DOMAIN effects :
           /\ e \in DOMAIN effects' /\ effects[e] \in Effect /\ effects'[e] \in Effect
           /\ effects[e].session \in DOMAIN sessions
           /\ effects'[e].session = effects[e].session /\ effects'[e].kind = effects[e].kind
           /\ effects'[e].origin = effects[e].origin
<1>1. TypeOK /\ RowsMoved
  BY ShapeStep DEF Shape, Tables
<1>2. \A e \in DOMAIN effects :
        /\ e \in DOMAIN effects' /\ effects[e] \in Effect /\ Moved(effects[e], effects'[e])
        /\ effects[e].session \in DOMAIN sessions
  BY <1>1, EffectRow DEF RowsMoved, Shape, Bound
<1>. QED
  BY <1>2, MovedFacts

LEMMA DatedStep ==
  ASSUME Shape, Dated, [Next]_vars
  PROVE  Dated'
<1>. SUFFICES ASSUME NEW e \in DOMAIN effects'
              PROVE  (effects[e].origin <= Revision(effects[e].session))'
  BY DEF Dated
<1>1. Shape' /\ Longer
  BY ShapeStep, JournalsGrow
<1>2. CASE e \in DOMAIN effects
  <2>0. PICK s \in DOMAIN sessions : s = effects[e].session
    BY <1>2, RowsStay
  <2>1. /\ effects'[e].session = s
        /\ effects'[e].origin = effects[e].origin /\ effects[e].origin \in Nat
    BY <1>2, <2>0, RowsStay DEF Effect
  <2>2. effects[e].origin <= Revision(s)
    BY <1>2, <2>0 DEF Dated
  <2>3. Revision(s) \in Nat /\ Revision(s)' \in Nat /\ Revision(s)' >= Revision(s)
    BY <1>1, <2>1 DEF Longer
  <2>. QED
    BY <2>1, <2>2, <2>3
<1>3. ASSUME NEW s \in DOMAIN sessions, AskedBy(s), e \notin DOMAIN effects
      PROVE  (effects[e].origin <= Revision(effects[e].session))'
  <2>1. effects'[e].session = s /\ effects'[e].origin = Revision(s)'
    BY <1>3 DEF AskedBy
  <2>2. Revision(s)' \in Nat
    BY <1>1 DEF Longer
  <2>. QED
    BY <2>1, <2>2
<1>. QED
  BY <1>2, <1>3, FatesCome

LEMMA InHandStep ==
  ASSUME Shape, InHand, [Next]_vars
  PROVE  InHand'
<1>0. TypeOK /\ RowsMoved
  BY ShapeStep DEF Shape, Tables
<1>. SUFFICES ASSUME NEW e \in DOMAIN effects', effects'[e].status = "succeeded"
              PROVE  Landing(e)' \/ effects'[e].fate # "open"
  BY DEF InHand
<1>. DEFINE Goal == Landing(e)' \/ effects'[e].fate # "open"
<1>1. e \in DOMAIN effects
  BY <1>0 DEF RowsMoved
<1>2. effects[e].status = "succeeded" => Landing(e) \/ effects[e].fate # "open"
  BY <1>1 DEF InHand
<1>3. CASE Resting
  <2>1. effects'[e] = effects[e] /\ ~Delivering
    BY <1>1, <1>3, RestingRests DEF Rested
  <2>. QED
    BY <1>2, <2>1 DEF Landing
<1>4. CASE Still
  BY <1>2, <1>4 DEF Still, Landing
<1>5. ASSUME NEW f \in DOMAIN effects, ClaimTimer(f) \/ ClaimModel(f) PROVE Goal
  <2>1. Claim(f) /\ ~Delivering
    BY <1>5 DEF ClaimTimer, ClaimModel, Claim, Free, NoHandler
  <2>2. e # f /\ effects'[e] = effects[e]
    BY <1>0, <1>1, <2>1, ClaimMoves
  <2>. QED
    BY <1>2, <2>1, <2>2 DEF Landing
<1>6. ASSUME NEW f \in DOMAIN effects, RunFails(f) \/ RunAborted(f) PROVE Goal
  <2>1. PICK status \in {"failed", "cancelled"} : effects' = Mark(f, status)
    BY <1>6 DEF RunFails, RunAborted
  <2>2. e # f /\ effects'[e] = effects[e]
    BY <1>0, <1>1, <2>1, MarkMoves DEF Settled
  <2>3. ~Delivering
    BY <1>6 DEF RunFails, RunAborted, Free, NoHandler
  <2>. QED
    BY <1>2, <2>2, <2>3 DEF Landing
<1>7. ASSUME NEW f \in DOMAIN effects, RunSucceeds(f) PROVE Goal
  <2>1. e # f => effects'[e] = effects[e]
    BY <1>0, <1>1, <1>7, MarkMoves DEF RunSucceeds, Settled
  <2>2. ~Delivering /\ Landing(f)'
    BY <1>7 DEF RunSucceeds, Free, NoHandler, Landing
  <2>. QED
    BY <1>2, <2>1, <2>2 DEF Landing
<1>8. ASSUME NEW f \in DOMAIN effects, NEW t \in Transition, Deliver(f, t) PROVE Goal
  <2>1. /\ Landing(f) /\ effects'[f] = [effects[f] EXCEPT !.fate = "heard"]
        /\ e # f => effects'[e] = effects[e]
    BY <1>1, <1>8, DeliverWrites DEF Deliver
  <2>2. effects'[f].fate = "heard"
    BY <1>0, <2>1, EffectRow DEF Effect
  <2>. QED
    BY <1>2, <2>1, <2>2 DEF Landing
<1>9. ASSUME NEW f \in DOMAIN effects, Spent(f) PROVE Goal
  <2>1. /\ effects'[f].fate \in {"refused", "stale"} /\ Landing(f)
        /\ e # f => effects'[e] = effects[e]
    BY <1>0, <1>1, <1>9, SpentMoves, SpentFacts
  <2>. QED
    BY <1>2, <2>1 DEF Landing
<1>10. CASE Crash
  <2>1. /\ Delivering => effects'[handler.arg].fate = "cut"
        /\ ~Delivering \/ e # handler.arg => effects'[e] = effects[e]
    BY <1>1, <1>10, CrashMoves
  <2>. QED
    BY <1>2, <2>1 DEF Landing
<1>11. CASE Boot
  <2>1. effects'[e] = IF effects[e].status = "running"
                      THEN [effects[e] EXCEPT !.status = "unknown"] ELSE effects[e]
    BY <1>0, <1>1, <1>11, BootMoves
  <2>2. effects[e].status # "running"
    BY <1>0, <1>1, <2>1, EffectRow DEF Effect
  <2>. QED
    BY <1>2, <1>11, <2>1, <2>2 DEF Boot, Landing
<1>. QED
  BY <1>3, <1>4, <1>5, <1>6, <1>7, <1>8, <1>9, <1>10, <1>11, StepKinds

\* A delivery writes the result of its effect into the journal of its match.
LEMMA DeliveryIsWritten ==
  ASSUME Shape, NEW e \in DOMAIN effects, NEW t \in Transition, Deliver(e, t)
  PROVE  LET s == effects[e].session
         IN \E i \in DOMAIN sessions'[s].steps :
              sessions'[s].steps[i].kind = "effect_result" /\ sessions'[s].steps[i].by = e
<1>. DEFINE step == [kind |-> "effect_result", by |-> e]
            s == effects[e].session
<1>1. /\ TypeOK /\ handler.on = s /\ s \in DOMAIN sessions /\ Grown(s, step)
  BY DeliverWrites DEF Shape
<1>2. step \in Step /\ step.by = e /\ step.kind = "effect_result"
  BY <1>1, EffectRow DEF Step
<1>. HIDE DEF step, s
<1>3. /\ Revision(s) + 1 \in DOMAIN sessions'[s].steps
      /\ sessions'[s].steps[Revision(s) + 1] = step
  BY <1>1, <1>2, GrownFacts
<1>4. \E i \in DOMAIN sessions'[s].steps :
        sessions'[s].steps[i].kind = "effect_result" /\ sessions'[s].steps[i].by = e
  BY <1>2, <1>3
<1>. QED
  BY <1>4 DEF s

LEMMA FoundStep ==
  ASSUME Shape, Dated, Found, [Next]_vars
  PROVE  Found'
<1>0. Longer /\ TypeOK
  BY JournalsGrow DEF Shape
<1>. SUFFICES ASSUME NEW e \in DOMAIN effects'
              PROVE  /\ effects'[e].fate = "heard" => InJournal(e)'
                     /\ effects'[e].fate = "stale" =>
                          /\ effects'[e].kind = "timer"
                          /\ (Revision(effects[e].session) > effects[e].origin)'
  BY DEF Found
<1>1. CASE e \notin DOMAIN effects
  <2>1. PICK s \in DOMAIN sessions : AskedBy(s)
    BY <1>1, FatesCome
  <2>. QED
    BY <1>1, <2>1 DEF AskedBy
<1>2. CASE e \in DOMAIN effects
  <2>0. PICK s \in DOMAIN sessions : s = effects[e].session
    BY <1>2, RowsStay
  <2>1. /\ effects'[e].session = s /\ effects'[e].kind = effects[e].kind
        /\ effects'[e].origin = effects[e].origin /\ effects[e].origin \in Nat
        /\ effects[e].fate \in {"open", "heard", "refused", "stale", "cut"}
    BY <1>2, <2>0, RowsStay DEF Effect
  <2>2. /\ effects[e].fate = "heard" => InJournal(e)
        /\ effects[e].fate = "stale" => effects[e].kind = "timer" /\ Revision(s) > effects[e].origin
        /\ effects[e].origin <= Revision(s)
    BY <1>2, <2>0 DEF Found, Dated
  <2>3. InJournal(e) <=> \E i \in DOMAIN sessions[s].steps :
                           sessions[s].steps[i].kind = "effect_result" /\ sessions[s].steps[i].by = e
    BY <2>0 DEF InJournal, Results
  <2>4. InJournal(e)' <=> \E i \in DOMAIN sessions'[s].steps :
                           sessions'[s].steps[i].kind = "effect_result" /\ sessions'[s].steps[i].by = e
    BY <2>1 DEF InJournal, Results
  <2>5. ASSUME NEW t \in Transition, Deliver(e, t)
        PROVE  effects'[e].fate = "heard" /\ InJournal(e)'
    <3>1. effects'[e].fate = "heard"
      BY <1>0, <1>2, <2>5, DeliverWrites, EffectRow DEF Effect
    <3>. QED
      BY <1>2, <2>0, <2>4, <2>5, <3>1, DeliveryIsWritten
  <2>6. ASSUME TooLate(e) PROVE effects[e].kind = "timer" /\ Revision(s) # effects[e].origin
    BY <2>0, <2>6 DEF TooLate, MovedOn, Undelivered, Landing, Shape, Bound
  <2>7. /\ Revision(s) \in Nat /\ Revision(s)' \in Nat /\ Revision(s)' >= Revision(s)
        /\ \A i \in DOMAIN sessions[s].steps :
             i \in DOMAIN sessions'[s].steps /\ sessions'[s].steps[i] = sessions[s].steps[i]
    BY <1>0, <2>1 DEF Longer
  <2>8. InJournal(e) => InJournal(e)'
    BY <2>3, <2>4, <2>7
  <2>9. CASE effects'[e].fate \in {effects[e].fate, "cut"}
    BY <2>1, <2>2, <2>7, <2>8, <2>9
  <2>10. CASE Spent(e)
    <3>1. effects'[e].fate \in {"refused", "stale"} /\ (effects'[e].fate = "stale" => TooLate(e))
      BY <1>0, <1>2, <2>10, SpentMoves
    <3>. QED
      BY <2>1, <2>2, <2>6, <2>7, <3>1
  <2>. QED
    BY <1>2, <2>5, <2>9, <2>10, FatesCome
<1>. QED
  BY <1>1, <1>2

\* A stored result is in the journal of its match unless the rules refused it, the
\* process died before it was fed back, or it is a tick and the game has moved on:
\* a reply is not lost because the game moved on while the model was thinking.
THEOREM NoResultIsLost == Spec => []ResultsAreAccountedFor
<1>1. Init => Shape /\ Dated /\ InHand /\ Found
  <2>. SUFFICES ASSUME Init PROVE Shape /\ Dated /\ InHand /\ Found
    OBVIOUS
  <2>1. DOMAIN effects = {}
    BY DEF Init
  <2>. QED
    BY <2>1, ShapeInit DEF Dated, InHand, Found
<1>2. Shape /\ Dated /\ InHand /\ Found /\ [Next]_vars => (Shape /\ Dated /\ InHand /\ Found)'
  BY ShapeStep, DatedStep, InHandStep, FoundStep
<1>3. Shape /\ InHand /\ Found => ResultsAreAccountedFor
  <2>. SUFFICES ASSUME Shape, InHand, Found, NEW e \in DOMAIN effects,
                       effects[e].status = "succeeded"
                PROVE  \/ InJournal(e)
                       \/ Landing(e) \/ effects[e].fate \in {"refused", "cut"}
                       \/ /\ effects[e].kind = "timer"
                          /\ Revision(effects[e].session) > effects[e].origin
    BY DEF ResultsAreAccountedFor
  <2>1. effects[e].fate \in {"open", "heard", "refused", "stale", "cut"}
    BY EffectRow DEF Effect, Shape
  <2>. QED
    BY <2>1 DEF InHand, Found
<1>. QED
  BY <1>1, <1>2, <1>3, PTL DEF Spec
=============================================================================
