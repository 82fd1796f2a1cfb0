------------------------ MODULE BackgroundTaskLocks ------------------------
(***************************************************************************)
(* services/api/src/shared/background-task-locks.ts: the lock that keeps   *)
(* background model calls (objective checks, summaries, compaction) from   *)
(* overlapping per key.  A key is used either with runExclusive, which     *)
(* drops a call that finds the lock held, or with runExclusiveTrailing,    *)
(* which remembers it and runs the task once more.                         *)
(*                                                                         *)
(* What the task looks at is abstracted to the number of the last event of *)
(* its key: a run sees the events up to its own beginning (it may see      *)
(* later ones too, which only helps).                                      *)
(***************************************************************************)
EXTENDS Naturals, TLAPS

CONSTANTS
  Key,        \* chat and branch, or thread
  Trailing,   \* the keys used with runExclusiveTrailing
  MaxEvents   \* bound: events of one key

ASSUME TrailingAssumption == Trailing \subseteq Key
ASSUME BoundAssumption == MaxEvents \in Nat

VARIABLES
  active,   \* the set of held locks
  dirty,    \* the set of remembered triggers
  task,     \* task[k]: where the run of k's task is
  latest,   \* latest[k]: events of k so far
  seen      \* seen[k]: events of k that a begun run has taken into account

vars == <<active, dirty, task, latest, seen>>

\* "over": the task's promise has settled, well or badly, and the caller's
\* continuation waits in the microtask queue.
TypeOK ==
  /\ active \subseteq Key
  /\ dirty \subseteq Key
  /\ task \in [Key -> {"none", "runs", "over"}]
  /\ latest \in [Key -> 0..MaxEvents]
  /\ seen \in [Key -> 0..MaxEvents]

Init ==
  /\ active = {} /\ dirty = {}
  /\ task = [k \in Key |-> "none"]
  /\ latest = [k \in Key |-> 0]
  /\ seen = [k \in Key |-> 0]

\* The call of task(), which reads its inputs afresh.
Begin(k, now) ==
  /\ task' = [task EXCEPT ![k] = "runs"]
  /\ seen' = [seen EXCEPT ![k] = now]

\* Mutant: a trigger that finds the lock held is dropped on trailing keys too.
Trigger_Dropped(k) ==
  /\ latest[k] < MaxEvents
  /\ latest' = [latest EXCEPT ![k] = @ + 1]
  /\ IF k \in active
     THEN UNCHANGED <<active, dirty, task, seen>>
     ELSE active' = active \cup {k} /\ Begin(k, latest[k] + 1) /\ dirty' = dirty \ {k}

\* Mutant: the lock is not looked at.
Trigger_Unlocked(k) ==
  /\ latest[k] < MaxEvents
  /\ latest' = [latest EXCEPT ![k] = @ + 1]
  /\ active' = active \cup {k}
  /\ Begin(k, latest[k] + 1)
  /\ dirty' = dirty \ {k}

\* Something happens to k and a feature calls the lock: test and acquisition
\* are one step.
Trigger(k) ==
  /\ latest[k] < MaxEvents
  /\ latest' = [latest EXCEPT ![k] = @ + 1]
  /\ IF k \in active
     THEN /\ dirty' = IF k \in Trailing THEN dirty \cup {k} ELSE dirty
          /\ UNCHANGED <<active, task, seen>>
     ELSE /\ active' = active \cup {k}
          /\ dirty' = dirty \ {k}
          /\ Begin(k, latest[k] + 1)

\* The task resolves or rejects; errors are swallowed.
Return(k) ==
  /\ task[k] = "runs"
  /\ task' = [task EXCEPT ![k] = "over"]
  /\ UNCHANGED <<active, dirty, latest, seen>>

\* Mutant: the lock is released without a look at the flag.
Continue_Forgets(k) ==
  /\ task[k] = "over"
  /\ dirty' = dirty \ {k}
  /\ task' = [task EXCEPT ![k] = "none"]
  /\ active' = active \ {k}
  /\ UNCHANGED <<latest, seen>>

\* The continuation: run again if a trigger came, else release.  No await
\* separates the last look at the flag from the release.
Continue(k) ==
  /\ task[k] = "over"
  /\ dirty' = dirty \ {k}
  /\ IF k \in dirty
     THEN Begin(k, latest[k]) /\ UNCHANGED active
     ELSE /\ task' = [task EXCEPT ![k] = "none"]
          /\ active' = active \ {k}
          /\ UNCHANGED seen
  /\ UNCHANGED latest

Next == \E k \in Key : Trigger(k) \/ Return(k) \/ Continue(k)

Spec == Init /\ [][Next]_vars

\* Tasks end (model calls have timeouts) and continuations run.
FairSpec == Spec /\ \A k \in Key : WF_vars(Return(k)) /\ WF_vars(Continue(k))

-----------------------------------------------------------------------------
\* The lock is held exactly while a task runs or is about to be followed up,
\* and on a trailing key an event that no run has taken into account is
\* remembered by a holder that will look again: "never a missed evaluation".
NothingForgotten ==
  \A k \in Key :
    /\ k \in active <=> task[k] # "none"
    /\ k \in Trailing /\ seen[k] < latest[k] => k \in active /\ k \in dirty

\* A run begins only where none is in flight.
NoOverlap == [][\A k \in Key : task[k] = "runs" => seen'[k] = seen[k]]_vars

\* On a trailing key every event is taken into account by some run.
EventuallySeen ==
  \A k \in Trailing : \A n \in 1..MaxEvents : (latest[k] >= n) ~> (seen[k] >= n)

-----------------------------------------------------------------------------
(* For any set of keys, whichever of them are trailing, and any number of  *)
(* events.  NothingForgotten is inductive together with the types: a key   *)
(* whose last events no run has seen is held and marked, so the            *)
(* continuation that would release it finds the mark.                      *)

\* Every variable has its type: the lock sets hold keys, and no run has seen
\* more events than may happen.
THEOREM TypeCorrect == Spec => []TypeOK
<1>1. Init => TypeOK
  BY BoundAssumption DEF Init, TypeOK
<1>2. TypeOK /\ [Next]_vars => TypeOK'
  <2> SUFFICES ASSUME TypeOK, [Next]_vars PROVE TypeOK'
    OBVIOUS
  <2> USE BoundAssumption
  <2>1. CASE UNCHANGED vars
    BY <2>1 DEF TypeOK, vars
  <2>2. ASSUME NEW k \in Key, Trigger(k) PROVE TypeOK'
    BY <2>2 DEF TypeOK, Trigger, Begin
  <2>3. ASSUME NEW k \in Key, Return(k) PROVE TypeOK'
    BY <2>3 DEF TypeOK, Return
  <2>4. ASSUME NEW k \in Key, Continue(k) PROVE TypeOK'
    BY <2>4 DEF TypeOK, Continue, Begin
  <2> QED
    BY <2>1, <2>2, <2>3, <2>4 DEF Next
<1> QED
  BY <1>1, <1>2, PTL DEF Spec

\* runExclusiveTrailing's promise, "never a missed evaluation": the lock of a
\* key is held exactly while its task runs or is followed up, and events that
\* no run of a trailing key has taken into account are remembered by a holder
\* that will look again.
THEOREM ForgetsNothing == Spec => []NothingForgotten
<1>1. Init => NothingForgotten
  <2> SUFFICES ASSUME Init, NEW k \in Key
               PROVE  /\ k \in active <=> task[k] # "none"
                      /\ ~(seen[k] < latest[k])
    BY DEF NothingForgotten
  <2>1. seen[k] = 0 /\ latest[k] = 0
    BY DEF Init
  <2>2. k \in active <=> task[k] # "none"
    BY DEF Init
  <2> QED
    BY <2>1, <2>2
<1>2. TypeOK /\ NothingForgotten /\ [Next]_vars => NothingForgotten'
  <2> SUFFICES ASSUME TypeOK, NothingForgotten, [Next]_vars PROVE NothingForgotten'
    OBVIOUS
  <2>1. CASE UNCHANGED vars
    BY <2>1 DEF NothingForgotten, vars
  <2>2. ASSUME NEW k \in Key, Trigger(k) PROVE NothingForgotten'
    <3>1. CASE k \in active
      BY <2>2, <3>1 DEF TypeOK, NothingForgotten, Trigger
    <3>2. CASE k \notin active
      BY <2>2, <3>2 DEF TypeOK, NothingForgotten, Trigger, Begin
    <3> QED
      BY <3>1, <3>2
  <2>3. ASSUME NEW k \in Key, Return(k) PROVE NothingForgotten'
    BY <2>3 DEF TypeOK, NothingForgotten, Return
  <2>4. ASSUME NEW k \in Key, Continue(k) PROVE NothingForgotten'
    <3>1. CASE k \in dirty
      BY <2>4, <3>1 DEF TypeOK, NothingForgotten, Continue, Begin
    <3>2. CASE k \notin dirty
      BY <2>4, <3>2 DEF TypeOK, NothingForgotten, Continue
    <3> QED
      BY <3>1, <3>2
  <2> QED
    BY <2>1, <2>2, <2>3, <2>4 DEF Next
<1> QED
  BY <1>1, <1>2, TypeCorrect, PTL DEF Spec

\* A run begins only where none is in flight: while a task runs, the events
\* its key has been credited with do not change.
THEOREM NeverOverlaps == Spec => NoOverlap
<1>1. TypeOK /\ NothingForgotten /\ [Next]_vars
        => [\A k \in Key : task[k] = "runs" => seen'[k] = seen[k]]_vars
  <2> SUFFICES ASSUME TypeOK, NothingForgotten, Next,
                      NEW k \in Key, task[k] = "runs"
               PROVE  seen'[k] = seen[k]
    BY DEF Next
  <2>1. k \in active
    BY DEF NothingForgotten
  <2>2. ASSUME NEW j \in Key, Trigger(j) PROVE seen'[k] = seen[k]
    BY <2>1, <2>2 DEF TypeOK, Trigger, Begin
  <2>3. ASSUME NEW j \in Key, Return(j) PROVE seen'[k] = seen[k]
    BY <2>3 DEF Return
  <2>4. ASSUME NEW j \in Key, Continue(j) PROVE seen'[k] = seen[k]
    BY <2>4 DEF TypeOK, Continue, Begin
  <2> QED
    BY <2>2, <2>3, <2>4 DEF Next
<1> QED
  BY <1>1, TypeCorrect, ForgetsNothing, PTL DEF Spec, NoOverlap
=============================================================================
