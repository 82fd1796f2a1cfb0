-------------------------- MODULE QuotaTransitions --------------------------
(***************************************************************************)
(* services/api/src/domain/quota/quota-transitions.ts: which notices one   *)
(* reading of a provider's quota window calls for, given what is remembered*)
(* of the readings before it.  A warning is given once when the remaining  *)
(* quota falls to the threshold, and again only after the window has been  *)
(* reset or, if it has no reset, after the quota has recovered.            *)
(*                                                                         *)
(* Windows of one profile do not influence each other; this is one of them.*)
(* Time is a number; ISO strings of one format compare like their times.   *)
(***************************************************************************)
EXTENDS Naturals, Sequences

CONSTANTS
  Full,        \* 100 percent
  Hysteresis,  \* QUOTA_REARM_HYSTERESIS_POINTS
  DropPoints   \* QUOTA_RESET_DROP_POINTS

ASSUME TuningAssumption ==
  /\ Full \in Nat /\ Hysteresis \in Nat /\ DropPoints \in Nat \ {0}

NoReset == 0   \* a boundary that does not exist; boundaries are positive

\* What is remembered of a profile, or nothing.
NoMemory == [adapter |-> "none"]

\* A reading is [used, resetsAt]; a config has a threshold and says which of
\* the two kinds of notices are wanted.
Remaining(used) == Full - used
IsLow(r, config) == Remaining(r.used) <= config.threshold

\* The id of a notice is what the ledger of sent notices is keyed by: the
\* boundary of the window or, without one, the number of recoveries so far.
Notice(kind, adapter, r, rearms, config) ==
  [id |-> [kind     |-> kind,
           adapter  |-> adapter,
           boundary |-> IF r.resetsAt # NoReset THEN <<"at", r.resetsAt>>
                                                ELSE <<"noreset", rearms>>],
   threshold |-> IF kind = "low" THEN config.threshold ELSE 0]

Warning(adapter, r, rearms, config) ==
  IF config.low THEN <<Notice("low", adapter, r, rearms, config)>> ELSE <<>>

\* The window has rolled over: the provider has moved its end, or keeps
\* naming an end that has passed while the usage has clearly dropped.
IsReset(r, window, now) ==
  /\ r.resetsAt # NoReset
  /\ \/ window.resetsAt = NoReset \/ r.resetsAt > window.resetsAt
     \/ /\ r.used + DropPoints <= window.used
        /\ now >= window.resetsAt

\* Each of the three cases yields the notices and what to remember.
Window(r, latched, rearms) ==
  [used |-> r.used, resetsAt |-> r.resetsAt, latched |-> latched, rearms |-> rearms]

\* Mutant: a first reading that is already low latches without a word.
Baseline_Silent(adapter, r, config) ==
  [notices |-> <<>>, window |-> Window(r, IsLow(r, config), 0)]

\* Nothing comparable is remembered.
Baseline(adapter, r, config) ==
  [notices |-> IF IsLow(r, config) THEN Warning(adapter, r, 0, config) ELSE <<>>,
   window  |-> Window(r, IsLow(r, config), 0)]

\* A reset is told, and a new window that is low already is warned about.
AfterReset(adapter, r, window, config) ==
  [notices |-> (IF config.reset THEN <<Notice("reset", adapter, r, window.rearms, config)>>
                                ELSE <<>>)
               \o (IF IsLow(r, config) THEN Warning(adapter, r, window.rearms, config) ELSE <<>>),
   window  |-> Window(r, IsLow(r, config), window.rearms)]

\* Mutant: without the band a reading just above the threshold re-arms.
Recovered_NoBand(r, window, config) ==
  window.latched /\ r.resetsAt = NoReset /\ ~IsLow(r, config)

\* Without a boundary the warning is re-armed by a clear recovery.
Recovered(r, window, config) ==
  /\ window.latched /\ r.resetsAt = NoReset
  /\ Remaining(r.used) >= config.threshold + Hysteresis

\* The usual case: a crossing is warned about unless it is latched.
Watch(adapter, r, window, config) ==
  LET recovered == Recovered(r, window, config)
      rearms    == IF recovered THEN window.rearms + 1 ELSE window.rearms
      latched   == window.latched /\ ~recovered
      crossed   == Remaining(window.used) > config.threshold /\ IsLow(r, config)
  IN [notices |-> IF ~latched /\ crossed THEN Warning(adapter, r, rearms, config) ELSE <<>>,
      window  |-> Window(r, latched \/ crossed, rearms)]

\* Latches are kept only while the question they answer is the same.
SameQuestion(memory, adapter, config) ==
  /\ memory # NoMemory
  /\ memory.adapter = adapter
  /\ memory.threshold = config.threshold
  /\ memory.low = config.low

\* One poll.  A reading that is not newer than the memory is ignored.
Evaluate(adapter, r, config, memory, now) ==
  IF memory # NoMemory /\ now <= memory.at
  THEN [notices |-> <<>>, memory |-> memory]
  ELSE LET verdict ==
             IF ~SameQuestion(memory, adapter, config) THEN Baseline(adapter, r, config)
             ELSE IF IsReset(r, memory.window, now)
                  THEN AfterReset(adapter, r, memory.window, config)
                  ELSE Watch(adapter, r, memory.window, config)
       IN [notices |-> verdict.notices,
           memory  |-> [adapter |-> adapter, threshold |-> config.threshold,
                        low |-> config.low, at |-> now, window |-> verdict.window]]
=============================================================================
