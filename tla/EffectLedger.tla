---------------------------- MODULE EffectLedger ----------------------------
(***************************************************************************)
(* What the durable effects of a branch's matches promise to whoever reads *)
(* their rows and the journals: an effect waits until it is taken, is run  *)
(* by one taker at a time and comes to an end; success is never taken back,*)
(* any other end only by a retry; and the result of a success enters the   *)
(* journal of the match that asked for it, at most once.  ExperienceSession*)
(* implements this contract.                                               *)
(***************************************************************************)

CONSTANTS
  EffectId,   \* effects that may be asked for
  SessionId,  \* matches
  NoSession   \* "nobody", not a match

VARIABLES
  status,   \* status[e]: the row of effect e; "none" before it is asked for
  home,     \* home[e]: the match that asked for it
  landed    \* the results in the journals: of which effect, where in which match

ledgerVars == <<status, home, landed>>

LedgerInit ==
  /\ status = [e \in EffectId |-> "none"]
  /\ home = [e \in EffectId |-> NoSession]
  /\ landed = {}

\* A transition of match s asks for the effects in E.
Ask(s, E) ==
  /\ \A e \in E : status[e] = "none"
  /\ status' = [e \in EffectId |-> IF e \in E THEN "pending" ELSE status[e]]
  /\ home' = [e \in EffectId |-> IF e \in E THEN s ELSE home[e]]

Become(E, new) ==
  /\ status' = [e \in EffectId |-> IF e \in E THEN new ELSE status[e]]
  /\ UNCHANGED <<home, landed>>

Take(e) == status[e] = "pending" /\ Become({e}, "running")

End(e, new) == status[e] = "running" /\ Become({e}, new)

\* Waiting effects are given up, none that was taken.
Withdraw(E) == (\A e \in E : status[e] = "pending") /\ Become(E, "cancelled")

\* Whoever ran effects is gone.
Lose == Become({e \in EffectId : status[e] = "running"}, "unknown")

Retry(e) == status[e] \in {"failed", "cancelled", "unknown"} /\ Become({e}, "pending")

\* The result of e is put into the journal of its match, which may ask for more.
Land(e) ==
  /\ status[e] = "succeeded"
  /\ \A r \in landed : r.of # e
  /\ \E r \in landed' : r.of = e /\ r.session = home[e] /\ landed' = landed \cup {r}
  /\ \E E \in SUBSET EffectId : Ask(home[e], E)

LedgerNext ==
  \/ \E s \in SessionId, E \in SUBSET EffectId : Ask(s, E) /\ UNCHANGED landed
  \/ \E E \in SUBSET EffectId : Withdraw(E)
  \/ \E e \in EffectId : \/ Take(e) \/ Retry(e) \/ Land(e)
                         \/ \E new \in {"succeeded", "failed", "cancelled"} : End(e, new)
  \/ Lose

LedgerSpec == LedgerInit /\ [][LedgerNext]_ledgerVars
=============================================================================
