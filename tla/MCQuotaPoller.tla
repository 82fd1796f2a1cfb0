--------------------------- MODULE MCQuotaPoller ---------------------------
(* Configurations of the quota poller for its small instances. *)
EXTENDS QuotaPoller

Windows(display, low, reset, threshold) ==
  [kind |-> "windowed", display |-> display, low |-> low, reset |-> reset, threshold |-> threshold]

\* Watching without notices, or nothing at all.
Display == {Windows(d, FALSE, FALSE, 2) : d \in BOOLEAN}

\* Warnings at one of two thresholds, and news of resets, or neither.
Notify == {Windows(FALSE, TRUE, TRUE, t) : t \in {1, 2}} \cup {Windows(TRUE, FALSE, FALSE, 1)}
=============================================================================
