------------------------------ MODULE RunSlot ------------------------------
(***************************************************************************)
(* What a registry of turns promises about ONE key, whatever happens       *)
(* inside it: the key is a slot that at most one run holds at a time, a    *)
(* stop request is a signal to the present holder and to nobody else, only *)
(* the holder's own end frees the slot, and a run that has ended never     *)
(* comes back.  AgentRunRegistry implements this contract for each of its  *)
(* keys; GenerationQueue, whose chat is one key, takes and gives back its  *)
(* slot with the same operations.                                          *)
(***************************************************************************)

CONSTANTS
  Run,     \* the identities of runs that may ask for the slot
  NoRun    \* "nobody", not a run

VARIABLES
  holder,     \* the run that holds the slot, or NoRun
  signalled,  \* the holder has been asked to stop
  ended       \* the runs that have come to their end

slotVars == <<holder, signalled, ended>>

SlotInit ==
  /\ holder = NoRun
  /\ signalled = FALSE
  /\ ended = {}

\* A run takes the free slot.
Reserve(r) ==
  /\ holder = NoRun
  /\ r \notin ended
  /\ holder' = r
  /\ signalled' = FALSE
  /\ UNCHANGED ended

\* A run takes the free slot and ends before anybody else can look.
Flash(r) ==
  /\ holder = NoRun
  /\ r \notin ended
  /\ ended' = ended \cup {r}
  /\ UNCHANGED <<holder, signalled>>

\* The first request to stop reaches the holder; it keeps the slot.
Signal ==
  /\ holder # NoRun
  /\ ~signalled
  /\ signalled' = TRUE
  /\ UNCHANGED <<holder, ended>>

\* The holder ends, signalled or not.
Release ==
  /\ holder # NoRun
  /\ holder' = NoRun
  /\ signalled' = FALSE
  /\ ended' = ended \cup {holder}

SlotNext ==
  \/ \E r \in Run : Reserve(r) \/ Flash(r)
  \/ Signal
  \/ Release

SlotSpec == SlotInit /\ [][SlotNext]_slotVars
=============================================================================
