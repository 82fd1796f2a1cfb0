-------------------------- MODULE SelfUpdateProofs --------------------------
(***************************************************************************)
(* For any set of entries and any number of swaps, commands and deaths:    *)
(* what a failed update is called is true, no replaced entry is lost       *)
(* before a sweep, and there is a way back until the new build has         *)
(* answered.                                                               *)
(*                                                                         *)
(* Journal is the core of the argument: while a swap is under way, what    *)
(* would not have to be put back is as it was, and the backup holds what   *)
(* has been moved.  Blame adds that what would have to be put back really  *)
(* differs, which needs that a release is newer than everything that lies  *)
(* on the disk (Copies).  Guard and Debt follow the replaced install from  *)
(* the update to the end of the rollback; Guard holds because a start that *)
(* finds the marker does not sweep, so that in that time no sweep of the   *)
(* server is under way.                                                    *)
(***************************************************************************)
EXTENDS SelfUpdate, TLAPS

-----------------------------------------------------------------------------
(* The inductive invariant.                                                *)

\* performSwap() has its backup directory and has not been judged.
Underway == at \in {"moving", "restoring", "marking"}

\* Backups are numbered in the order of their swaps, and a swap takes from an
\* older one.
Order ==
  /\ dirs \subseteq 1..swaps /\ source <= swaps
  /\ Underway => source < swaps

\* No copy is newer than the swap that brought it, a backup that has not been
\* made is empty, and a release is newer than the install it is to replace.
Copies ==
  /\ \A e \in Entry : install[e] <= swaps + 1
  /\ \A s \in Swap, e \in Entry :
       saved[s][e] <= swaps + 1 /\ (s > swaps => saved[s][e] = Absent)
  /\ Underway => \A e \in Entry : before[e] <= swaps /\ staged[e] \in {Absent, swaps + 1}
  /\ at = "staged" => \A e \in Entry : staged[e] \in {Absent, swaps + 2}
  /\ at \in {"idle", "fetching"} => \A e \in Entry : staged[e] = Absent

\* A command has an answer when it is over, and has touched nothing before its
\* swap is under way.
Course ==
  /\ by = "nobody" <=> at = "idle"
  /\ at # "idle" => answer = "none"
  /\ at \in {"fetching", "staged"} => install = before
  /\ at # "moving" => todo = {} /\ moving = NoEntry
  /\ ~Underway => undo = {} /\ ~modified /\ restored

\* The backup of the swap under way holds old entries only; whatever need not be
\* put back is as it was, unless something could not be; and until a sweep the
\* backup holds every old entry that is not in its place.
Journal ==
  Underway =>
    /\ \A e \in Entry : saved[swaps][e] \in {Absent, before[e]}
    /\ moving \notin todo /\ undo \cap todo = {}
    /\ restored => \A e \in Entry \ undo : install[e] = before[e]
    /\ at # "restoring" => restored
    /\ ~modified => undo = {}
    /\ ~restored => modified
    /\ ~swept => /\ swaps \in dirs
                 /\ moving # NoEntry => install[moving] = Absent
                 /\ \A e \in undo : before[e] # Absent => saved[swaps][e] = before[e]

\* In an update, what has to be put back is not the old entry, and what could not
\* be put back leaves a difference; a new entry counts as one ("added").
Blame ==
  Underway /\ source = Release =>
    /\ \A e \in undo : IF before[e] = Absent THEN added ELSE install[e] # before[e]
    /\ ~restored => added \/ \E e \in Entry \ undo : install[e] # before[e]

\* After an update nothing has touched the backup of its swap, which is the newest.
Guard ==
  guarded => /\ at = "idle" /\ marker /\ ~swept
             /\ server \notin {"sweeping", "finalizing"}
             /\ tree = before /\ swaps \in dirs
             /\ \A e \in Entry : saved[swaps][e] \in {Absent, tree[e]}

\* A rollback begun in that time has in its source or in place, at each of its
\* stages, every entry of the install to be restored.
Debt ==
  owed =>
    /\ at \in {"idle", "staged", "moving", "restoring"}
    /\ at = "staged" =>
         /\ source # Release
         /\ \A e \in Entry : tree[e] # Absent =>
             \/ saved[source][e] = tree[e]
             \/ saved[source][e] = Absent /\ install[e] = tree[e]
    /\ at = "moving" =>
         /\ source # Release
         /\ \A e \in Entry : tree[e] # Absent =>
             IF e \in todo \/ e = moving THEN saved[source][e] = tree[e]
                                         ELSE install[e] = tree[e]

Inv == /\ TypeOK /\ Order /\ Copies /\ Course /\ Journal /\ Blame /\ Guard /\ Debt
       /\ VerdictIsTrue /\ NothingIsLost /\ RollbackIsWhole

-----------------------------------------------------------------------------
(* Facts about trees, and the types.                                       *)

LEMMA ConstantsOK ==
  /\ Exe \in Entry /\ NoEntry \notin Entry
  /\ MaxSwaps \in Nat /\ MaxCommands \in Nat /\ MaxDeaths \in Nat
  BY EntryAssumption, BoundAssumption

LEMMA EmptyOK == Empty \in Tree
  BY DEF Empty, Tree

\* Whatever a command says, its plan is dropped.
LEMMA Saying == ASSUME NEW a, Say(a) PROVE PlanType'
  BY EmptyOK DEF Say, PlanType

\* Writing an entry of a tree, or of a backup, leaves a tree, or backups.
LEMMA PutOK ==
  ASSUME NEW v \in {Absent} \cup Copy, NEW e \in Entry
  PROVE  /\ \A f \in Tree : [f EXCEPT ![e] = v] \in Tree
         /\ \A g \in [Swap -> Tree], s \in Swap :
              [g EXCEPT ![s] = [@ EXCEPT ![e] = v]] \in [Swap -> Tree]
  BY DEF Tree

LEMMA TakeOK ==
  ASSUME NEW f \in Tree, NEW e \in Entry PROVE f[e] \in {Absent} \cup Copy
  BY DEF Tree

\* A sweep removes directories and entries, and changes none.
LEMMA Sweeping ==
  ASSUME TypeOK, Sweep
  PROVE  /\ dirs' \subseteq dirs
         /\ saved' \in [Swap -> Tree]
         /\ \A s \in Swap, e \in Entry : saved'[s][e] \in {Absent, saved[s][e]}
  BY DEF Sweep, TypeOK, DiskType, Tree, Absent

\* A sweep of the server changes nothing else, and what it removes is recorded.
LEMMA ServerSweeps ==
  ASSUME TypeOK, BootSweeps \/ Finalize
  PROVE  /\ server \in {"sweeping", "finalizing"} /\ server' \in {server, "up"}
         /\ dirs' \subseteq dirs
         /\ saved' \in [Swap -> Tree]
         /\ \A s \in Swap, e \in Entry : saved'[s][e] \in {Absent, saved[s][e]}
         /\ \/ UNCHANGED <<dirs, saved, swept, owed>>
            \/ swept' = TRUE /\ owed' = FALSE
         /\ UNCHANGED <<install, marker, swaps, leaving>>
         /\ UNCHANGED plan /\ UNCHANGED command
         /\ UNCHANGED <<tree, guarded, unstaged, commands, deaths>>
  BY Sweeping DEF BootSweeps, Finalize, SweepOn

\* A part of the state that does not change keeps its type.
LEMMA Unchanged ==
  /\ DiskType /\ UNCHANGED disk => DiskType'
  /\ ProcessType /\ UNCHANGED process => ProcessType'
  /\ PlanType /\ UNCHANGED plan => PlanType'
  /\ CommandType /\ UNCHANGED command => CommandType'
  /\ PastType /\ UNCHANGED past => PastType'
<1>1. DiskType /\ UNCHANGED disk => DiskType'
  BY DEF DiskType, disk
<1>2. ProcessType /\ UNCHANGED process => ProcessType'
  BY DEF ProcessType, process
<1>3. PlanType /\ UNCHANGED plan => PlanType'
  BY DEF PlanType, plan
<1>4. CommandType /\ UNCHANGED command => CommandType'
  BY DEF CommandType, command
<1>5. PastType /\ UNCHANGED past => PastType'
  BY DEF PastType, past
<1> QED BY <1>1, <1>2, <1>3, <1>4, <1>5

\* Every step keeps the types, one part of the state after another.
LEMMA TypeStep ==
  ASSUME TypeOK, [Next]_vars
  PROVE  TypeOK'
<1> USE DEF TypeOK
<1>1. ASSUME NEW who \in {"server", "cli"}, BeginUpdate(who) PROVE TypeOK'
  <2>1. DiskType'
    BY <1>1, Sweeping DEF DiskType, BeginUpdate
  <2>2. ProcessType'
    BY <1>1, Unchanged DEF BeginUpdate
  <2>3. PlanType'
    BY <1>1, Unchanged DEF BeginUpdate
  <2>4. CommandType'
    BY <1>1 DEF CommandType, BeginUpdate, MayBegin, DiskType
  <2>5. PastType'
    <3>1. commands' \in 0..MaxCommands
      BY <1>1, ConstantsOK DEF BeginUpdate, MayBegin, PastType
    <3> QED BY <1>1, <3>1 DEF BeginUpdate, MayBegin, PastType
  <2> QED BY <2>1, <2>2, <2>3, <2>4, <2>5
<1>2. CASE FetchFails
  <2>1. DiskType'
    BY <1>2, Unchanged DEF FetchFails
  <2>2. ProcessType'
    BY <1>2, Unchanged DEF FetchFails
  <2>3. PlanType'
    BY <1>2, Saying DEF FetchFails
  <2>4. CommandType'
    BY <1>2 DEF CommandType, FetchFails, Say
  <2>5. PastType'
    BY <1>2, Unchanged DEF FetchFails
  <2> QED BY <2>1, <2>2, <2>3, <2>4, <2>5
<1>3. CASE StagingFails
  <2>1. DiskType'
    BY <1>3, Unchanged DEF StagingFails
  <2>2. ProcessType'
    BY <1>3, Unchanged DEF StagingFails
  <2>3. PlanType'
    BY <1>3, Saying DEF StagingFails
  <2>4. CommandType'
    BY <1>3 DEF CommandType, StagingFails, Say
  <2>5. PastType'
    BY <1>3 DEF PastType, StagingFails
  <2> QED BY <2>1, <2>2, <2>3, <2>4, <2>5
<1>4. CASE Fetch
  <2>1. DiskType'
    BY <1>4, Unchanged DEF Fetch
  <2>2. ProcessType'
    BY <1>4, Unchanged DEF Fetch
  <2>3. PlanType'
    BY <1>4, ConstantsOK DEF PlanType, Fetch, Tree, Copy, Swap, DiskType
  <2>4. CommandType'
    BY <1>4 DEF CommandType, Fetch
  <2>5. PastType'
    BY <1>4, Unchanged DEF Fetch
  <2> QED BY <2>1, <2>2, <2>3, <2>4, <2>5
<1>5. CASE BeginRollback
  <2>1. DiskType'
    BY <1>5, Unchanged DEF BeginRollback
  <2>2. ProcessType'
    BY <1>5, Unchanged DEF BeginRollback
  <2>3. PlanType'
    BY <1>5, Saying DEF BeginRollback, DiskType, PlanType
  <2>4. CommandType'
    BY <1>5 DEF CommandType, BeginRollback, Say, MayBegin, DiskType
  <2>5. PastType'
    <3>1. commands' \in 0..MaxCommands
      BY <1>5, ConstantsOK DEF BeginRollback, MayBegin, PastType
    <3> QED BY <1>5, <3>1 DEF BeginRollback, MayBegin, PastType
  <2> QED BY <2>1, <2>2, <2>3, <2>4, <2>5
<1>6. CASE AllocateBackup
  <2>1. DiskType'
    BY <1>6, ConstantsOK DEF DiskType, AllocateBackup, Swap
  <2>2. ProcessType'
    BY <1>6, Unchanged DEF AllocateBackup
  <2>3. PlanType'
    BY <1>6 DEF PlanType, AllocateBackup
  <2>4. CommandType'
    BY <1>6 DEF CommandType, AllocateBackup
  <2>5. PastType'
    BY <1>6, Unchanged DEF AllocateBackup
  <2> QED BY <2>1, <2>2, <2>3, <2>4, <2>5
<1>7. CASE AllocateFails
  <2>1. DiskType'
    BY <1>7, ConstantsOK DEF DiskType, AllocateFails, Swap
  <2>2. ProcessType'
    BY <1>7, Unchanged DEF AllocateFails
  <2>3. PlanType'
    BY <1>7, Saying DEF AllocateFails
  <2>4. CommandType'
    BY <1>7 DEF CommandType, AllocateFails, Say
  <2>5. PastType'
    BY <1>7, Unchanged DEF AllocateFails
  <2> QED BY <2>1, <2>2, <2>3, <2>4, <2>5
<1>8. ASSUME NEW e \in Entry, BackUp(e) PROVE TypeOK'
  <2>1. DiskType'
    <3>1. CASE UNCHANGED <<saved, install>>
      BY <1>8, <3>1 DEF BackUp, DiskType
    <3>2. CASE install[e] # Absent /\ swaps \in dirs
      <4>1. /\ Absent \in {Absent} \cup Copy
            /\ install[e] \in {Absent} \cup Copy
            /\ swaps \in Swap
        BY <3>2, TakeOK DEF DiskType
      <4>2. /\ saved' = [saved EXCEPT ![swaps] = [@ EXCEPT ![e] = install[e]]]
            /\ install' = [install EXCEPT ![e] = Absent]
            /\ UNCHANGED <<dirs, swaps, marker>>
        BY <1>8, <3>2 DEF BackUp
      <4> QED BY <3>2, <4>1, <4>2, PutOK DEF DiskType
    <3> QED BY <1>8, <3>1, <3>2 DEF BackUp
  <2>2. ProcessType'
    BY <1>8, Unchanged DEF BackUp
  <2>3. PlanType'
    BY <1>8 DEF PlanType, BackUp
  <2>4. CommandType'
    BY <1>8, Unchanged DEF BackUp
  <2>5. PastType'
    BY <1>8, Unchanged DEF BackUp
  <2> QED BY <2>1, <2>2, <2>3, <2>4, <2>5
<1>9. CASE Place
  <2>1. DiskType'
    <3>1. /\ moving \in Entry
          /\ Offered(moving) \in {Absent} \cup Copy
          /\ Absent \in {Absent} \cup Copy
      BY <1>9, TakeOK DEF Place, DiskType, PlanType, Offered
    <3>2. install' \in Tree
      BY <1>9, <3>1, PutOK DEF Place, DiskType
    <3>3. CASE source = Release
      BY <1>9, <3>2, <3>3 DEF Place, DiskType
    <3>4. CASE source \in Swap
      BY <1>9, <3>1, <3>2, <3>4, PutOK DEF Place, DiskType
    <3> QED BY <3>3, <3>4 DEF PlanType
  <2>2. ProcessType'
    BY <1>9, Unchanged DEF Place
  <2>3. PlanType'
    BY <1>9 DEF PlanType, Place, Tree
  <2>4. CommandType'
    BY <1>9 DEF CommandType, Place
  <2>5. PastType'
    BY <1>9, Unchanged DEF Place
  <2> QED BY <2>1, <2>2, <2>3, <2>4, <2>5
<1>10. CASE MoveFails
  <2>1. DiskType'
    BY <1>10, Unchanged DEF MoveFails
  <2>2. ProcessType'
    BY <1>10, Unchanged DEF MoveFails
  <2>3. PlanType'
    BY <1>10 DEF PlanType, MoveFails
  <2>4. CommandType'
    BY <1>10 DEF CommandType, MoveFails
  <2>5. PastType'
    BY <1>10, Unchanged DEF MoveFails
  <2> QED BY <2>1, <2>2, <2>3, <2>4, <2>5
<1>11. ASSUME NEW e \in Entry, Restore(e) PROVE TypeOK'
  <2>1. DiskType'
    BY <1>11 DEF DiskType, Restore, Tree
  <2>2. ProcessType'
    BY <1>11, Unchanged DEF Restore
  <2>3. PlanType'
    BY <1>11 DEF PlanType, Restore
  <2>4. CommandType'
    BY <1>11, Unchanged DEF Restore
  <2>5. PastType'
    BY <1>11, Unchanged DEF Restore
  <2> QED BY <2>1, <2>2, <2>3, <2>4, <2>5
<1>12. ASSUME NEW e \in Entry, RestoreFails(e) PROVE TypeOK'
  <2>1. DiskType'
    BY <1>12 DEF DiskType, RestoreFails, Tree
  <2>2. ProcessType'
    BY <1>12, Unchanged DEF RestoreFails
  <2>3. PlanType'
    BY <1>12 DEF PlanType, RestoreFails
  <2>4. CommandType'
    BY <1>12, Unchanged DEF RestoreFails
  <2>5. PastType'
    BY <1>12, Unchanged DEF RestoreFails
  <2> QED BY <2>1, <2>2, <2>3, <2>4, <2>5
<1>13. CASE GiveUp
  <2>1. DiskType'
    BY <1>13, Unchanged DEF GiveUp
  <2>2. ProcessType'
    BY <1>13, Unchanged DEF GiveUp
  <2>3. PlanType'
    BY <1>13, Saying DEF GiveUp
  <2>4. CommandType'
    BY <1>13 DEF CommandType, GiveUp, Say
  <2>5. PastType'
    BY <1>13, Unchanged DEF GiveUp
  <2> QED BY <2>1, <2>2, <2>3, <2>4, <2>5
<1>14. CASE SwapDone
  <2>1. DiskType'
    BY <1>14, Unchanged DEF SwapDone
  <2>2. ProcessType'
    BY <1>14, Unchanged DEF SwapDone
  <2>3. PlanType'
    BY <1>14, Saying, Unchanged DEF SwapDone
  <2>4. CommandType'
    BY <1>14 DEF CommandType, SwapDone, Say
  <2>5. PastType'
    BY <1>14, Unchanged DEF SwapDone
  <2> QED BY <2>1, <2>2, <2>3, <2>4, <2>5
<1>15. CASE MarkPending
  <2>1. DiskType'
    BY <1>15 DEF DiskType, MarkPending
  <2>2. ProcessType'
    BY <1>15 DEF ProcessType, MarkPending
  <2>3. PlanType'
    BY <1>15, Saying DEF MarkPending
  <2>4. CommandType'
    BY <1>15 DEF CommandType, MarkPending, Say
  <2>5. PastType'
    BY <1>15 DEF PastType, MarkPending, CommandType
  <2> QED BY <2>1, <2>2, <2>3, <2>4, <2>5
<1>16. CASE Boot
  <2>1. DiskType'
    BY <1>16, Unchanged DEF Boot
  <2>2. ProcessType'
    BY <1>16 DEF ProcessType, Boot
  <2>3. PlanType'
    BY <1>16, Unchanged DEF Boot
  <2>4. CommandType'
    BY <1>16, Unchanged DEF Boot
  <2>5. PastType'
    BY <1>16, Unchanged DEF Boot
  <2> QED BY <2>1, <2>2, <2>3, <2>4, <2>5
<1>17. CASE ProbeAnswers
  <2>1. DiskType'
    BY <1>17 DEF DiskType, ProbeAnswers
  <2>2. ProcessType'
    BY <1>17 DEF ProcessType, ProbeAnswers
  <2>3. PlanType'
    BY <1>17, Unchanged DEF ProbeAnswers
  <2>4. CommandType'
    BY <1>17, Unchanged DEF ProbeAnswers
  <2>5. PastType'
    BY <1>17 DEF PastType, ProbeAnswers
  <2> QED BY <2>1, <2>2, <2>3, <2>4, <2>5
<1>18. CASE BootSweeps \/ Finalize
  <2>1. DiskType'
    BY <1>18, ServerSweeps DEF DiskType
  <2>2. ProcessType'
    BY <1>18, ServerSweeps DEF ProcessType
  <2>3. PlanType'
    BY <1>18, ServerSweeps, Unchanged
  <2>4. CommandType'
    BY <1>18, ServerSweeps, Unchanged
  <2>5. PastType'
    BY <1>18, ServerSweeps DEF PastType
  <2> QED BY <2>1, <2>2, <2>3, <2>4, <2>5
<1>19. CASE ProbesFail
  <2>1. DiskType'
    BY <1>19, Unchanged DEF ProbesFail
  <2>2. ProcessType'
    BY <1>19 DEF ProcessType, ProbesFail
  <2>3. PlanType'
    BY <1>19, Unchanged DEF ProbesFail
  <2>4. CommandType'
    BY <1>19, Unchanged DEF ProbesFail
  <2>5. PastType'
    BY <1>19, Unchanged DEF ProbesFail
  <2> QED BY <2>1, <2>2, <2>3, <2>4, <2>5
<1>20. CASE Exit
  <2>1. DiskType'
    BY <1>20, Unchanged DEF Exit
  <2>2. ProcessType'
    BY <1>20 DEF ProcessType, Exit
  <2>3. PlanType'
    BY <1>20, Unchanged DEF Exit
  <2>4. CommandType'
    BY <1>20, Unchanged DEF Exit
  <2>5. PastType'
    BY <1>20, Unchanged DEF Exit
  <2> QED BY <2>1, <2>2, <2>3, <2>4, <2>5
<1>21. CASE ServerDies
  <2>1. DiskType'
    BY <1>21, Unchanged DEF ServerDies
  <2>2. ProcessType'
    BY <1>21 DEF ProcessType, ServerDies
  <2>3. PlanType'
    BY <1>21, Saying, Unchanged DEF ServerDies, Vanish
  <2>4. CommandType'
    BY <1>21 DEF CommandType, ServerDies, Say, Vanish
  <2>5. PastType'
    BY <1>21, ConstantsOK DEF PastType, ServerDies
  <2> QED BY <2>1, <2>2, <2>3, <2>4, <2>5
<1>22. CASE CliDies
  <2>1. DiskType'
    BY <1>22, Unchanged DEF CliDies
  <2>2. ProcessType'
    BY <1>22, Unchanged DEF CliDies
  <2>3. PlanType'
    BY <1>22, Saying DEF CliDies, Vanish
  <2>4. CommandType'
    BY <1>22 DEF CommandType, CliDies, Say, Vanish
  <2>5. PastType'
    BY <1>22, ConstantsOK DEF PastType, CliDies
  <2> QED BY <2>1, <2>2, <2>3, <2>4, <2>5
<1>23. CASE UNCHANGED vars
  BY <1>23, Unchanged DEF vars
<1> QED
  BY <1>1, <1>2, <1>3, <1>4, <1>5, <1>6, <1>7, <1>8, <1>9, <1>10, <1>11, <1>12, <1>13, <1>14,
    <1>15, <1>16, <1>17, <1>18, <1>19, <1>20, <1>21, <1>22, <1>23 DEF Next, Swapping

-----------------------------------------------------------------------------
(* What the renames do, entry by entry.                                    *)

LEMMA BackUpEffect ==
  ASSUME TypeOK, NEW e \in Entry, BackUp(e)
  PROVE  /\ \A f \in Entry : f # e => install'[f] = install[f]
         /\ \A s \in Swap, f \in Entry : s # swaps \/ f # e => saved'[s][f] = saved[s][f]
         /\ \/ /\ install[e] # Absent /\ swaps \in dirs
               /\ install'[e] = Absent /\ saved'[swaps][e] = install[e]
               /\ modified' = TRUE /\ undo' = undo \cup {e}
            \/ /\ install[e] = Absent \/ swaps \notin dirs
               /\ UNCHANGED <<install, saved, modified, undo>>
<1>1. CASE install[e] # Absent /\ swaps \in dirs
  <2>1. /\ \A f \in Entry : f # e => install'[f] = install[f]
        /\ install'[e] = Absent
    BY <1>1 DEF BackUp, TypeOK, DiskType, Tree
  <2>2. /\ \A s \in Swap, f \in Entry : s # swaps \/ f # e => saved'[s][f] = saved[s][f]
        /\ saved'[swaps][e] = install[e]
    BY <1>1 DEF BackUp, TypeOK, DiskType, Tree
  <2> QED BY <1>1, <2>1, <2>2 DEF BackUp
<1>2. CASE ~(install[e] # Absent /\ swaps \in dirs)
  BY <1>2 DEF BackUp
<1> QED BY <1>1, <1>2

LEMMA PlaceEffect ==
  ASSUME TypeOK, Place
  PROVE  /\ moving \in Entry /\ Offered(moving) # Absent
         /\ \A f \in Entry : install'[f] = IF f = moving THEN Offered(moving) ELSE install[f]
         /\ \A s \in Swap, f \in Entry :
              saved'[s][f] = IF s = source /\ f = moving THEN Absent ELSE saved[s][f]
         /\ \A f \in Entry : staged'[f] \in {Absent, staged[f]}
<1> USE DEF TypeOK, DiskType, PlanType, Tree
<1>1. CASE source = Release
  BY <1>1 DEF Place, Release, Swap
<1>2. CASE source # Release
  BY <1>2 DEF Place
<1> QED BY <1>1, <1>2

LEMMA RestoreEffect ==
  ASSUME TypeOK, NEW e \in Entry, Restore(e)
  PROVE  /\ saved[swaps][e] # Absent
         /\ \A f \in Entry : install'[f] = IF f = e THEN saved[swaps][e] ELSE install[f]
         /\ \A s \in Swap, f \in Entry :
              saved'[s][f] = IF s = swaps /\ f = e THEN Absent ELSE saved[s][f]
  BY DEF Restore, TypeOK, DiskType, Tree

LEMMA RestoreFailsEffect ==
  ASSUME TypeOK, NEW e \in Entry, RestoreFails(e)
  PROVE  /\ \A f \in Entry : f # e => install'[f] = install[f]
         /\ install'[e] \in {Absent, install[e]}
  BY DEF RestoreFails, TypeOK, DiskType, Tree

\* The numbering is kept: only AllocateBackup makes a directory.
LEMMA OrderStep ==
  ASSUME TypeOK, TypeOK', Order, Course, [Next]_vars
  PROVE  Order'
<1>1. ASSUME NEW who \in {"server", "cli"}, BeginUpdate(who) PROVE Order'
  BY <1>1, Sweeping DEF Order, Underway, plan, BeginUpdate
<1>2. CASE FetchFails
  BY <1>2 DEF Order, Underway, TypeOK, DiskType, Swap, Release, disk, FetchFails, Say
<1>3. CASE StagingFails
  BY <1>3 DEF Order, Underway, TypeOK, DiskType, Swap, Release, disk, StagingFails, Say
<1>4. CASE Fetch
  BY <1>4 DEF Order, Underway, disk, Fetch
<1>5. CASE BeginRollback
  <2>1. CASE dirs = {} /\ Say("nothing")
    BY <1>5, <2>1 DEF Order, Underway, TypeOK, DiskType, Swap, Release, disk, BeginRollback, Say
  <2>2. ASSUME NEW newest \in dirs, Newest(newest), source' = newest, at' = "staged",
               by' = "cli", answer' = "none",
               UNCHANGED <<staged, todo, moving, undo, modified, restored>>
        PROVE  Order'
    BY <1>5, <2>2 DEF Order, Underway, disk, BeginRollback
  <2> QED BY <1>5, <2>1, <2>2 DEF BeginRollback
<1>6. CASE AllocateBackup
  BY <1>6 DEF Order, TypeOK, DiskType, PlanType, Release, AllocateBackup
<1>7. CASE AllocateFails
  BY <1>7 DEF Order, TypeOK, DiskType, Swap, Release, AllocateFails, Say
<1>8. ASSUME NEW e \in Entry, BackUp(e) PROVE Order'
  BY <1>8 DEF Order, Underway, BackUp
<1>9. CASE Place
  BY <1>9 DEF Order, Underway, Place
<1>10. CASE MoveFails
  BY <1>10 DEF Order, Underway, disk, MoveFails
<1>11. ASSUME NEW e \in Entry, Restore(e) PROVE Order'
  BY <1>11 DEF Order, Underway, Restore
<1>12. ASSUME NEW e \in Entry, RestoreFails(e) PROVE Order'
  BY <1>12 DEF Order, Underway, RestoreFails
<1>13. CASE GiveUp
  BY <1>13 DEF Order, Underway, TypeOK, DiskType, Swap, Release, disk, GiveUp, Say
<1>14. CASE SwapDone
  BY <1>14 DEF Order, Underway, TypeOK, DiskType, Swap, Release, disk, plan, SwapDone, Say
<1>15. CASE MarkPending
  BY <1>15 DEF Order, Underway, TypeOK, DiskType, Swap, Release, MarkPending, Say
<1>16. CASE Boot
  BY <1>16 DEF Order, Underway, disk, plan, command, Boot
<1>17. CASE ProbeAnswers
  BY <1>17 DEF Order, Underway, plan, command, ProbeAnswers
<1>18. CASE BootSweeps \/ Finalize
  BY <1>18, ServerSweeps DEF Order, Underway, plan, command
<1>19. CASE ProbesFail
  BY <1>19 DEF Order, Underway, disk, plan, command, ProbesFail
<1>20. CASE Exit
  BY <1>20 DEF Order, Underway, disk, plan, command, Exit
<1>21. CASE ServerDies
  BY <1>21 DEF Order, Underway, TypeOK, DiskType, Swap, Release, disk, plan, ServerDies, Vanish,
    Say
<1>22. CASE CliDies
  BY <1>22 DEF Order, Underway, TypeOK, DiskType, Swap, Release, disk, CliDies, Vanish, Say
<1>23. CASE UNCHANGED vars
  BY <1>23 DEF Order, Underway, disk, plan, command, vars
<1> QED
  BY <1>1, <1>2, <1>3, <1>4, <1>5, <1>6, <1>7, <1>8, <1>9, <1>10, <1>11, <1>12, <1>13, <1>14,
    <1>15, <1>16, <1>17, <1>18, <1>19, <1>20, <1>21, <1>22, <1>23 DEF Next, Swapping

\* Copies only move between install, backups and staging directory.
LEMMA CopiesStep ==
  ASSUME TypeOK, TypeOK', Order, Course, Copies, [Next]_vars
  PROVE  Copies'
<1>1. ASSUME NEW who \in {"server", "cli"}, BeginUpdate(who) PROVE Copies'
  BY <1>1, Sweeping DEF Copies, Underway, Course, TypeOK, DiskType, Swap, Absent, plan,
    BeginUpdate, MayBegin
<1>2. CASE FetchFails
  BY <1>2 DEF Copies, Underway, Empty, disk, FetchFails, Say
<1>3. CASE StagingFails
  BY <1>3 DEF Copies, Underway, Empty, disk, StagingFails, Say
<1>4. CASE Fetch
  BY <1>4 DEF Copies, Underway, disk, Fetch
<1>5. CASE BeginRollback
  <2>1. CASE dirs = {} /\ Say("nothing")
    BY <1>5, <2>1 DEF Copies, Underway, Empty, disk, BeginRollback, Say
  <2>2. ASSUME NEW newest \in dirs, Newest(newest), source' = newest, at' = "staged",
               by' = "cli", answer' = "none",
               UNCHANGED <<staged, todo, moving, undo, modified, restored>>
        PROVE  Copies'
    BY <1>5, <2>2 DEF Copies, Underway, Course, disk, BeginRollback, MayBegin
  <2> QED BY <1>5, <2>1, <2>2 DEF BeginRollback
<1>6. CASE AllocateBackup
  BY <1>6 DEF Copies, Course, TypeOK, DiskType, Tree, Copy, Swap, Absent, AllocateBackup
<1>7. CASE AllocateFails
  BY <1>7 DEF Copies, Underway, Empty, TypeOK, DiskType, Tree, Copy, Swap, Absent,
    AllocateFails, Say
<1>8. ASSUME NEW e \in Entry, BackUp(e) PROVE Copies'
  <2>1. at = "moving" /\ at' = at /\ UNCHANGED <<swaps, before, staged>> /\ swaps \in Nat
    BY <1>8 DEF BackUp, command, TypeOK, DiskType, Swap
  <2>2. 0 <= swaps + 1
    BY <2>1
  <2>3. \A f \in Entry : install'[f] <= swaps + 1
    BY <1>8, <2>2, BackUpEffect DEF Copies, Absent
  <2>4. ASSUME NEW s \in Swap, NEW f \in Entry
        PROVE  saved'[s][f] <= swaps + 1 /\ (s > swaps => saved'[s][f] = Absent)
    <3>1. saved[s][f] <= swaps + 1 /\ (s > swaps => saved[s][f] = Absent)
      BY DEF Copies
    <3>2. CASE s = swaps /\ f = e
      <4>1. ~(s > swaps)
        BY <2>1, <3>2
      <4>2. saved'[s][f] \in {install[e], saved[s][f]}
        BY <1>8, <3>2, BackUpEffect
      <4> QED BY <3>1, <4>1, <4>2 DEF Copies
    <3> QED BY <1>8, <3>1, <3>2, BackUpEffect
  <2> QED BY <2>1, <2>3, <2>4 DEF Copies, Underway
<1>9. CASE Place
  BY <1>9 DEF Copies, Underway, TypeOK, DiskType, PlanType, Tree, Swap, Absent, Place, Offered
<1>10. CASE MoveFails
  BY <1>10 DEF Copies, Underway, disk, MoveFails
<1>11. ASSUME NEW e \in Entry, Restore(e) PROVE Copies'
  BY <1>11 DEF Copies, Underway, TypeOK, DiskType, Swap, Absent, command, Restore
<1>12. ASSUME NEW e \in Entry, RestoreFails(e) PROVE Copies'
  BY <1>12 DEF Copies, Underway, TypeOK, DiskType, Tree, Swap, Absent, command, RestoreFails
<1>13. CASE GiveUp
  BY <1>13 DEF Copies, Underway, Empty, disk, GiveUp, Say
<1>14. CASE SwapDone
  BY <1>14 DEF Copies, Underway, Empty, disk, plan, SwapDone, Say
<1>15. CASE MarkPending
  BY <1>15 DEF Copies, Underway, Empty, MarkPending, Say
<1>16. CASE Boot
  BY <1>16 DEF Copies, Underway, disk, plan, command, Boot
<1>17. CASE ProbeAnswers
  BY <1>17 DEF Copies, Underway, plan, command, ProbeAnswers
<1>18. CASE BootSweeps \/ Finalize
  <2>1. UNCHANGED <<install, swaps>> /\ UNCHANGED plan /\ UNCHANGED command
    BY <1>18, ServerSweeps
  <2>2. \A s \in Swap, e \in Entry : saved'[s][e] \in {Absent, saved[s][e]}
    BY <1>18, ServerSweeps
  <2>3. swaps \in Nat
    BY DEF TypeOK, DiskType, Swap
  <2> QED BY <2>1, <2>2, <2>3 DEF Copies, Underway, Absent, plan, command
<1>19. CASE ProbesFail
  BY <1>19 DEF Copies, Underway, disk, plan, command, ProbesFail
<1>20. CASE Exit
  BY <1>20 DEF Copies, Underway, disk, plan, command, Exit
<1>21. CASE ServerDies
  BY <1>21 DEF Copies, Underway, Empty, disk, plan, ServerDies, Vanish, Say
<1>22. CASE CliDies
  BY <1>22 DEF Copies, Underway, Empty, disk, CliDies, Vanish, Say
<1>23. CASE UNCHANGED vars
  BY <1>23 DEF Copies, Underway, disk, plan, command, vars
<1> QED
  BY <1>1, <1>2, <1>3, <1>4, <1>5, <1>6, <1>7, <1>8, <1>9, <1>10, <1>11, <1>12, <1>13, <1>14,
    <1>15, <1>16, <1>17, <1>18, <1>19, <1>20, <1>21, <1>22, <1>23 DEF Next, Swapping

\* Stages of a command follow one another.
LEMMA CourseStep ==
  ASSUME TypeOK, TypeOK', Course, [Next]_vars
  PROVE  Course'
<1>1. ASSUME NEW who \in {"server", "cli"}, BeginUpdate(who) PROVE Course'
  BY <1>1 DEF Course, Underway, plan, BeginUpdate, MayBegin
<1>2. CASE FetchFails
  BY <1>2 DEF Course, FetchFails, Say
<1>3. CASE StagingFails
  BY <1>3 DEF Course, StagingFails, Say
<1>4. CASE Fetch
  BY <1>4 DEF Course, Underway, disk, Fetch
<1>5. CASE BeginRollback
  <2>1. CASE dirs = {} /\ Say("nothing")
    BY <1>5, <2>1 DEF Course, Say
  <2>2. ASSUME NEW newest \in dirs, Newest(newest), source' = newest, at' = "staged",
               by' = "cli", answer' = "none",
               UNCHANGED <<staged, todo, moving, undo, modified, restored>>
        PROVE  Course'
    BY <1>5, <2>2 DEF Course, Underway, disk, BeginRollback, MayBegin
  <2> QED BY <1>5, <2>1, <2>2 DEF BeginRollback
<1>6. CASE AllocateBackup
  BY <1>6 DEF Course, Underway, AllocateBackup
<1>7. CASE AllocateFails
  BY <1>7 DEF Course, AllocateFails, Say
<1>8. ASSUME NEW e \in Entry, BackUp(e) PROVE Course'
  BY <1>8 DEF Course, Underway, command, BackUp
<1>9. CASE Place
  BY <1>9 DEF Course, Underway, Place
<1>10. CASE MoveFails
  BY <1>10 DEF Course, Underway, MoveFails
<1>11. ASSUME NEW e \in Entry, Restore(e) PROVE Course'
  BY <1>11 DEF Course, Underway, command, Restore
<1>12. ASSUME NEW e \in Entry, RestoreFails(e) PROVE Course'
  BY <1>12 DEF Course, Underway, command, RestoreFails
<1>13. CASE GiveUp
  BY <1>13 DEF Course, GiveUp, Say
<1>14. CASE SwapDone
  BY <1>14 DEF Course, Underway, plan, SwapDone, Say
<1>15. CASE MarkPending
  BY <1>15 DEF Course, MarkPending, Say
<1>16. CASE Boot
  BY <1>16 DEF Course, Underway, disk, plan, command, Boot
<1>17. CASE ProbeAnswers
  BY <1>17 DEF Course, Underway, plan, command, ProbeAnswers
<1>18. CASE BootSweeps \/ Finalize
  <2>1. UNCHANGED install /\ UNCHANGED plan /\ UNCHANGED command
    BY <1>18, ServerSweeps
  <2> QED BY <2>1 DEF Course, Underway, plan, command
<1>19. CASE ProbesFail
  BY <1>19 DEF Course, Underway, disk, plan, command, ProbesFail
<1>20. CASE Exit
  BY <1>20 DEF Course, Underway, disk, plan, command, Exit
<1>21. CASE ServerDies
  BY <1>21 DEF Course, Underway, disk, plan, ServerDies, Vanish, Say
<1>22. CASE CliDies
  BY <1>22 DEF Course, CliDies, Vanish, Say
<1>23. CASE UNCHANGED vars
  BY <1>23 DEF Course, Underway, disk, plan, command, vars
<1> QED
  BY <1>1, <1>2, <1>3, <1>4, <1>5, <1>6, <1>7, <1>8, <1>9, <1>10, <1>11, <1>12, <1>13, <1>14,
    <1>15, <1>16, <1>17, <1>18, <1>19, <1>20, <1>21, <1>22, <1>23 DEF Next, Swapping

\* Each rename keeps the journal true of what lies on the disk.
LEMMA JournalStep ==
  ASSUME TypeOK, TypeOK', Order, Copies, Course, Journal, [Next]_vars
  PROVE  Journal'
<1>1. ASSUME NEW who \in {"server", "cli"}, BeginUpdate(who) PROVE Journal'
  BY <1>1 DEF Journal, Underway, BeginUpdate
<1>2. CASE FetchFails
  BY <1>2 DEF Journal, Underway, FetchFails, Say
<1>3. CASE StagingFails
  BY <1>3 DEF Journal, Underway, StagingFails, Say
<1>4. CASE Fetch
  BY <1>4 DEF Journal, Underway, Fetch
<1>5. CASE BeginRollback
  BY <1>5 DEF Journal, Underway, BeginRollback, Say
<1>6. CASE AllocateBackup
  <2>1. /\ at = "staged" /\ swaps < MaxSwaps /\ swaps' = swaps + 1 /\ at' = "moving"
        /\ dirs' = dirs \cup {swaps + 1} /\ moving \notin todo'
        /\ UNCHANGED <<install, saved, moving, undo, modified, restored, before>>
    <3>1. moving = NoEntry
      BY <1>6 DEF Course, AllocateBackup
    <3>2. moving \notin todo'
      BY <1>6, <3>1, ConstantsOK DEF AllocateBackup
    <3>. QED
      BY <1>6, <3>2 DEF AllocateBackup
  <2>2. install = before /\ undo = {} /\ ~modified /\ restored /\ moving = NoEntry
    BY <2>1 DEF Course, Underway
  <2>3. swaps + 1 \in Swap /\ swaps + 1 > swaps
    BY <2>1, ConstantsOK DEF Swap, TypeOK, DiskType
  <2>4. \A e \in Entry : saved[swaps + 1][e] = Absent
    BY <2>3 DEF Copies
  <2>. QED
    BY <2>1, <2>2, <2>4 DEF Journal, Underway
<1>7. CASE AllocateFails
  BY <1>7 DEF Journal, Underway, AllocateFails, Say
<1>8. ASSUME NEW e \in Entry, BackUp(e) PROVE Journal'
  <2>1. /\ at = "moving" /\ at' = at /\ moving = NoEntry /\ e \in todo
        /\ todo' = todo \ {e} /\ moving' = e
        /\ UNCHANGED <<dirs, swaps, before, restored, swept>>
    BY <1>8 DEF BackUp, command, past
  <2>2. swaps \in Swap
    BY <2>1 DEF Order, Underway, TypeOK, DiskType, PlanType, Swap, Release
  <2>3. restored /\ (\A f \in Entry \ undo : install[f] = before[f])
    BY <2>1 DEF Journal, Underway
  <2>a. e \notin undo
    BY <2>1 DEF Journal, Underway
  <2>b. install[e] = before[e]
    BY <1>8, <2>3, <2>a
  <2>c. \A f \in Entry : saved[swaps][f] \in {Absent, before[f]}
    BY <2>1 DEF Journal, Underway
  <2>d. \A f \in Entry : saved'[swaps][f] \in {Absent, before[f]}
    BY <1>8, <2>2, <2>b, <2>c, BackUpEffect
  <2>4. e \notin todo' /\ undo' \cap todo' = {}
    BY <1>8, <2>1, BackUpEffect DEF Journal, Underway
  <2>5. \A f \in Entry \ undo' : install'[f] = before[f]
    BY <1>8, <2>3, BackUpEffect
  <2>6. ~modified' => undo' = {}
    BY <1>8, <2>1, BackUpEffect DEF Journal, Underway
  <2>7. ASSUME ~swept
        PROVE  /\ swaps \in dirs /\ install'[e] = Absent
               /\ \A f \in undo' : before[f] # Absent => saved'[swaps][f] = before[f]
    <3>1. /\ swaps \in dirs
          /\ \A f \in undo : before[f] # Absent => saved[swaps][f] = before[f]
      BY <2>1, <2>7 DEF Journal, Underway
    <3>2. install'[e] = Absent
      BY <1>8, <3>1, BackUpEffect
    <3>3. undo \subseteq Entry
      BY DEF TypeOK, PlanType
    <3>4. CASE install[e] = Absent
      BY <1>8, <3>1, <3>4, BackUpEffect
    <3>5. CASE install[e] # Absent
      <4>1. undo' = undo \cup {e} /\ saved'[swaps][e] = before[e]
        BY <1>8, <2>b, <3>1, <3>5, BackUpEffect
      <4>2. \A f \in undo : saved'[swaps][f] = saved[swaps][f]
        BY <1>8, <2>2, <2>a, <3>3, BackUpEffect
      <4> QED BY <3>1, <3>2, <4>1, <4>2
    <3> QED BY <3>1, <3>2, <3>4, <3>5
  <2> QED BY <2>1, <2>3, <2>d, <2>4, <2>5, <2>6, <2>7 DEF Journal, Underway
<1>9. CASE Place
  BY <1>9, ConstantsOK DEF Journal, Order, Underway, TypeOK, DiskType, PlanType, Swap, past,
    Place
<1>10. CASE MoveFails
  BY <1>10 DEF Journal, Underway, disk, past, MoveFails
<1>11. ASSUME NEW e \in Entry, Restore(e) PROVE Journal'
  BY <1>11 DEF Journal, Course, TypeOK, DiskType, Tree, command, past, Restore
<1>12. ASSUME NEW e \in Entry, RestoreFails(e) PROVE Journal'
  BY <1>12 DEF Journal, Course, command, past, RestoreFails
<1>13. CASE GiveUp
  BY <1>13 DEF Journal, Underway, GiveUp, Say
<1>14. CASE SwapDone
  BY <1>14 DEF Journal, Underway, disk, plan, past, SwapDone, Say
<1>15. CASE MarkPending
  BY <1>15 DEF Journal, Underway, MarkPending, Say
<1>16. CASE Boot
  BY <1>16 DEF Journal, Underway, disk, plan, command, past, Boot
<1>17. CASE ProbeAnswers
  BY <1>17 DEF Journal, Underway, plan, command, ProbeAnswers
<1>18. CASE BootSweeps \/ Finalize
  <2>1. CASE UNCHANGED <<dirs, saved, swept, owed>>
    BY <1>18, <2>1, ServerSweeps DEF Journal, Underway, plan, command
  <2>2. CASE swept' = TRUE /\ owed' = FALSE
    <3>1. UNCHANGED <<install, swaps>> /\ UNCHANGED plan /\ UNCHANGED command
      BY <1>18, ServerSweeps
    <3>2. \A s \in Swap, e \in Entry : saved'[s][e] \in {Absent, saved[s][e]}
      BY <1>18, ServerSweeps
    <3>3. Underway => swaps \in Swap
      BY DEF Underway, Order, TypeOK, DiskType, PlanType, Swap, Release
    <3> QED BY <2>2, <3>1, <3>2, <3>3 DEF Journal, Underway, plan, command
  <2> QED BY <1>18, <2>1, <2>2, ServerSweeps
<1>19. CASE ProbesFail
  BY <1>19 DEF Journal, Underway, disk, plan, command, past, ProbesFail
<1>20. CASE Exit
  BY <1>20 DEF Journal, Underway, disk, plan, command, past, Exit
<1>21. CASE ServerDies
  BY <1>21 DEF Journal, Underway, disk, plan, ServerDies, Vanish, Say
<1>22. CASE CliDies
  BY <1>22 DEF Journal, Underway, CliDies, Vanish, Say
<1>23. CASE UNCHANGED vars
  BY <1>23 DEF Journal, Underway, disk, plan, command, past, vars
<1> QED
  BY <1>1, <1>2, <1>3, <1>4, <1>5, <1>6, <1>7, <1>8, <1>9, <1>10, <1>11, <1>12, <1>13, <1>14,
    <1>15, <1>16, <1>17, <1>18, <1>19, <1>20, <1>21, <1>22, <1>23 DEF Next, Swapping

\* An entry joins those to be put back when it ceases to be the old one, and
\* leaves them when it is, or when putting it back has failed.
LEMMA BlameStep ==
  ASSUME TypeOK, TypeOK', Order, Copies, Course, Journal, Blame, [Next]_vars
  PROVE  Blame'
<1>1. ASSUME NEW who \in {"server", "cli"}, BeginUpdate(who) PROVE Blame'
  BY <1>1 DEF Blame, Underway, BeginUpdate
<1>2. CASE FetchFails
  BY <1>2 DEF Blame, FetchFails, Say
<1>3. CASE StagingFails
  BY <1>3 DEF Blame, StagingFails, Say
<1>4. CASE Fetch
  BY <1>4 DEF Blame, Underway, Fetch
<1>5. CASE BeginRollback
  BY <1>5 DEF Blame, Underway, BeginRollback, Say
<1>6. CASE AllocateBackup
  BY <1>6 DEF Blame, Course, AllocateBackup
<1>7. CASE AllocateFails
  BY <1>7 DEF Blame, AllocateFails, Say
<1>8. ASSUME NEW e \in Entry, BackUp(e) PROVE Blame'
  BY <1>8 DEF Blame, Journal, Underway, TypeOK, DiskType, PlanType, Tree, command, BackUp
<1>9. CASE Place
  <2>1. /\ at = "moving" /\ at' = at /\ UNCHANGED <<source, before, restored, swaps>>
        /\ added' = (added \/ before[moving] = Absent) /\ undo' = undo \cup {moving}
    BY <1>9 DEF Place
  <2>2. restored' /\ moving \in Entry
    BY <1>9, <2>1, PlaceEffect DEF Journal, Underway
  <2>3. ASSUME source = Release, NEW f \in undo', before[f] # Absent
        PROVE  install'[f] # before[f]
    <3>1. CASE f = moving
      <4>1. install'[f] = swaps + 1 /\ before[f] <= swaps /\ swaps \in Nat
        BY <1>9, <2>1, <2>2, <2>3, <3>1, PlaceEffect
           DEF Copies, Underway, Offered, TypeOK, DiskType, Swap
      <4> QED BY <4>1, <3>1, <2>2 DEF TypeOK, CommandType, Tree, Copy, Absent
    <3>2. CASE f # moving
      BY <1>9, <2>1, <2>3, <3>2, PlaceEffect DEF Blame, Underway, TypeOK, PlanType
    <3> QED BY <3>1, <3>2
  <2>4. ASSUME source = Release, NEW f \in undo', before[f] = Absent
        PROVE  added'
    BY <2>1, <2>4 DEF Blame, Underway
  <2> QED BY <2>1, <2>2, <2>3, <2>4 DEF Blame
<1>10. CASE MoveFails
  BY <1>10 DEF Blame, Underway, disk, MoveFails
<1>11. ASSUME NEW e \in Entry, Restore(e) PROVE Blame'
  BY <1>11 DEF Blame, Underway, command, Restore
<1>12. ASSUME NEW e \in Entry, RestoreFails(e) PROVE Blame'
  BY ZenonT(60), <1>12, RestoreFailsEffect DEF Blame, Underway, TypeOK, PlanType, command, RestoreFails
<1>13. CASE GiveUp
  BY <1>13 DEF Blame, GiveUp, Say
<1>14. CASE SwapDone
  BY <1>14 DEF Blame, Underway, disk, plan, SwapDone, Say
<1>15. CASE MarkPending
  BY <1>15 DEF Blame, MarkPending, Say
<1>16. CASE Boot
  BY <1>16 DEF Blame, Underway, disk, plan, command, Boot
<1>17. CASE ProbeAnswers
  BY <1>17 DEF Blame, Underway, plan, command, ProbeAnswers
<1>18. CASE BootSweeps \/ Finalize
  BY <1>18, ServerSweeps DEF Blame, Underway, plan, command
<1>19. CASE ProbesFail
  BY <1>19 DEF Blame, Underway, disk, plan, command, ProbesFail
<1>20. CASE Exit
  BY <1>20 DEF Blame, Underway, disk, plan, command, Exit
<1>21. CASE ServerDies
  BY <1>21 DEF Blame, Underway, disk, plan, ServerDies, Vanish, Say
<1>22. CASE CliDies
  BY <1>22 DEF Blame, CliDies, Vanish, Say
<1>23. CASE UNCHANGED vars
  BY <1>23 DEF Blame, Underway, disk, plan, command, vars
<1> QED
  BY <1>1, <1>2, <1>3, <1>4, <1>5, <1>6, <1>7, <1>8, <1>9, <1>10, <1>11, <1>12, <1>13, <1>14,
    <1>15, <1>16, <1>17, <1>18, <1>19, <1>20, <1>21, <1>22, <1>23 DEF Next, Swapping

\* Whatever could touch the backup ends the time in which it is guarded.
LEMMA GuardStep ==
  ASSUME TypeOK, TypeOK', Course, Journal, Guard, [Next]_vars
  PROVE  Guard'
<1>1. ASSUME NEW who \in {"server", "cli"}, BeginUpdate(who) PROVE Guard'
  BY <1>1 DEF Guard, BeginUpdate, MayBegin
<1>2. CASE FetchFails
  BY <1>2 DEF Guard, past, FetchFails
<1>3. CASE StagingFails
  BY <1>3 DEF Guard, past, StagingFails
<1>4. CASE Fetch
  BY <1>4 DEF Guard, past, Fetch
<1>5. CASE BeginRollback
  BY <1>5 DEF Guard, BeginRollback, MayBegin
<1>6. CASE AllocateBackup
  BY <1>6 DEF Guard, past, AllocateBackup
<1>7. CASE AllocateFails
  BY <1>7 DEF Guard, past, AllocateFails
<1>8. ASSUME NEW e \in Entry, BackUp(e) PROVE Guard'
  BY <1>8 DEF Guard, past, BackUp
<1>9. CASE Place
  BY <1>9 DEF Guard, past, Place
<1>10. CASE MoveFails
  BY <1>10 DEF Guard, past, MoveFails
<1>11. ASSUME NEW e \in Entry, Restore(e) PROVE Guard'
  BY <1>11 DEF Guard, past, Restore
<1>12. ASSUME NEW e \in Entry, RestoreFails(e) PROVE Guard'
  BY <1>12 DEF Guard, past, RestoreFails
<1>13. CASE GiveUp
  BY <1>13 DEF Guard, past, GiveUp
<1>14. CASE SwapDone
  BY <1>14 DEF Guard, past, SwapDone
<1>15. CASE MarkPending
  BY <1>15 DEF Guard, Journal, Underway, MarkPending, Say
<1>16. CASE Boot
  BY <1>16 DEF Guard, disk, command, past, Boot
<1>17. CASE ProbeAnswers
  BY <1>17 DEF Guard, ProbeAnswers
<1>18. CASE BootSweeps \/ Finalize
  BY <1>18, ServerSweeps DEF Guard
<1>19. CASE ProbesFail
  BY <1>19 DEF Guard, disk, command, past, ProbesFail
<1>20. CASE Exit
  BY <1>20 DEF Guard, disk, command, past, Exit
<1>21. CASE ServerDies
  BY <1>21 DEF Guard, disk, ServerDies, Vanish, Say
<1>22. CASE CliDies
  BY <1>22 DEF Guard, Course, CliDies
<1>23. CASE UNCHANGED vars
  BY <1>23 DEF Guard, disk, process, command, past, vars
<1> QED
  BY <1>1, <1>2, <1>3, <1>4, <1>5, <1>6, <1>7, <1>8, <1>9, <1>10, <1>11, <1>12, <1>13, <1>14,
    <1>15, <1>16, <1>17, <1>18, <1>19, <1>20, <1>21, <1>22, <1>23 DEF Next, Swapping

\* A rollback takes the guarded backup and moves its entries one by one.
LEMMA DebtStep ==
  ASSUME TypeOK, TypeOK', Order, Copies, Course, Journal, Guard, NothingIsLost, Debt, [Next]_vars
  PROVE  Debt'
<1>1. ASSUME NEW who \in {"server", "cli"}, BeginUpdate(who) PROVE Debt'
  BY <1>1 DEF Debt, BeginUpdate
<1>2. CASE FetchFails
  BY <1>2 DEF Debt, FetchFails, Say
<1>3. CASE StagingFails
  BY <1>3 DEF Debt, StagingFails, Say
<1>4. CASE Fetch
  BY <1>4 DEF Debt, past, Fetch
<1>5. CASE BeginRollback
  <2>1. CASE dirs = {} /\ Say("nothing")
    BY <1>5, <2>1 DEF Debt, Say
  <2>2. ASSUME NEW newest \in dirs, Newest(newest), source' = newest, at' = "staged",
               by' = "cli", answer' = "none",
               UNCHANGED <<staged, todo, moving, undo, modified, restored>>
        PROVE  Debt'
    BY <1>5, <2>2 DEF Debt, Guard, NothingIsLost, InPlaceOrSaved, Order, TypeOK, DiskType,
      Release, disk, BeginRollback, Newest
  <2> QED BY <1>5, <2>1, <2>2 DEF BeginRollback
<1>6. CASE AllocateBackup
  BY <1>6, ConstantsOK DEF Debt, Course, past, AllocateBackup, Offered
<1>7. CASE AllocateFails
  BY <1>7 DEF Debt, AllocateFails, Say
<1>8. ASSUME NEW e \in Entry, BackUp(e) PROVE Debt'
  BY <1>8, ConstantsOK DEF Debt, Guard, Journal, Underway, TypeOK, DiskType, PlanType, Tree,
    command, past, BackUp
<1>9. CASE Place
  BY <1>9, PlaceEffect, ConstantsOK DEF Debt, Journal, Underway, TypeOK, PlanType, past, Place,
    Offered
<1>10. CASE MoveFails
  BY <1>10 DEF Debt, MoveFails
<1>11. ASSUME NEW e \in Entry, Restore(e) PROVE Debt'
  BY <1>11 DEF Debt, command, Restore
<1>12. ASSUME NEW e \in Entry, RestoreFails(e) PROVE Debt'
  BY <1>12 DEF Debt, command, RestoreFails
<1>13. CASE GiveUp
  BY <1>13 DEF Debt, GiveUp, Say
<1>14. CASE SwapDone
  BY <1>14 DEF Debt, past, SwapDone, Say
<1>15. CASE MarkPending
  BY <1>15 DEF Debt, MarkPending
<1>16. CASE Boot
  BY <1>16 DEF Debt, disk, plan, command, past, Boot
<1>17. CASE ProbeAnswers
  BY <1>17 DEF Debt, plan, command, ProbeAnswers
<1>18. CASE BootSweeps \/ Finalize
  <2>1. CASE UNCHANGED <<dirs, saved, swept, owed>>
    BY <1>18, <2>1, ServerSweeps DEF Debt, plan, command
  <2>2. CASE swept' = TRUE /\ owed' = FALSE
    BY <1>18, <2>2, ServerSweeps DEF Debt
  <2> QED BY <1>18, <2>1, <2>2, ServerSweeps
<1>19. CASE ProbesFail
  BY <1>19 DEF Debt, disk, plan, command, past, ProbesFail
<1>20. CASE Exit
  BY <1>20 DEF Debt, disk, plan, command, past, Exit
<1>21. CASE ServerDies
  BY <1>21 DEF Debt, disk, plan, ServerDies, Vanish, Say
<1>22. CASE CliDies
  BY <1>22 DEF Debt, CliDies, Vanish, Say
<1>23. CASE UNCHANGED vars
  BY <1>23 DEF Debt, disk, plan, command, past, vars
<1> QED
  BY <1>1, <1>2, <1>3, <1>4, <1>5, <1>6, <1>7, <1>8, <1>9, <1>10, <1>11, <1>12, <1>13, <1>14,
    <1>15, <1>16, <1>17, <1>18, <1>19, <1>20, <1>21, <1>22, <1>23 DEF Next, Swapping

\* The verdict is given in GiveUp, where everything has been put back or not.
LEMMA VerdictStep ==
  ASSUME TypeOK, TypeOK', Course, Journal, Blame, VerdictIsTrue, [Next]_vars
  PROVE  VerdictIsTrue'
<1>1. ASSUME NEW who \in {"server", "cli"}, BeginUpdate(who) PROVE VerdictIsTrue'
  BY <1>1 DEF VerdictIsTrue, BeginUpdate
<1>2. CASE FetchFails
  BY <1>2 DEF VerdictIsTrue, Course, disk, FetchFails, Say
<1>3. CASE StagingFails
  BY <1>3 DEF VerdictIsTrue, Course, disk, StagingFails, Say
<1>4. CASE Fetch
  BY <1>4 DEF VerdictIsTrue, Course, Fetch
<1>5. CASE BeginRollback
  BY <1>5 DEF VerdictIsTrue, BeginRollback, Say
<1>6. CASE AllocateBackup
  BY <1>6 DEF VerdictIsTrue, past, AllocateBackup
<1>7. CASE AllocateFails
  BY <1>7 DEF VerdictIsTrue, Course, AllocateFails, Say
<1>8. ASSUME NEW e \in Entry, BackUp(e) PROVE VerdictIsTrue'
  BY <1>8 DEF VerdictIsTrue, Course, command, BackUp
<1>9. CASE Place
  BY <1>9 DEF VerdictIsTrue, Course, Place
<1>10. CASE MoveFails
  BY <1>10 DEF VerdictIsTrue, Course, MoveFails
<1>11. ASSUME NEW e \in Entry, Restore(e) PROVE VerdictIsTrue'
  BY <1>11 DEF VerdictIsTrue, Course, command, Restore
<1>12. ASSUME NEW e \in Entry, RestoreFails(e) PROVE VerdictIsTrue'
  BY <1>12 DEF VerdictIsTrue, Course, command, RestoreFails
<1>13. CASE GiveUp
  BY <1>13 DEF VerdictIsTrue, Journal, Blame, Underway, TypeOK, DiskType, CommandType, Tree,
    disk, GiveUp, Say
<1>14. CASE SwapDone
  BY <1>14 DEF VerdictIsTrue, Course, SwapDone, Say
<1>15. CASE MarkPending
  BY <1>15 DEF VerdictIsTrue, MarkPending, Say
<1>16. CASE Boot
  BY <1>16 DEF VerdictIsTrue, disk, command, past, Boot
<1>17. CASE ProbeAnswers
  BY <1>17 DEF VerdictIsTrue, command, ProbeAnswers
<1>18. CASE BootSweeps \/ Finalize
  BY <1>18, ServerSweeps DEF VerdictIsTrue, command
<1>19. CASE ProbesFail
  BY <1>19 DEF VerdictIsTrue, disk, command, past, ProbesFail
<1>20. CASE Exit
  BY <1>20 DEF VerdictIsTrue, disk, command, past, Exit
<1>21. CASE ServerDies
  BY <1>21 DEF VerdictIsTrue, disk, ServerDies, Vanish, Say
<1>22. CASE CliDies
  BY <1>22 DEF VerdictIsTrue, CliDies, Vanish, Say
<1>23. CASE UNCHANGED vars
  BY <1>23 DEF VerdictIsTrue, disk, command, past, vars
<1> QED
  BY <1>1, <1>2, <1>3, <1>4, <1>5, <1>6, <1>7, <1>8, <1>9, <1>10, <1>11, <1>12, <1>13, <1>14,
    <1>15, <1>16, <1>17, <1>18, <1>19, <1>20, <1>21, <1>22, <1>23 DEF Next, Swapping

\* An entry leaves the install only for the backup of its swap.
LEMMA LostStep ==
  ASSUME TypeOK, TypeOK', Order, Copies, Course, Journal, NothingIsLost, [Next]_vars
  PROVE  NothingIsLost'
<1>1. ASSUME NEW who \in {"server", "cli"}, BeginUpdate(who) PROVE NothingIsLost'
  BY <1>1 DEF NothingIsLost, InPlaceOrSaved, BeginUpdate, MayBegin
<1>2. CASE FetchFails
  BY <1>2 DEF NothingIsLost, InPlaceOrSaved, Course, disk, FetchFails
<1>3. CASE StagingFails
  BY <1>3 DEF NothingIsLost, InPlaceOrSaved, Course, disk, StagingFails
<1>4. CASE Fetch
  BY <1>4 DEF NothingIsLost, InPlaceOrSaved, Course, disk, Fetch
<1>5. CASE BeginRollback
  BY <1>5 DEF NothingIsLost, InPlaceOrSaved, disk, BeginRollback, MayBegin
<1>6. CASE AllocateBackup
  BY <1>6 DEF NothingIsLost, InPlaceOrSaved, Course, AllocateBackup
<1>7. CASE AllocateFails
  BY <1>7 DEF NothingIsLost, InPlaceOrSaved, Course, AllocateFails
<1>8. ASSUME NEW e \in Entry, BackUp(e) PROVE NothingIsLost'
  BY <1>8 DEF NothingIsLost, InPlaceOrSaved, Journal, Underway, TypeOK, DiskType, Tree, command,
    past, BackUp
<1>9. CASE Place
  BY <1>9, PlaceEffect DEF NothingIsLost, InPlaceOrSaved, Journal, Underway, TypeOK, DiskType,
    past, Place, Offered
<1>10. CASE MoveFails
  BY <1>10 DEF NothingIsLost, InPlaceOrSaved, disk, past, MoveFails
<1>11. ASSUME NEW e \in Entry, Restore(e) PROVE NothingIsLost'
  BY <1>11 DEF NothingIsLost, InPlaceOrSaved, Journal, Underway, TypeOK, DiskType, Tree,
    command, past, Restore
<1>12. ASSUME NEW e \in Entry, RestoreFails(e) PROVE NothingIsLost'
  BY <1>12, RestoreFailsEffect DEF NothingIsLost, InPlaceOrSaved, Journal, Underway, command,
    past, RestoreFails
<1>13. CASE GiveUp
  BY <1>13 DEF NothingIsLost, InPlaceOrSaved, disk, past, GiveUp
<1>14. CASE SwapDone
  BY <1>14 DEF NothingIsLost, InPlaceOrSaved, disk, past, SwapDone
<1>15. CASE MarkPending
  BY <1>15 DEF NothingIsLost, InPlaceOrSaved, MarkPending
<1>16. CASE Boot
  BY <1>16 DEF NothingIsLost, InPlaceOrSaved, disk, command, past, Boot
<1>17. CASE ProbeAnswers
  BY <1>17 DEF NothingIsLost, InPlaceOrSaved, command, ProbeAnswers
<1>18. CASE BootSweeps \/ Finalize
  <2>1. CASE UNCHANGED <<dirs, saved, swept, owed>>
    BY <1>18, <2>1, ServerSweeps DEF NothingIsLost, InPlaceOrSaved, command
  <2>2. CASE swept' = TRUE /\ owed' = FALSE
    BY <1>18, <2>2, ServerSweeps DEF NothingIsLost
  <2> QED BY <1>18, <2>1, <2>2, ServerSweeps
<1>19. CASE ProbesFail
  BY <1>19 DEF NothingIsLost, InPlaceOrSaved, disk, command, past, ProbesFail
<1>20. CASE Exit
  BY <1>20 DEF NothingIsLost, InPlaceOrSaved, disk, command, past, Exit
<1>21. CASE ServerDies
  BY <1>21 DEF NothingIsLost, InPlaceOrSaved, disk, ServerDies
<1>22. CASE CliDies
  BY <1>22 DEF NothingIsLost, InPlaceOrSaved, disk, CliDies
<1>23. CASE UNCHANGED vars
  BY <1>23 DEF NothingIsLost, InPlaceOrSaved, disk, command, past, vars
<1> QED
  BY <1>1, <1>2, <1>3, <1>4, <1>5, <1>6, <1>7, <1>8, <1>9, <1>10, <1>11, <1>12, <1>13, <1>14,
    <1>15, <1>16, <1>17, <1>18, <1>19, <1>20, <1>21, <1>22, <1>23 DEF Next, Swapping

\* A rollback that is done has moved every entry it owed.
LEMMA RollbackStep ==
  ASSUME TypeOK, TypeOK', Course, Guard, Debt, RollbackIsWhole, [Next]_vars
  PROVE  RollbackIsWhole'
<1>1. ASSUME NEW who \in {"server", "cli"}, BeginUpdate(who) PROVE RollbackIsWhole'
  BY <1>1 DEF RollbackIsWhole, BeginUpdate
<1>2. CASE FetchFails
  BY <1>2 DEF RollbackIsWhole, FetchFails, Say
<1>3. CASE StagingFails
  BY <1>3 DEF RollbackIsWhole, StagingFails, Say
<1>4. CASE Fetch
  BY <1>4 DEF RollbackIsWhole, Course, Fetch
<1>5. CASE BeginRollback
  BY <1>5 DEF RollbackIsWhole, Guard, BeginRollback
<1>6. CASE AllocateBackup
  BY <1>6 DEF RollbackIsWhole, Course, AllocateBackup
<1>7. CASE AllocateFails
  BY <1>7 DEF RollbackIsWhole, AllocateFails, Say
<1>8. ASSUME NEW e \in Entry, BackUp(e) PROVE RollbackIsWhole'
  BY <1>8 DEF RollbackIsWhole, Course, command, BackUp
<1>9. CASE Place
  BY <1>9 DEF RollbackIsWhole, Course, Place
<1>10. CASE MoveFails
  BY <1>10 DEF RollbackIsWhole, Course, MoveFails
<1>11. ASSUME NEW e \in Entry, Restore(e) PROVE RollbackIsWhole'
  BY <1>11 DEF RollbackIsWhole, Course, command, Restore
<1>12. ASSUME NEW e \in Entry, RestoreFails(e) PROVE RollbackIsWhole'
  BY <1>12 DEF RollbackIsWhole, Course, command, RestoreFails
<1>13. CASE GiveUp
  BY <1>13 DEF RollbackIsWhole, GiveUp, Say
<1>14. CASE SwapDone
  BY <1>14, ConstantsOK DEF RollbackIsWhole, Debt, disk, past, SwapDone, Say
<1>15. CASE MarkPending
  BY <1>15 DEF RollbackIsWhole, MarkPending, Say
<1>16. CASE Boot
  BY <1>16 DEF RollbackIsWhole, disk, command, past, Boot
<1>17. CASE ProbeAnswers
  BY <1>17 DEF RollbackIsWhole, command, ProbeAnswers
<1>18. CASE BootSweeps \/ Finalize
  <2>1. CASE UNCHANGED <<dirs, saved, swept, owed>>
    BY <1>18, <2>1, ServerSweeps DEF RollbackIsWhole, command
  <2>2. CASE swept' = TRUE /\ owed' = FALSE
    BY <1>18, <2>2, ServerSweeps DEF RollbackIsWhole
  <2> QED BY <1>18, <2>1, <2>2, ServerSweeps
<1>19. CASE ProbesFail
  BY <1>19 DEF RollbackIsWhole, disk, command, past, ProbesFail
<1>20. CASE Exit
  BY <1>20 DEF RollbackIsWhole, disk, command, past, Exit
<1>21. CASE ServerDies
  BY <1>21 DEF RollbackIsWhole, disk, ServerDies, Vanish, Say
<1>22. CASE CliDies
  BY <1>22 DEF RollbackIsWhole, CliDies, Vanish, Say
<1>23. CASE UNCHANGED vars
  BY <1>23 DEF RollbackIsWhole, disk, command, past, vars
<1> QED
  BY <1>1, <1>2, <1>3, <1>4, <1>5, <1>6, <1>7, <1>8, <1>9, <1>10, <1>11, <1>12, <1>13, <1>14,
    <1>15, <1>16, <1>17, <1>18, <1>19, <1>20, <1>21, <1>22, <1>23 DEF Next, Swapping

-----------------------------------------------------------------------------
(* The theorems.                                                           *)

LEMMA InvInit == Init => Inv
<1> SUFFICES ASSUME Init PROVE Inv
  OBVIOUS
<1>1. PICK first \in SUBSET Entry :
        install = [e \in Entry |-> IF e \in first THEN 1 ELSE Absent]
  BY DEF Init
<1>2. \A e \in Entry : install[e] = 0 \/ install[e] = 1
  BY <1>1, Zenon DEF Absent
<1>3. install \in Tree
  <2>1. 1 \in Copy
    BY ConstantsOK DEF Copy
  <2> QED BY <1>1, <2>1 DEF Tree
<1>4. saved \in [Swap -> Tree] /\ (\A s \in Swap, e \in Entry : saved[s][e] = 0)
  BY EmptyOK DEF Init, Empty, Absent
<1>5. (\A e \in Entry : staged[e] = 0) /\ swaps = 0
  BY DEF Init, Empty, Absent
<1>6. DiskType
  BY <1>3, <1>4 DEF Init, DiskType
<1>7. ProcessType /\ PlanType
  BY EmptyOK DEF Init, ProcessType, PlanType
<1>8. CommandType /\ PastType
  <2>1. before = install /\ tree = install /\ commands = 0 /\ deaths = 0
    BY DEF Init
  <2>2. 0 \in 0..MaxCommands /\ 0 \in 0..MaxDeaths
    BY ConstantsOK
  <2> QED BY <1>3, <2>1, <2>2, Zenon DEF Init, CommandType, PastType
<1>9. Order
  BY DEF Init, Order, Underway, Release
<1>10. Copies
  BY <1>2, <1>4, <1>5 DEF Init, Copies, Underway, Absent
<1>11. Course /\ Journal /\ Blame /\ Guard /\ Debt
  BY DEF Init, Course, Journal, Blame, Guard, Debt, Underway
<1>12. VerdictIsTrue /\ NothingIsLost /\ RollbackIsWhole
  BY DEF Init, VerdictIsTrue, NothingIsLost, InPlaceOrSaved, RollbackIsWhole
<1> QED BY <1>6, <1>7, <1>8, <1>9, <1>10, <1>11, <1>12 DEF Inv, TypeOK

LEMMA InvStep == Inv /\ [Next]_vars => Inv'
<1> SUFFICES ASSUME Inv, [Next]_vars PROVE Inv'
  OBVIOUS
<1> USE DEF Inv
<1>1. TypeOK'
  BY TypeStep
<1>2. Order' /\ Course'
  BY <1>1, OrderStep, CourseStep
<1>3. Copies' /\ Journal'
  BY <1>1, CopiesStep, JournalStep
<1>4. Blame' /\ VerdictIsTrue'
  BY <1>1, BlameStep, VerdictStep
<1>5. NothingIsLost'
  BY <1>1, LostStep
<1>6. Guard' /\ Debt' /\ RollbackIsWhole'
  BY <1>1, GuardStep, DebtStep, RollbackStep
<1> QED BY <1>1, <1>2, <1>3, <1>4, <1>5, <1>6

LEMMA InvHolds == Spec => []Inv
<1> QED BY InvInit, InvStep, PTL DEF Spec

\* The disk, the processes and the command keep their types.
THEOREM TypeCorrect == Spec => []TypeOK
<1>1. Inv => TypeOK
  BY DEF Inv
<1> QED BY <1>1, InvHolds, PTL

\* What the user is told of a failed update is true, whatever failed in the swap or
\* in its undoing, who died before, and what was swept meanwhile: a soft failure
\* has left every entry as it was, a fatal one has not, but for an entry that was
\* new and a staging directory that could not be made (classification in
\* runPipeline() and runUpdate(), flags of performSwap()).
THEOREM VerdictsAreTrue == Spec => []VerdictIsTrue
<1>1. Inv => VerdictIsTrue
  BY DEF Inv
<1> QED BY <1>1, InvHolds, PTL

\* performSwap() loses nothing: whatever fails and whoever dies, an entry that was
\* there before lies in its place or in the backup of the swap, until a sweep.
THEOREM SwapsLoseNothing == Spec => []NothingIsLost
<1>1. Inv => NothingIsLost
  BY DEF Inv
<1> QED BY <1>1, InvHolds, PTL

\* What the marker is for: from a successful update to the first answer of the new
\* build, starts, failed starts and probes leave all of the replaced install, if no
\* start was on its way to sweep, and no probe under way, when it was written.
THEOREM ProbationKeepsTheWayBack == Spec => []WayBackIsGuarded
<1>1. Inv => WayBackIsGuarded
  BY DEF Inv, Guard, NothingIsLost, WayBackIsGuarded, InPlaceOrSaved
<1> QED BY <1>1, InvHolds, PTL

\* runRollback(), begun in that time, finds a version to go back to, and if it says
\* that it has restored it, every replaced entry is back in its place.
THEOREM RollbacksAreWhole == Spec => []RollbackIsWhole
<1>1. Inv => RollbackIsWhole
  BY DEF Inv
<1> QED BY <1>1, InvHolds, PTL

=============================================================================
