----------------------------- MODULE SelfUpdate -----------------------------
(***************************************************************************)
(* The self-update of a standalone install                                 *)
(* (services/api/src/server/updater.ts, standalone-server.ts and           *)
(* domain/update/update-orchestrator.ts): the swap of the install          *)
(* directory with its journal and its undoing, the backups, the marker     *)
(* that keeps them until the new build has answered, the sweeps, the       *)
(* rollback, and processes that die between any two file operations.       *)
(*                                                                         *)
(* A file operation of a swap is a step and may fail, and so is a start's  *)
(* look for the marker and each removal by the server; the sweep that      *)
(* opens a command is one step, for only other removals run beside it.     *)
(* A tree is what a directory holds: for each top-level entry the copy     *)
(* that lies there, by the swap that brought it, or Absent.                *)
(* One command works at a time, of the server or of the command line; the  *)
(* server may start, look after its health and sweep meanwhile.            *)
(***************************************************************************)
EXTENDS Naturals

CONSTANTS
  Entry,        \* top-level entries a release may ship
  Exe,          \* the executable, one of them
  NoEntry,      \* no entry
  MaxSwaps,     \* bound: backup directories that are ever made
  MaxCommands,  \* bound: updates and rollbacks that are begun
  MaxDeaths     \* bound: processes that die

ASSUME EntryAssumption == Exe \in Entry /\ NoEntry \notin Entry
ASSUME BoundAssumption ==
  /\ MaxSwaps \in Nat
  /\ MaxCommands \in Nat /\ MaxDeaths \in Nat

Absent  == 0
Copy    == 1..(MaxSwaps + 1)    \* 1: of the first install
Tree    == [Entry -> {Absent} \cup Copy]
Empty   == [e \in Entry |-> Absent]
Swap    == 1..MaxSwaps

VARIABLES
  \* the disk
  install,    \* the install directory
  dirs,       \* the backup directories that exist, by the swap that made them
  saved,      \* what each of them holds
  marker,     \* .update-pending exists
  swaps,      \* the swaps begun so far; the last one's backup has its number
  \* the server process
  server,     \* "down", "up", "sweeping" before it serves, or looking after its
              \* health while it does ("probing", "finalizing")
  leaving,    \* it has updated and will exit
  \* the command under way
  by, at,     \* who runs it, and where it is
  staged,     \* what a release was extracted to
  source,     \* where a swap takes its entries from: a backup, or Release
  todo,       \* planned entries that have not been touched
  moving,     \* the entry whose place is free
  undo,       \* what would have to be put back if the swap failed now
  modified, restored,  \* performSwap's flags
  answer,     \* what the last command said
  \* history
  before,     \* the install when the last command began
  added,      \* the last swap brought an entry that had not been there
  swept,      \* backups have been swept since
  tree,       \* the install that the last update replaced
  guarded,    \* nothing but starts and probes has happened since
  owed,       \* the last rollback began in such a state
  unstaged,   \* the last command found no place to extract a release to
  commands, deaths

Release == 0

disk    == <<install, dirs, saved, marker, swaps>>
process == <<server, leaving>>
plan    == <<staged, source, todo, moving, undo, modified, restored>>
command == <<by, at, answer, before, added>>
past    == <<swept, tree, guarded, owed, unstaged, commands, deaths>>
vars    == <<disk, process, plan, command, past>>

DiskType ==
  /\ install \in Tree /\ saved \in [Swap -> Tree]
  /\ dirs \subseteq Swap /\ swaps \in {0} \cup Swap /\ marker \in BOOLEAN

ProcessType ==
  /\ server \in {"down", "sweeping", "probing", "finalizing", "up"}
  /\ leaving \in BOOLEAN

PlanType ==
  /\ staged \in Tree /\ source \in {Release} \cup Swap
  /\ todo \subseteq Entry /\ moving \in Entry \cup {NoEntry} /\ undo \subseteq Entry
  /\ modified \in BOOLEAN /\ restored \in BOOLEAN

CommandType ==
  /\ by \in {"nobody", "server", "cli"}
  /\ at \in {"idle", "fetching", "staged", "moving", "restoring", "marking"}
  /\ answer \in {"none", "soft", "fatal", "updated", "restored", "failed", "nothing"}
  /\ before \in Tree /\ added \in BOOLEAN

PastType ==
  /\ tree \in Tree
  /\ swept \in BOOLEAN /\ guarded \in BOOLEAN
  /\ owed \in BOOLEAN /\ unstaged \in BOOLEAN
  /\ commands \in 0..MaxCommands /\ deaths \in 0..MaxDeaths

TypeOK == DiskType /\ ProcessType /\ PlanType /\ CommandType /\ PastType

Init ==
  /\ \E first \in SUBSET Entry :
       Exe \in first /\ install = [e \in Entry |-> IF e \in first THEN 1 ELSE Absent]
  /\ dirs = {} /\ saved = [s \in Swap |-> Empty] /\ marker = FALSE /\ swaps = 0
  /\ server = "down" /\ leaving = FALSE
  /\ by = "nobody" /\ at = "idle"
  /\ staged = Empty /\ source = Release
  /\ todo = {} /\ moving = NoEntry /\ undo = {}
  /\ modified = FALSE /\ restored = TRUE
  /\ answer = "none" /\ before = install /\ tree = install
  /\ added = FALSE /\ swept = FALSE /\ guarded = FALSE /\ owed = FALSE /\ unstaged = FALSE
  /\ commands = 0 /\ deaths = 0

-----------------------------------------------------------------------------
(* Backups.                                                                *)

\* The first of listBackupDirs().
Newest(s) == \A other \in dirs : other <= s

\* cleanupOldInstall(): removes every backup it can; of those it cannot
\* remove, the locked executable is left, or all if the process dies first.
Sweep ==
  \E kept \in SUBSET dirs, whole \in BOOLEAN :
    /\ dirs' = kept
    /\ saved' = [s \in Swap |-> [e \in Entry |->
                  IF s \in kept /\ (whole \/ e = Exe) THEN saved[s][e] ELSE Absent]]

\* What the running swap finds of an entry in its source.
Offered(e) == IF source = Release THEN staged[e] ELSE saved[source][e]

-----------------------------------------------------------------------------
(* Commands.                                                               *)

\* A command ends with an answer; the staging directory is removed.
Say(a) ==
  /\ by' = "nobody" /\ at' = "idle" /\ answer' = a
  /\ staged' = Empty /\ source' = Release
  /\ todo' = {} /\ moving' = NoEntry /\ undo' = {}
  /\ modified' = FALSE /\ restored' = TRUE

MayBegin(who) ==
  /\ by = "nobody" /\ commands < MaxCommands
  /\ \/ who = "server" /\ server \notin {"down", "sweeping"} /\ ~leaving
     \/ who = "cli" /\ install[Exe] # Absent
  /\ commands' = commands + 1
  /\ before' = install /\ added' = FALSE /\ swept' = FALSE /\ guarded' = FALSE
  /\ unstaged' = FALSE

\* runUpdate() and runPipeline(): the backups go first, whatever the marker says.
BeginUpdate(who) ==
  /\ MayBegin(who)
  /\ Sweep
  /\ by' = who /\ at' = "fetching" /\ answer' = "none" /\ owed' = FALSE
  /\ UNCHANGED <<install, marker, swaps, process, plan, tree, deaths>>

\* No release, no newer one, no consent, no space, a broken download or
\* archive, no snapshot of the database.
FetchFails ==
  /\ at = "fetching"
  /\ Say("soft")
  /\ UNCHANGED <<disk, process, before, added, past>>

\* The staging directory cannot be made.  This is before the try block of
\* downloadAndSwap(), so that the raw error arrives, which is called fatal.
StagingFails ==
  /\ at = "fetching"
  /\ Say("fatal")
  /\ unstaged' = TRUE
  /\ UNCHANGED <<disk, process, before, added, swept, tree, guarded, owed, commands, deaths>>

\* The release is downloaded, verified and extracted.
Fetch ==
  /\ at = "fetching" /\ swaps < MaxSwaps
  /\ \E ships \in SUBSET Entry :
       /\ Exe \in ships
       /\ staged' = [e \in Entry |-> IF e \in ships THEN swaps + 2 ELSE Absent]
  /\ at' = "staged"
  /\ UNCHANGED <<disk, process, source, todo, moving, undo, modified, restored,
                 by, answer, before, added, past>>

\* runRollback(): takes the newest backup for the source of a swap.
BeginRollback ==
  /\ MayBegin("cli")
  /\ owed' = guarded
  /\ \/ /\ dirs = {} /\ Say("nothing")
     \/ \E newest \in dirs :
          /\ Newest(newest)
          /\ by' = "cli" /\ at' = "staged" /\ answer' = "none" /\ source' = newest
          /\ UNCHANGED <<staged, todo, moving, undo, modified, restored>>
  /\ UNCHANGED <<disk, process, tree, deaths>>

-----------------------------------------------------------------------------
(* performSwap().                                                          *)

\* A backup directory of its own for every attempt, and a plan of what the
\* source holds.
AllocateBackup ==
  /\ at = "staged" /\ swaps < MaxSwaps
  /\ source = Release \/ source \in dirs
  /\ swaps' = swaps + 1 /\ dirs' = dirs \cup {swaps + 1}
  /\ at' = "moving" /\ todo' = {e \in Entry : Offered(e) # Absent}
  /\ UNCHANGED <<install, saved, marker, process, staged, source, moving, undo,
                 modified, restored, by, answer, before, added, past>>

\* The directory is not made, or it is and the source cannot be read, as when
\* it has been swept meanwhile.
AllocateFails ==
  /\ at = "staged" /\ swaps < MaxSwaps
  /\ swaps' = swaps + 1 /\ dirs' \in {dirs, dirs \cup {swaps + 1}}
  /\ Say(IF source = Release THEN "soft" ELSE "failed")
  /\ UNCHANGED <<install, saved, marker, process, before, added, past>>

\* Mutant: any failure of the rename is taken for "not found".
BackUp_Tolerant(e) ==
  /\ at = "moving" /\ moving = NoEntry /\ e \in todo
  /\ todo' = todo \ {e} /\ moving' = e
  /\ UNCHANGED <<disk, process, staged, source, undo, modified, restored, command, past>>

\* The old entry goes to the backup.  "Not found" means that there is none,
\* or that the backup directory has been swept: either way on to the new one.
BackUp(e) ==
  /\ at = "moving" /\ moving = NoEntry /\ e \in todo
  /\ todo' = todo \ {e} /\ moving' = e
  /\ IF install[e] # Absent /\ swaps \in dirs
     THEN /\ saved' = [saved EXCEPT ![swaps] = [@ EXCEPT ![e] = install[e]]]
          /\ install' = [install EXCEPT ![e] = Absent]
          /\ modified' = TRUE /\ undo' = undo \cup {e}
     ELSE UNCHANGED <<saved, install, modified, undo>>
  /\ UNCHANGED <<dirs, marker, swaps, process, staged, source, restored, command, past>>

\* The new entry takes its place, over the old one if that is still there.
Place ==
  /\ moving # NoEntry /\ at = "moving"
  /\ Offered(moving) # Absent
  /\ install' = [install EXCEPT ![moving] = Offered(moving)]
  /\ IF source = Release
     THEN staged' = [staged EXCEPT ![moving] = Absent] /\ UNCHANGED saved
     ELSE saved' = [saved EXCEPT ![source] = [@ EXCEPT ![moving] = Absent]] /\ UNCHANGED staged
  /\ modified' = TRUE /\ undo' = undo \cup {moving} /\ moving' = NoEntry
  /\ added' = (added \/ before[moving] = Absent)
  /\ UNCHANGED <<dirs, marker, swaps, process, source, todo, restored, by, at, answer,
                 before, past>>

\* Mutant: only completed entries are put back, not the one half moved.
MoveFails_Orphan ==
  /\ at = "moving" /\ (todo # {} \/ moving # NoEntry)
  /\ at' = "restoring" /\ todo' = {} /\ moving' = NoEntry /\ undo' = undo \ {moving}
  /\ UNCHANGED <<disk, process, staged, source, modified, restored, by, answer,
                 before, added, past>>

\* A rename fails: the catch block takes over.
MoveFails ==
  /\ at = "moving" /\ (todo # {} \/ moving # NoEntry)
  /\ at' = "restoring" /\ todo' = {} /\ moving' = NoEntry
  /\ UNCHANGED <<disk, process, staged, source, undo, modified, restored, by, answer,
                 before, added, past>>

\* restore(): the new entry is deleted and the old one put back.
Restore(e) ==
  /\ at = "restoring" /\ e \in undo
  /\ swaps \in dirs /\ saved[swaps][e] # Absent
  /\ install' = [install EXCEPT ![e] = saved[swaps][e]]
  /\ saved' = [saved EXCEPT ![swaps] = [@ EXCEPT ![e] = Absent]]
  /\ undo' = undo \ {e}
  /\ UNCHANGED <<dirs, marker, swaps, process, staged, source, todo, moving, modified,
                 restored, command, past>>

\* One of the two fails, the second always if there is no backup of the entry.
RestoreFails(e) ==
  /\ at = "restoring" /\ e \in undo
  /\ \/ install' = [install EXCEPT ![e] = Absent]
     \/ UNCHANGED install
  /\ restored' = FALSE /\ undo' = undo \ {e}
  /\ UNCHANGED <<dirs, saved, marker, swaps, process, staged, source, todo, moving, modified,
                 command, past>>

\* The error is rethrown; what it is called depends on the listener's last word.
GiveUp ==
  /\ at = "restoring" /\ undo = {}
  /\ Say(IF source # Release THEN "failed"
         ELSE IF modified /\ ~restored THEN "fatal" ELSE "soft")
  /\ UNCHANGED <<disk, process, before, added, past>>

SwapDone ==
  /\ at = "moving" /\ todo = {} /\ moving = NoEntry
  /\ IF source = Release
     THEN at' = "marking" /\ UNCHANGED <<plan, by, answer>>
     ELSE Say("restored")
  /\ UNCHANGED <<disk, process, before, added, past>>

\* markUpdatePending(), whose failure is only logged.  The server then leaves.
MarkPending ==
  /\ at = "marking"
  /\ marker' \in {TRUE, marker}
  /\ leaving' = (leaving \/ by = "server")
  /\ tree' = before
  /\ guarded' = (~swept /\ marker' /\ server \in {"down", "up"})
  /\ Say("updated")
  /\ UNCHANGED <<install, dirs, saved, swaps, server, before, added,
                 swept, owed, unstaged, commands, deaths>>

-----------------------------------------------------------------------------
(* The server: main() and confirmUpdateHealthy().                          *)

\* Mutant: a start does not look for the marker.
Boot_Sweeps ==
  /\ server = "down" /\ install[Exe] # Absent
  /\ server' = "sweeping"
  /\ UNCHANGED <<disk, leaving, plan, command, past>>

\* A start looks for the marker ...
Boot ==
  /\ server = "down" /\ install[Exe] # Absent
  /\ server' = IF marker THEN "probing" ELSE "sweeping"
  /\ UNCHANGED <<disk, leaving, plan, command, past>>

\* A sweep of the server goes from one backup to the next, and a command may do
\* anything in between.
SweepOn ==
  /\ Sweep
  /\ IF UNCHANGED <<dirs, saved>> THEN UNCHANGED <<swept, owed>>
                                  ELSE swept' = TRUE /\ owed' = FALSE
  /\ UNCHANGED <<install, marker, swaps, leaving, plan, command, tree, guarded, unstaged,
                 commands, deaths>>

\* ... and sweeps if it found none, be there one by now or not.
BootSweeps ==
  /\ server = "sweeping"
  /\ server' \in {"sweeping", "up"} /\ SweepOn

\* It has answered: finalizeUpdatePending() finds the marker, which only a server
\* removes, and removes it, if it can ...
ProbeAnswers ==
  /\ server = "probing"
  /\ IF marker THEN /\ marker' \in BOOLEAN /\ server' = "finalizing"
                    /\ guarded' = FALSE
               ELSE server' = "up" /\ UNCHANGED <<marker, guarded>>
  /\ UNCHANGED <<install, dirs, saved, swaps, leaving, plan, command,
                 swept, tree, owed, unstaged, commands, deaths>>

\* ... and sweeps.
Finalize ==
  /\ server = "finalizing"
  /\ server' \in {"finalizing", "up"} /\ SweepOn

\* Ten probes without an answer: the previous version is kept.
ProbesFail ==
  /\ server = "probing"
  /\ server' = "up"
  /\ UNCHANGED <<disk, leaving, plan, command, past>>

\* The process ends where it stands, and with it the command it runs.
Vanish(who) ==
  IF by = who THEN Say("none") ELSE UNCHANGED <<plan, by, at, answer>>

\* The exit after an update, or the user's.
Exit ==
  /\ server # "down" /\ (leaving \/ by # "server")
  /\ server' = "down" /\ leaving' = FALSE
  /\ UNCHANGED <<disk, plan, command, past>>

ServerDies ==
  /\ server # "down" /\ deaths < MaxDeaths
  /\ server' = "down" /\ leaving' = FALSE /\ deaths' = deaths + 1
  /\ Vanish("server")
  /\ UNCHANGED <<disk, before, added, swept, tree, guarded, owed, unstaged, commands>>

CliDies ==
  /\ by = "cli" /\ deaths < MaxDeaths
  /\ deaths' = deaths + 1
  /\ Vanish("cli")
  /\ UNCHANGED <<disk, process, before, added, swept, tree, guarded, owed, unstaged, commands>>

-----------------------------------------------------------------------------
Swapping ==
  \/ AllocateBackup \/ AllocateFails \/ Place \/ MoveFails \/ GiveUp \/ SwapDone \/ MarkPending
  \/ \E e \in Entry : BackUp(e) \/ Restore(e) \/ RestoreFails(e)

Next ==
  \/ \E who \in {"server", "cli"} : BeginUpdate(who)
  \/ FetchFails \/ StagingFails \/ Fetch \/ BeginRollback
  \/ Swapping
  \/ Boot \/ BootSweeps \/ ProbeAnswers \/ Finalize \/ ProbesFail
  \/ Exit \/ ServerDies \/ CliDies

Spec == Init /\ [][Next]_vars

-----------------------------------------------------------------------------
\* A soft failure ("Current installation was not modified.") is said only if
\* every entry is the one that lay there before, whatever failed, in the swap or
\* in its undoing, and whatever was swept meanwhile.  A fatal one ("Installation
\* may be corrupted.") must mean that a rename landed and was not fully undone
\* (updater-failure-classification.test.ts:4), so that some entry is another.
\* The code keeps this but for two cases: the swap had brought an entry that was
\* not there before, and restore() takes the missing backup of that entry for a
\* failure; or the staging directory could not be made (updater.ts:887), and the
\* install is called corrupted though nothing has touched it.
VerdictIsTrue ==
  /\ answer = "soft" => install = before
  /\ answer = "fatal" => install # before \/ added \/ unstaged

InPlaceOrSaved(old, e) ==
  \/ install[e] = old[e]
  \/ swaps \in dirs /\ saved[swaps][e] = old[e]

\* Whatever fails and whoever dies, every entry that a swap replaces stays on
\* the disk, in its place or in the backup of this swap, until backups are swept.
NothingIsLost ==
  ~swept => \A e \in Entry : before[e] # Absent => InPlaceOrSaved(before, e)

\* From an update to the first answer of the new build there is a way back:
\* starts, failed starts and probes leave the whole replaced install on the disk.
\* Two updates have no such time: one that is completed while the server is being
\* probed, or sweeps, for an earlier one; and one of the command line completed
\* while a start that had found no marker is still to sweep (standalone-server.ts:89
\* and :93), whose backup that sweep may take.
WayBackIsGuarded ==
  guarded => \A e \in Entry : tree[e] # Absent => InPlaceOrSaved(tree, e)

\* A rollback that begins in that time finds a version to go back to, and one
\* that says "Previous version restored." has put back every entry of the
\* install that the update replaced, unless a sweep came in between.
RollbackIsWhole ==
  owed => /\ answer # "nothing"
          /\ answer = "restored" =>
               \A e \in Entry : tree[e] # Absent => install[e] = tree[e]
=============================================================================
