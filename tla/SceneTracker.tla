--------------------------- MODULE SceneTracker ---------------------------
(***************************************************************************)
(* services/api/src/domain/insights/tracker-service.ts: the records of the *)
(* scene that assistant messages carry, one per variant, and the runs that *)
(* fill in the records of a whole history.  A record is generated by hand, *)
(* when a message arrives or is waited for, or by the run; it may be edited*)
(* and deleted meanwhile.  A run's row is in SQLite and survives the       *)
(* process; generations, their controllers, the jobs that others join and  *)
(* the loop of the run do not.                                             *)
(*                                                                         *)
(* Variants are numbers in the order of their messages; positions in a     *)
(* run's manifest are replaced by the variants there.  One chat, and of its*)
(* runs the newest.  The derived cache of the current scene, which nothing *)
(* reads, previews, which touch no state, and the contents of records are  *)
(* left out.                                                               *)
(*                                                                         *)
(* The store is synchronous: what follows an answer up to the next wait for*)
(* a provider or for the files of the prompt is one chain of microtasks    *)
(* that no request enters (Quiet).                                         *)
(***************************************************************************)
EXTENDS Naturals, Sequences, FiniteSets

CONSTANTS
  Variant,    \* selected variants of the branch's assistant messages
  Request,    \* slots of generations outside a run: a bound on those at once
  Filler,     \* the generation of the run, one at a time
  NoGen,
  Settled,    \* a job that is over and still registered
  Schema,     \* schemas of the tracker
  MaxActs,    \* bound: things people and messages do
  MaxFaults   \* bound: deaths of the process and failing store calls of a loop

ASSUME VariantAssumption == Variant \subseteq Nat \ {0} /\ IsFiniteSet(Variant)
ASSUME GenAssumption ==
  /\ Filler \notin Request
  /\ NoGen \notin Request \cup {Filler, Settled}
  /\ Settled \notin Request \cup {Filler}
ASSUME BoundAssumption == MaxActs \in Nat /\ MaxFaults \in Nat

VARIABLES
  content,      \* the text of a variant, as a version; 0 when it is gone
  config,       \* the tracker's schema and revision
  record,       \* the record of each variant
  gens,         \* generations under way
  lane,         \* the long lane of each variant: generations in their order
  controllers,  \* targetControllers
  jobs,         \* targetJobs
  run,          \* the row of the newest backfill run
  loop,         \* its loop, when it has one: activeBackfills
  acts, faults,
  made,         \* history: items that had a record when the run passed them
  told,         \* history: the run was cancelled since it was set going
  hit           \* history: a request for one variant stopped the run's generation

texts   == <<content, config>>
working == <<gens, lane, controllers, jobs>>
history == <<made, told, hit>>
vars == <<texts, record, working, run, loop, acts, faults, history>>

Gen == Request \cup {Filler}
Free == [at |-> "free"]
NoRecord == [by |-> "none"]
NoRun == [status |-> "none"]
Off == [at |-> "off"]

Live(g) == gens[g] # Free
Active == {"pending", "running"}
Terminal == {"completed", "cancelled", "failed"}

Generation ==
  [at : {"preparing", "queued"}, variant : Variant, by : {"hand", "auto", "run"},
   aborted : BOOLEAN]
    \cup [at : {"asking"}, variant : Variant, by : {"hand", "auto", "run"}, aborted : BOOLEAN,
          source : Nat, schema : Schema]

Run ==
  [status : Active \cup Terminal, fill : BOOLEAN, items : SUBSET Variant,
   source : [Variant -> Nat], revision : Nat, cursor : Nat, errors : SUBSET Variant,
   cancel : BOOLEAN]

Loop ==
  [at : {"begin", "next", "waiting", "ok", "failed", "cancelled"},
   todo : SUBSET Variant, item : Variant \cup {0}, aborted : BOOLEAN]

TypeOK ==
  /\ content \in [Variant -> Nat]
  /\ config \in [schema : Schema, revision : Nat]
  /\ record \in [Variant -> {NoRecord}
                   \cup [by : {"hand", "auto", "run", "edit"}, source : Nat, schema : Schema]]
  /\ gens \in [Gen -> {Free} \cup Generation]
  /\ lane \in [Variant -> Seq(Gen)]
  /\ controllers \in [Variant -> Gen \cup {NoGen}]
  /\ jobs \in [Variant -> Gen \cup {NoGen, Settled}]
  /\ run \in {NoRun} \cup Run
  /\ loop \in {Off} \cup Loop
  /\ acts \in Nat /\ faults \in Nat
  /\ made \subseteq Variant /\ told \in BOOLEAN /\ hit \in BOOLEAN

Init ==
  /\ content = [v \in Variant |-> 1]
  /\ config \in [schema : Schema, revision : {0}]
  /\ record = [v \in Variant |-> NoRecord]
  /\ gens = [g \in Gen |-> Free]
  /\ lane = [v \in Variant |-> <<>>]
  /\ controllers = [v \in Variant |-> NoGen]
  /\ jobs = [v \in Variant |-> NoGen]
  /\ run = NoRun /\ loop = Off
  /\ acts = 0 /\ faults = 0
  /\ made = {} /\ told = FALSE /\ hit = FALSE

\* Nothing waits in the microtask queue: the loop waits for its generation, and
\* the first generation of every lane for its provider.
Quiet ==
  /\ loop.at \in {"off", "waiting"}
  /\ \A v \in Variant : lane[v] # <<>> => gens[Head(lane[v])].at = "asking"

Act == Quiet /\ acts < MaxActs /\ acts' = acts + 1

Latest(v) == content[v] # 0 /\ \A w \in Variant : w > v => content[w] = 0

-----------------------------------------------------------------------------
(* One generation.                                                         *)

Begin(g, v, by) ==
  /\ gens[g] = Free
  /\ gens' = [gens EXCEPT ![g] = [at |-> "preparing", variant |-> v, by |-> by, aborted |-> FALSE]]

\* The route, for the newest assistant message.
Generate(g, v) ==
  /\ Act
  /\ g \in Request
  /\ Latest(v)
  /\ Begin(g, v, "hand")
  /\ UNCHANGED <<texts, record, lane, controllers, jobs, run, loop, faults, history>>

Compatible(v) == record[v] # NoRecord /\ record[v].schema = config.schema

\* triggerAutoGenerate() and waitForTarget(): the job is registered at once, so
\* that others join it instead of starting another.
EnsureTargetJob(g, v) ==
  /\ Act
  /\ g \in Request
  /\ content[v] # 0
  /\ jobs[v] = NoGen /\ ~Compatible(v)
  /\ Begin(g, v, "auto")
  /\ jobs' = [jobs EXCEPT ![v] = g]
  /\ UNCHANGED <<texts, record, lane, controllers, run, loop, faults, history>>

\* generateScene() up to the lane.
Prepared(g) ==
  /\ Quiet
  /\ gens[g].at = "preparing"
  /\ LET v == gens[g].variant
     IN /\ gens' = [gens EXCEPT ![g].at = "queued"]
        /\ lane' = [lane EXCEPT ![v] = Append(@, g)]
        /\ controllers' = [controllers EXCEPT ![v] = g]
        /\ jobs' = [jobs EXCEPT ![v] = g]
  /\ UNCHANGED <<texts, record, run, loop, acts, faults, history>>

\* What processBackfillItem() makes of its generation's end.
Hears(g, outcome) ==
  IF g = Filler
  THEN loop' = [loop EXCEPT !.at = IF outcome # "ok" /\ loop.aborted THEN "cancelled" ELSE outcome]
  ELSE UNCHANGED loop

\* No provider is configured, or the prompt could not be built.  The job of an
\* automatic start stays where it is.
PrepareFails(g) ==
  /\ Quiet
  /\ gens[g].at = "preparing"
  /\ gens' = [gens EXCEPT ![g] = Free]
  /\ jobs' = [v \in Variant |-> IF jobs[v] = g THEN Settled ELSE jobs[v]]
  /\ Hears(g, "failed")
  /\ UNCHANGED <<texts, record, lane, controllers, run, acts, faults, history>>

\* Mutant: the registered job is taken away even when it is a later one.
Leave_Anyone(g) ==
  LET v == gens[g].variant
  IN /\ gens' = [gens EXCEPT ![g] = Free]
     /\ lane' = [lane EXCEPT ![v] = Tail(@)]
     /\ controllers' = [controllers EXCEPT ![v] = NoGen]
     /\ jobs' = [jobs EXCEPT ![v] = NoGen]

\* generateScene()'s finally: the variant's controller goes, whose ever it is;
\* the job only if it is this one's.
Leave(g) ==
  LET v == gens[g].variant
  IN /\ gens' = [gens EXCEPT ![g] = Free]
     /\ lane' = [lane EXCEPT ![v] = Tail(@)]
     /\ controllers' = [controllers EXCEPT ![v] = NoGen]
     /\ jobs' = [jobs EXCEPT ![v] = IF @ = g THEN NoGen ELSE @]

Leads(g) == lane[gens[g].variant] # <<>> /\ Head(lane[gens[g].variant]) = g

\* runGeneration(): what the variant and the schema are now is what the answer
\* will be held against.
Turn(g) ==
  /\ gens[g].at = "queued"
  /\ Leads(g)
  /\ LET v == gens[g].variant
     IN IF gens[g].aborted \/ content[v] = 0
        THEN /\ Leave(g)
             /\ \E outcome \in {"failed"} \cup (IF gens[g].aborted THEN {"cancelled"} ELSE {}) :
                  Hears(g, outcome)
        ELSE /\ gens' = [gens EXCEPT ![g] =
                          [at |-> "asking", variant |-> v, by |-> @.by, aborted |-> FALSE,
                           source |-> content[v], schema |-> config.schema]]
             /\ UNCHANGED <<lane, controllers, jobs, loop>>
  /\ UNCHANGED <<texts, record, run, acts, faults, history>>

\* Mutant: an answer is written whatever has become of the text.
Fits_Always(g) == TRUE

\* commitRecord(): the text is the one the answer was asked for.
Fits(g) == content[gens[g].variant] = gens[g].source

\* Mutant: an answer that came after the abort is written.
Answer_Late(g) ==
  /\ Quiet
  /\ gens[g].at = "asking"
  /\ Fits(g)
  /\ record' = [record EXCEPT ![gens[g].variant] =
                 [by |-> gens[g].by, source |-> gens[g].source, schema |-> gens[g].schema]]
  /\ made' = IF g = Filler THEN made \cup {gens[g].variant} ELSE made
  /\ Hears(g, "ok")
  /\ Leave(g)
  /\ UNCHANGED <<texts, run, acts, faults, told, hit>>

\* A good answer: nothing is written once the signal is aborted, and the record
\* carries the schema of the time of asking.
Answer(g) ==
  /\ Quiet
  /\ gens[g].at = "asking"
  /\ ~gens[g].aborted /\ Fits(g)
  /\ record' = [record EXCEPT ![gens[g].variant] =
                 [by |-> gens[g].by, source |-> gens[g].source, schema |-> gens[g].schema]]
  /\ made' = IF g = Filler THEN made \cup {gens[g].variant} ELSE made
  /\ Hears(g, "ok")
  /\ Leave(g)
  /\ UNCHANGED <<texts, run, acts, faults, told, hit>>

\* The provider fails, what it wrote cannot be read, or the signal or the text
\* forbids it.  An abort by cancelTarget() may or may not come back as the error
\* it was given.
AnswerFails(g) ==
  /\ Quiet
  /\ gens[g].at = "asking"
  /\ \E outcome \in {"failed"} \cup (IF gens[g].aborted THEN {"cancelled"} ELSE {}) :
       Hears(g, outcome)
  /\ Leave(g)
  /\ UNCHANGED <<texts, record, run, acts, faults, history>>

\* cancelTarget(): whichever generation registered its controller last.
CancelTarget(v) ==
  /\ Act
  /\ controllers[v] # NoGen
  /\ gens' = [gens EXCEPT ![controllers[v]].aborted = TRUE]
  /\ hit' = (hit \/ controllers[v] = Filler)
  /\ UNCHANGED <<texts, record, lane, controllers, jobs, run, loop, faults, made, told>>

\* The page that asked for a generation is closed.
Disconnect(g) ==
  /\ Act
  /\ Live(g) /\ gens[g].by = "hand" /\ ~gens[g].aborted
  /\ gens' = [gens EXCEPT ![g].aborted = TRUE]
  /\ UNCHANGED <<texts, record, lane, controllers, jobs, run, loop, faults, history>>

-----------------------------------------------------------------------------
(* Records, texts and the configuration.                                   *)

EditScene(v) ==
  /\ Act
  /\ content[v] # 0
  /\ record' = [record EXCEPT ![v] = [by |-> "edit", source |-> content[v], schema |-> config.schema]]
  /\ UNCHANGED <<texts, working, run, loop, faults, history>>

DeleteScene(v) ==
  /\ Act
  /\ record[v] # NoRecord
  /\ record' = [record EXCEPT ![v] = NoRecord]
  /\ UNCHANGED <<texts, working, run, loop, faults, history>>

\* A new text keeps the record of the old one.
EditMessage(v) ==
  /\ Act
  /\ content[v] # 0
  /\ content' = [content EXCEPT ![v] = @ + 1]
  /\ UNCHANGED <<config, record, working, run, loop, faults, history>>

\* The record is a column of the variant's row.
DeleteMessage(v) ==
  /\ Act
  /\ content[v] # 0
  /\ content' = [content EXCEPT ![v] = 0]
  /\ record' = [record EXCEPT ![v] = NoRecord]
  /\ UNCHANGED <<config, working, run, loop, faults, history>>

SaveConfig(s) ==
  /\ Act
  /\ config' = [schema |-> s, revision |-> config.revision + 1]
  /\ UNCHANGED <<content, record, working, run, loop, faults, history>>

-----------------------------------------------------------------------------
(* The history run.                                                        *)

Passed == {v \in run.items : v <= run.cursor}
Rest == {v \in run.items : v > run.cursor}

\* Every pass over items begins here; the row is touched by the loop.
Kick(todo) ==
  /\ loop' = [at |-> "begin", todo |-> todo, item |-> 0, aborted |-> FALSE]
  /\ told' = FALSE

\* finalizeRun().
Finalized == IF run.cancel THEN "cancelled" ELSE "completed"

\* startBackfill() when no run of the chat is active: the manifest is frozen.
StartBackfill(fill) ==
  /\ Act
  /\ run.status \notin Active /\ loop = Off
  /\ LET items == {v \in Variant : content[v] # 0 /\ (fill => record[v] = NoRecord)}
     IN /\ run' = [status |-> IF items = {} THEN "completed" ELSE "pending", fill |-> fill,
                   items |-> items, source |-> content, revision |-> config.revision,
                   cursor |-> 0, errors |-> {}, cancel |-> FALSE]
        /\ IF items = {} THEN UNCHANGED <<loop, told>> ELSE Kick(items)
  /\ made' = {} /\ hit' = FALSE
  /\ UNCHANGED <<texts, record, working, faults>>

\* Mutant: a run without a tail is left as it is.
Poll_TailOnly ==
  /\ Quiet
  /\ run.status \in Active /\ loop = Off
  /\ Rest # {}
  /\ Kick(Rest)
  /\ UNCHANGED <<texts, record, working, run, acts, faults, made, hit>>

\* ensureRunProcessing(): a page that asks for the status, or starts a run while
\* there is one, takes up a run that lost its loop.
Poll ==
  /\ Quiet
  /\ run.status \in Active /\ loop = Off
  /\ IF Rest = {}
     THEN run' = [run EXCEPT !.status = Finalized] /\ UNCHANGED <<loop, told>>
     ELSE Kick(Rest) /\ UNCHANGED run
  /\ UNCHANGED <<texts, record, working, acts, faults, made, hit>>

\* cancelBackfill(): the flag of the row, and the signal of the loop.
CancelBackfill ==
  /\ Act
  /\ run # NoRun
  /\ run' = [run EXCEPT !.cancel = TRUE]
  /\ IF loop = Off THEN UNCHANGED <<loop, gens, told>>
     ELSE /\ loop' = [loop EXCEPT !.aborted = TRUE]
          /\ gens' = IF Live(Filler) THEN [gens EXCEPT ![Filler].aborted = TRUE] ELSE gens
          /\ told' = TRUE
  /\ UNCHANGED <<texts, record, lane, controllers, jobs, faults, made, hit>>

\* retryBackfill(): what failed and what was never reached.
RetryBackfill ==
  /\ Act
  /\ run.status \in Terminal /\ loop = Off
  /\ run.errors \cup Rest # {}
  /\ Kick(run.errors \cup Rest)
  /\ UNCHANGED <<texts, record, working, run, faults, made, hit>>

LoopBegins ==
  /\ loop.at = "begin"
  /\ run' = [run EXCEPT !.status = "running", !.cancel = FALSE]
  /\ loop' = [loop EXCEPT !.at = "next"]
  /\ hit' = FALSE
  /\ UNCHANGED <<texts, record, working, acts, faults, made, told>>

\* The next item is taken unless the run has been cancelled.
LoopGoesOn(v) ==
  /\ loop.at = "next" /\ ~loop.aborted /\ ~run.cancel
  /\ v \in loop.todo /\ \A w \in loop.todo : v <= w

\* What the item was frozen with does not hold any more.
Changed(v) ==
  \/ content[v] # run.source[v]
  \/ config.revision # run.revision

\* An item that is not generated: it changed, or has a record already.
LoopPasses(v) ==
  /\ LoopGoesOn(v)
  /\ Changed(v) \/ (run.fill /\ record[v] # NoRecord)
  /\ loop' = [loop EXCEPT !.at = IF Changed(v) THEN "failed" ELSE "ok",
                          !.todo = @ \ {v}, !.item = v]
  /\ made' = IF Changed(v) THEN made ELSE made \cup {v}
  /\ UNCHANGED <<texts, record, working, run, acts, faults, told, hit>>

LoopGenerates(v) ==
  /\ LoopGoesOn(v)
  /\ ~Changed(v) /\ ~(run.fill /\ record[v] # NoRecord)
  /\ Begin(Filler, v, "run")
  /\ loop' = [loop EXCEPT !.at = "waiting", !.todo = @ \ {v}, !.item = v]
  /\ UNCHANGED <<texts, record, lane, controllers, jobs, run, acts, faults, history>>

\* Mutant: the cursor follows the item, also when an early one is tried again.
LoopRecords_Back ==
  /\ loop.at \in {"ok", "failed"}
  /\ run' = [run EXCEPT !.cursor = loop.item,
                        !.errors = IF loop.at = "failed" THEN @ \cup {loop.item} ELSE @ \ {loop.item}]
  /\ loop' = [loop EXCEPT !.at = "next"]
  /\ UNCHANGED <<texts, record, working, acts, faults, history>>

\* After every item the row has the cursor and the errors.
LoopRecords ==
  /\ loop.at \in {"ok", "failed"}
  /\ run' = [run EXCEPT !.cursor = IF @ < loop.item THEN loop.item ELSE @,
                        !.errors = IF loop.at = "failed" THEN @ \cup {loop.item} ELSE @ \ {loop.item}]
  /\ loop' = [loop EXCEPT !.at = "next"]
  /\ UNCHANGED <<texts, record, working, acts, faults, history>>

\* Out of items, cancelled between two, or with one.
LoopCloses ==
  /\ \/ loop.at = "cancelled"
     \/ loop.at = "next" /\ (loop.todo = {} \/ loop.aborted \/ run.cancel)
  /\ run' = [run EXCEPT !.status = Finalized]
  /\ loop' = Off
  /\ UNCHANGED <<texts, record, working, acts, faults, history>>

-----------------------------------------------------------------------------
(* Faults.                                                                 *)

Fault == faults < MaxFaults /\ faults' = faults + 1

\* A store call of the loop throws; so may the one that would write "failed".
LoopBreaks ==
  /\ Fault
  /\ loop.at \notin {"off", "waiting"}
  /\ \E status \in {"failed", run.status} : run' = [run EXCEPT !.status = status]
  /\ loop' = Off
  /\ UNCHANGED <<texts, record, working, acts, history>>

Crash ==
  /\ Fault
  /\ gens' = [g \in Gen |-> Free]
  /\ lane' = [v \in Variant |-> <<>>]
  /\ controllers' = [v \in Variant |-> NoGen]
  /\ jobs' = [v \in Variant |-> NoGen]
  /\ loop' = Off
  /\ UNCHANGED <<texts, record, run, acts, history>>

-----------------------------------------------------------------------------
Asking(g) == Prepared(g) \/ PrepareFails(g) \/ Turn(g) \/ Answer(g) \/ AnswerFails(g)

Targets ==
  \/ \E g \in Gen, v \in Variant : Generate(g, v) \/ EnsureTargetJob(g, v)
  \/ \E g \in Gen : Asking(g) \/ Disconnect(g)
  \/ \E v \in Variant : CancelTarget(v)

Editing ==
  \/ \E v \in Variant : EditScene(v) \/ DeleteScene(v) \/ EditMessage(v) \/ DeleteMessage(v)
  \/ \E s \in Schema : SaveConfig(s)

Looping ==
  \/ LoopBegins \/ LoopRecords \/ LoopCloses
  \/ \E v \in Variant : LoopPasses(v) \/ LoopGenerates(v)

Backfilling ==
  \/ \E fill \in BOOLEAN : StartBackfill(fill)
  \/ Poll \/ CancelBackfill \/ RetryBackfill \/ Looping

Next == Targets \/ Editing \/ Backfilling \/ LoopBreaks \/ Crash

Spec == Init /\ [][Next]_vars

\* Continuations run, a prompt is built or fails, a provider answers or times out,
\* and the page of a run polls.
Fairness ==
  /\ WF_vars(Looping)
  /\ \A g \in Gen : WF_vars(Asking(g))
  /\ WF_vars(Poll)

FairSpec == Spec /\ Fairness

-----------------------------------------------------------------------------
(* Properties.                                                             *)

\* What the row of a run says is so: an item behind the cursor is in the errors or
\* had its record when it was passed, an error is of an item behind the cursor
\* (tracker-service.ts:1120, "All error entries correspond to processed items",
\* on which the count of successes rests), and a completed run has reached every
\* item, unless somebody cancelled the one it was generating.  Resumes, retries,
\* deaths and failing store calls are no exception.
Accounts ==
  run # NoRun =>
    /\ run.errors \subseteq Passed
    /\ Passed \ run.errors \subseteq made
    /\ run.status = "completed" /\ ~hit => Rest = {}

\* What is written over a record is fresh and wanted: a generation that writes is
\* the one whose turn it is, nobody has aborted it, and the text is still the one
\* it was asked about.
CommitsAreFresh ==
  [][\A v \in Variant :
       record'[v] # record[v] /\ record'[v] # NoRecord /\ record'[v].by # "edit"
         => /\ record'[v].source = content[v]
            /\ \E g \in Gen : Live(g) /\ Leads(g) /\ gens[g].variant = v /\ ~gens[g].aborted
     ]_vars

\* Once a run has been cancelled it writes no record until it is retried, or taken
\* up again by a new process.
StopsWhenTold ==
  [][told => \A v \in Variant : record'[v] # record[v] => record'[v] = NoRecord \/ record'[v].by # "run"]_vars

\* Whoever waits for a variant while generations are in its lane joins the last of
\* them, and so does not go on before the others are through either.
Joinable == \A v \in Variant : lane[v] # <<>> => jobs[v] = lane[v][Len(lane[v])]

\* A run that is under way ends, by whatever end.
EveryRunEnds == run.status \in Active ~> run.status \notin Active

\* tracker-service.ts:572, "Whether a generation is currently active for the
\* target": a job that is registered is under way.
JobIsActive == \A v \in Variant : jobs[v] # Settled
=============================================================================
