----------------------------- MODULE StoryPlan -----------------------------
(***************************************************************************)
(* The story plan of a chat's branches and the goal tracker of the chat    *)
(* (services/api/src/domain/director/story-plan-sync.ts with the objective *)
(* service and the branch operations): two copies of the statuses of one   *)
(* set of tasks, both of which people edit.  A saved plan is projected into*)
(* the tracker when its branch is the active one; what is committed to the *)
(* tracker follows back into the plan it was projected from.               *)
(*                                                                         *)
(* Tasks are numbers; their order is the order of the plan.  Texts,        *)
(* constraints and the route mode of the tracker are left out: the sync    *)
(* carries them along and never looks at them.                             *)
(*                                                                         *)
(* The store is synchronous, so what a request does, and the follow-backs  *)
(* it causes, are one chain of microtasks that no other request enters     *)
(* (Quiet).  The death of the process falls anywhere.                      *)
(***************************************************************************)
EXTENDS Naturals, Sequences, FiniteSets

CONSTANTS
  Branch,     \* branches the chat may have
  Root,       \* the one it begins with
  NoBranch,   \* "not plan-driven"
  Task,       \* tasks of plans
  Own,        \* goals the tracker has of its own, none of any plan
  Chosen,     \* statuses people give
  Copies,     \* forks may take the side chat, and with it the plan, along
  MaxActs,    \* things people do
  MaxFaults   \* deaths of the process and failing store calls

ASSUME BranchAssumption == Root \in Branch /\ NoBranch \notin Branch
ASSUME TaskAssumption ==
  Task \subseteq Nat /\ Own \subseteq Nat /\ \A t \in Task, o \in Own : t < o
ASSUME ChosenAssumption == Chosen \subseteq {"pending", "active", "completed", "abandoned"}
ASSUME SwitchAssumption == Copies \in BOOLEAN
ASSUME BoundAssumption == MaxActs \in Nat /\ MaxFaults \in Nat

VARIABLES
  branches,  \* rows of chat_branches
  gone,      \* branches that were deleted; ids are not used again
  active,    \* chats.active_branch_id
  plan,      \* the plan row of each branch; no row is the empty plan
  goals,     \* the tracker's short-term goals
  source,    \* planProjectedFromBranchId
  tail,      \* follow-backs under way, with the state each was committed with
  job,       \* the request between its save and its projection
  draft,     \* an open plan editor: the branch, and the plan it was opened on
  check,     \* an automatic check of the selected goal
  copies,    \* forks whose page has yet to ask for the copy of the side chat
  acts, faults,
  unsynced,  \* history: a projection or a follow-back that a fault or a write
             \* past the synchronisation has left owing
  dropped,   \* history: tasks somebody took out of the tracker
  byCheck    \* history: tasks a check completed that nobody has set since

rows == <<branches, gone, active>>
stored == <<rows, plan, goals, source>>
flow   == <<tail, job>>
pages  == <<draft, copies>>
ledger == <<unsynced, dropped, byCheck>>
vars == <<stored, flow, pages, check, acts, faults, ledger>>

Item == Task \cup Own
Status == {"pending", "active", "completed", "abandoned"}
Goals == [Item -> Status \cup {"none"}]
Source == Branch \cup {NoBranch}

Has(f) == {i \in DOMAIN f : f[i] # "none"}
ActiveIn(f) == {i \in DOMAIN f : f[i] = "active"}
OneActive(f) == \A i, j \in ActiveIn(f) : i = j

\* Plans that pass normalizeAgentPlan().
Plan == {p \in [Task -> Status \cup {"none"}] : OneActive(p)}
EmptyPlan == [t \in Task |-> "none"]

NoJob == [kind |-> "none"]
Job == {NoJob, [kind |-> "reconcile"]}
         \cup [kind : {"project"}, previous : Plan, next : Plan]
NoDraft == [branch |-> NoBranch]
Draft == {NoDraft} \cup [branch : Branch, base : Plan]
Idle == [stage |-> "idle"]
Check == {Idle} \cup [stage : {"built"}, branch : Branch]
           \cup [stage : {"asked"}, branch : Branch, target : Item, status : Status]

\* A status is in one place; the plans are normalized, and so is the tracker
\* as every reader sees it.
TypeOK ==
  /\ branches \subseteq Branch /\ gone \subseteq Branch \ branches /\ active \in branches
  /\ plan \in [Branch -> Plan] /\ \A b \in Branch \ branches : plan[b] = EmptyPlan
  /\ goals \in Goals /\ OneActive(goals)
  /\ source \in Source
  /\ tail \in Seq([goals : Goals, source : Branch])
  /\ job \in Job /\ draft \in Draft /\ check \in Check
  /\ copies \subseteq Branch \X Branch
  /\ acts \in Nat /\ faults \in Nat
  /\ unsynced \subseteq {"status", "projection"}
  /\ dropped \subseteq Task /\ byCheck \subseteq Task

Init ==
  /\ branches = {Root} /\ gone = {} /\ active = Root
  /\ plan = [b \in Branch |-> EmptyPlan]
  /\ goals = [i \in Item |-> "none"] /\ source = NoBranch
  /\ tail = <<>> /\ job = NoJob
  /\ draft = NoDraft /\ check = Idle /\ copies = {}
  /\ acts = 0 /\ faults = 0
  /\ unsynced = {} /\ dropped = {} /\ byCheck = {}

-----------------------------------------------------------------------------
(* The pure half.                                                          *)

\* The tracker's selected goal, and the plan's current event, are one rule:
\* the first active one, else the first pending one.
First(i, S) == i \in S /\ \A j \in S : i <= j
Candidates(f) ==
  IF ActiveIn(f) # {} THEN ActiveIn(f) ELSE {i \in DOMAIN f : f[i] = "pending"}

\* Reading the tracker back leaves the first active goal active.
Collapsed(f) ==
  [i \in DOMAIN f |-> IF f[i] = "active" /\ \E j \in ActiveIn(f) : j < i
                      THEN "pending" ELSE f[i]]

\* Mutant: the tracker's status always survives.
Precedence_TrackerWins(was, now, tracked) ==
  IF now = "none" \/ tracked = "none" THEN now ELSE tracked

\* A task whose status changed between the saves takes the new one, any other
\* keeps the tracker's; one that is new to the tracker starts as planned.
Precedence(was, now, tracked) ==
  IF now = "none" \/ was \notin {"none", now} \/ tracked = "none" THEN now ELSE tracked

\* projectStoryPlanGoals(): one goal per task, whatever else was there is gone.
Projected(previous, next, tracked) ==
  [i \in Item |-> IF i \in Task THEN Precedence(previous[i], next[i], tracked[i]) ELSE "none"]

\* Mutant: a goal deleted in the tracker takes its event out of the plan.
Copied_Deletes(p, g) == [t \in DOMAIN p |-> IF p[t] = "none" THEN p[t] ELSE g[t]]

\* followGoalStatuses(): tasks take the status of their goal; of two active ones
\* the tracker's stays.
Copied(p, g) == [t \in DOMAIN p |-> IF p[t] = "none" \/ g[t] = "none" THEN p[t] ELSE g[t]]

Resolved(p, g) ==
  IF OneActive(p) THEN p
  ELSE [t \in DOMAIN p |-> IF p[t] = "active" /\ ~First(t, ActiveIn(g)) THEN "pending" ELSE p[t]]
Followed(p, g) == Resolved(Copied(p, g), g)

-----------------------------------------------------------------------------
(* Commits.                                                                *)

Quiet == job = NoJob /\ tail = <<>>

\* commitState(): the write, and its observer, which chains a follow-back when
\* a plan drives the tracker.
Commit(g, s) ==
  /\ goals' = Collapsed(g)
  /\ source' = s
  /\ tail' = IF s = NoBranch THEN tail ELSE Append(tail, [goals |-> g, source |-> s])

Act == Quiet /\ acts < MaxActs /\ acts' = acts + 1

\* Marks of the history once the tracker holds g.
StillMarked(g) == {t \in byCheck : g[t] # "none"}

-----------------------------------------------------------------------------
(* The plan.                                                               *)

Open(b) ==
  /\ Quiet
  /\ b \in branches
  /\ draft' = [branch |-> b, base |-> plan[b]]
  /\ UNCHANGED <<stored, flow, copies, check, acts, faults, ledger>>

\* Mutant: a tracker the branch drives already is not filled again.
ApplyPlan_Once(b, next) ==
  /\ b \in branches
  /\ plan' = [plan EXCEPT ![b] = next]
  /\ job' = IF b = active /\ b # source
            THEN [kind |-> "project", previous |-> plan[b], next |-> next] ELSE NoJob
  /\ unsynced' = unsynced

\* applyPlan() up to its projection.  What is saved is compared with what was
\* stored at that moment.
ApplyPlan(b, next) ==
  /\ b \in branches
  /\ plan' = [plan EXCEPT ![b] = next]
  /\ job' = IF b = active THEN [kind |-> "project", previous |-> plan[b], next |-> next] ELSE NoJob
  /\ unsynced' = IF b = source /\ b # active THEN unsynced \cup {"status"} ELSE unsynced

Choices(base) ==
  {p \in Plan : \A t \in Task : p[t] \in Chosen \cup {"none", base[t]}}

\* The editor saves; what it leaves as it was when it was opened is no choice.
Save(next) ==
  /\ Act
  /\ draft # NoDraft
  /\ next \in Choices(draft.base)
  /\ ApplyPlan(draft.branch, next)
  /\ draft' = NoDraft
  /\ byCheck' = {t \in byCheck : next[t] = draft.base[t]}
  /\ UNCHANGED <<rows, goals, source, tail, copies, check, faults, dropped>>

\* insertNextEvent(): a task with a new id, right after the current one or at the
\* end, and onto the plan as it is stored.
Unknown(t) == goals[t] = "none" /\ \A b \in Branch : plan[b][t] = "none"
RoomFor(p, t) ==
  IF Candidates(p) = {} THEN \A u \in Has(p) : u < t
  ELSE \E current \in Task :
         /\ First(current, Candidates(p)) /\ current < t
         /\ \A u \in Has(p) : u <= current \/ t < u

InsertNext(b, t) ==
  /\ Act
  /\ Unknown(t) /\ RoomFor(plan[b], t)
  /\ ApplyPlan(b, [plan[b] EXCEPT ![t] = "pending"])
  /\ UNCHANGED <<rows, goals, source, tail, pages, check, faults, dropped, byCheck>>

\* projectForBranch(): nothing is written when nothing changes.
ProjectFor(b, previous, next) ==
  LET projected == Projected(previous, next, goals)
  IN /\ job' = NoJob
     /\ IF projected = goals /\ source = b
        THEN UNCHANGED <<goals, source, tail>>
        ELSE Commit(projected, b)
     /\ unsynced' = unsynced \ {"projection"}
     /\ dropped' = {}
     /\ byCheck' = StillMarked(projected)

Project ==
  /\ job.kind = "project"
  /\ ProjectFor(active, job.previous, job.next)
  /\ UNCHANGED <<rows, plan, pages, check, acts, faults>>

\* Mutant: only a tracker that no plan drives is reconciled.
Reconcile_Undriven ==
  /\ job.kind = "reconcile"
  /\ IF source # NoBranch \/ Has(plan[active]) = {}
     THEN /\ job' = NoJob
          /\ UNCHANGED <<goals, source, tail, ledger>>
     ELSE ProjectFor(active, EmptyPlan, plan[active])
  /\ UNCHANGED <<rows, plan, pages, check, acts, faults>>

\* reconcileActiveBranch().
Reconcile ==
  /\ job.kind = "reconcile"
  /\ IF source = active \/ (Has(plan[active]) = {} /\ source = NoBranch)
     THEN /\ job' = NoJob
          /\ UNCHANGED <<goals, source, tail, ledger>>
     ELSE ProjectFor(active, EmptyPlan, plan[active])
  /\ UNCHANGED <<rows, plan, pages, check, acts, faults>>

\* runFollowBack(): a branch that is gone has no plan to write into.
FollowBack ==
  /\ job = NoJob
  /\ tail # <<>>
  /\ LET b == Head(tail).source
     IN plan' = [plan EXCEPT ![b] = Followed(@, Head(tail).goals)]
  /\ tail' = Tail(tail)
  /\ unsynced' = IF Len(tail) = 1 /\ "projection" \notin unsynced THEN {} ELSE unsynced
  /\ UNCHANGED <<rows, goals, source, job, pages, check, acts, faults, dropped, byCheck>>

-----------------------------------------------------------------------------
(* The branches.  Every change of the active one ends in a reconcile.      *)

Fork(b, from, activate) ==
  /\ Act
  /\ b \in Branch \ (branches \cup gone) /\ from \in branches
  /\ branches' = branches \cup {b}
  /\ active' = IF activate THEN b ELSE active
  /\ job' = IF activate THEN [kind |-> "reconcile"] ELSE NoJob
  /\ \E along \in {FALSE, Copies /\ activate /\ from = active} :
       copies' = IF along THEN copies \cup {<<from, b>>} ELSE copies
  /\ UNCHANGED <<gone, plan, goals, source, tail, draft, check, faults, ledger>>

\* forkBranchSidechat(), which the page asks for after the fork: the plan of the
\* source replaces the target's, past the synchronisation.
CopyPlan(from, to) ==
  /\ Quiet
  /\ <<from, to>> \in copies
  /\ copies' = copies \ {<<from, to>>}
  /\ IF {from, to} \subseteq branches /\ Has(plan[from]) # {}
     THEN /\ plan' = [plan EXCEPT ![to] = plan[from]]
          /\ unsynced' = unsynced
               \cup (IF to \in {source, active} THEN {"status", "projection"} ELSE {})
     ELSE UNCHANGED <<plan, unsynced>>
  /\ UNCHANGED <<rows, goals, source, flow, draft, check, acts, faults, dropped, byCheck>>

Activate(b) ==
  /\ Act
  /\ b \in branches
  /\ active' = b
  /\ job' = [kind |-> "reconcile"]
  /\ UNCHANGED <<branches, gone, plan, goals, source, tail, pages, check, faults, ledger>>

\* The plan row goes with its branch; the root, or any other branch, takes the
\* place of a deleted active one.
DeleteBranch(b) ==
  /\ Act
  /\ b \in branches /\ branches # {b}
  /\ branches' = branches \ {b} /\ gone' = gone \cup {b}
  /\ IF b # active THEN active' = active
     ELSE /\ active' \in branches'
          /\ Root \in branches' => active' = Root
  /\ plan' = [plan EXCEPT ![b] = EmptyPlan]
  /\ job' = [kind |-> "reconcile"]
  /\ UNCHANGED <<goals, source, tail, pages, check, faults, ledger>>

-----------------------------------------------------------------------------
(* The tracker.                                                            *)

\* A status chosen by hand; a second active goal gives way.
SetGoal(i, status) ==
  /\ Act
  /\ goals[i] # "none"
  /\ Commit([j \in Item |->
               IF j = i THEN status
               ELSE IF status = "active" /\ goals[j] = "active" THEN "pending" ELSE goals[j]],
             source)
  /\ byCheck' = byCheck \ {i}
  /\ UNCHANGED <<rows, plan, job, pages, check, faults, unsynced, dropped>>

AddGoal(o) ==
  /\ Act
  /\ o \in Own /\ \A i \in Has(goals) : i < o
  /\ Commit([goals EXCEPT ![o] = "pending"], source)
  /\ UNCHANGED <<rows, plan, job, pages, check, faults, ledger>>

DeleteGoal(i) ==
  /\ Act
  /\ goals[i] # "none"
  /\ Commit([goals EXCEPT ![i] = "none"], source)
  /\ dropped' = dropped \cup ({i} \cap Task)
  /\ byCheck' = byCheck \ {i}
  /\ UNCHANGED <<rows, plan, job, pages, check, faults, unsynced>>

\* generateGoalsTasks(): goals of the model's making replace all others.
GenerateGoals(made) ==
  /\ Act
  /\ made \subseteq Own /\ made # {}
  /\ Commit([i \in Item |-> IF i \notin made THEN "none"
                            ELSE IF First(i, made) THEN "active" ELSE "pending"],
             source)
  /\ dropped' = Task
  /\ byCheck' = {}
  /\ UNCHANGED <<rows, plan, job, pages, check, faults, unsynced>>

\* replaceTrackerSetup(): a template's goals, written past commitState(); the
\* state it writes has no planProjectedFromBranchId.
TakeTemplate(g) ==
  /\ Act
  /\ g \in Goals /\ OneActive(g)
  /\ goals' = g
  /\ source' = NoBranch
  /\ unsynced' = unsynced \cup {"projection"}
  /\ dropped' = Task
  /\ byCheck' = {}
  /\ UNCHANGED <<rows, plan, flow, pages, check, faults>>

-----------------------------------------------------------------------------
(* The automatic check.                                                    *)

\* The first commit counts the events; the context is built for the branch of
\* the message that caused the check.
CheckBegins(b) ==
  /\ Act
  /\ b \in branches
  /\ check = Idle
  /\ Candidates(goals) # {}
  /\ Commit(goals, source)
  /\ check' = [stage |-> "built", branch |-> b]
  /\ UNCHANGED <<rows, plan, job, pages, faults, ledger>>

\* What is asked about is the goal selected now, whatever branch it is of.
CheckAsks ==
  /\ Quiet
  /\ check.stage = "built"
  /\ \E target \in Item :
       /\ First(target, Candidates(goals))
       /\ check' = [stage |-> "asked", branch |-> check.branch, target |-> target,
                    status |-> goals[target]]
  /\ UNCHANGED <<stored, flow, pages, acts, faults, ledger>>

\* The counter of events is set back by a commit like the others.
NothingToCheck ==
  /\ Quiet
  /\ check.stage = "built"
  /\ Candidates(goals) = {}
  /\ Commit(goals, source)
  /\ check' = Idle
  /\ UNCHANGED <<rows, plan, job, pages, acts, faults, ledger>>

StillTarget(c) ==
  /\ First(c.target, Candidates(goals))
  /\ goals[c.target] = c.status

\* The verdict counts only if its target has not moved on.
Completes(c) ==
  /\ StillTarget(c)
  /\ Commit([goals EXCEPT ![c.target] = "completed"], source)
  /\ byCheck' = byCheck \cup ({c.target} \cap Task)

\* The counter is set back after any verdict; after one that counts the second
\* commit has the same statuses and stands for nothing of its own here.
NothingCompleted ==
  /\ Commit(goals, source)
  /\ UNCHANGED byCheck

Verdict ==
  /\ Quiet
  /\ check.stage = "asked"
  /\ Completes(check) \/ NothingCompleted
  /\ check' = Idle
  /\ UNCHANGED <<rows, plan, job, pages, acts, faults, unsynced, dropped>>

\* The model could not be asked, or gave nothing to read.
CheckFails ==
  /\ Quiet
  /\ check # Idle
  /\ check' = Idle
  /\ UNCHANGED <<stored, flow, pages, acts, faults, ledger>>

-----------------------------------------------------------------------------
(* Faults.                                                                 *)

Fault == faults < MaxFaults /\ faults' = faults + 1

\* Rows survive a death, and so do the pages.
Crash ==
  /\ Fault
  /\ tail' = <<>> /\ job' = NoJob /\ check' = Idle
  /\ unsynced' = IF Quiet THEN unsynced ELSE {"status", "projection"}
  /\ UNCHANGED <<stored, pages, acts, dropped, byCheck>>

\* A projection that fails fails its request after the plan was saved; a
\* reconcile that fails is logged.
JobFails ==
  /\ Fault
  /\ job # NoJob
  /\ job' = NoJob
  /\ unsynced' = {"status", "projection"}
  /\ UNCHANGED <<stored, tail, pages, check, acts, dropped, byCheck>>

\* A follow-back that fails is logged.
FollowBackFails ==
  /\ Fault
  /\ job = NoJob
  /\ tail # <<>>
  /\ tail' = Tail(tail)
  /\ unsynced' = unsynced \cup {"status"}
  /\ UNCHANGED <<stored, job, pages, check, acts, dropped, byCheck>>

-----------------------------------------------------------------------------
(* Properties.                                                             *)

\* Plan and tracker agree: when nothing is under way, a task that the plan of the
\* projected branch and the tracker share has one status, unless a fault or a
\* write past the synchronisation has left them apart.  A projection and the
\* follow-back it causes put them together again.
Agree ==
  Quiet /\ "status" \notin unsynced /\ source # NoBranch
    => \A t \in Has(plan[source]) : goals[t] \in {"none", plan[source][t]}

\* The tracker is that of the active branch: when nothing is under way it is
\* driven by no other branch, and by the active one if that has events.  Any
\* projection repairs it.
FollowsActive ==
  Quiet /\ "projection" \notin unsynced
    => /\ source \in {NoBranch, active}
       /\ Has(plan[active]) # {} => source = active

\* The events of the plan that drives the tracker are in it, save those that
\* somebody took out there (story-plan-sync.ts:22-25, "the tracker (one per chat) is
\* re-filled from the ACTIVE branch's plan"), unless a projection is owing.
PlanReachesTracker ==
  Quiet /\ "projection" \notin unsynced /\ source = active
    => \A t \in Has(plan[active]) : goals[t] # "none" \/ t \in dropped

\* A task that a check has completed stays completed until somebody chooses
\* another status for it (story-plan-sync.ts:111, "a stale editor save never
\* reverts a check").
ChecksAreKept == \A t \in byCheck : goals[t] = "completed"

\* A follow-back, which nobody asked for, gives a plan neither a new task nor takes
\* one away, and touches no other branch's plan than the one projected, so that
\* only a save and the deletion of the branch can lose an event.
FollowBackIsNarrow ==
  [][tail # <<>> => \A b \in Branch : plan'[b] # plan[b] => b = source /\ Has(plan'[b]) = Has(plan[b])]_vars

-----------------------------------------------------------------------------
Edits ==
  \/ \E b \in Branch : Open(b)
  \/ \E next \in Plan : Save(next)
  \/ \E b \in Branch, t \in Task : InsertNext(b, t)
  \/ \E i \in Item, status \in Chosen : SetGoal(i, status)
  \/ \E o \in Own : AddGoal(o)
  \/ \E i \in Item : DeleteGoal(i)
  \/ \E made \in SUBSET Own : GenerateGoals(made)
  \/ \E g \in [Item -> Chosen \cup {"none"}] : TakeTemplate(g)

Branching ==
  \/ \E b, from \in Branch, activate \in BOOLEAN : Fork(b, from, activate)
  \/ \E from, to \in Branch : CopyPlan(from, to)
  \/ \E b \in Branch : Activate(b)
  \/ \E b \in Branch : DeleteBranch(b)

Checking ==
  \/ \E b \in Branch : CheckBegins(b)
  \/ CheckAsks
  \/ NothingToCheck
  \/ Verdict
  \/ CheckFails

Syncing == Project \/ Reconcile \/ FollowBack
Failing == Crash \/ JobFails \/ FollowBackFails

Next == Edits \/ Branching \/ Checking \/ Syncing \/ Failing

Spec == Init /\ [][Next]_vars
=============================================================================
