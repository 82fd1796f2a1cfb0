-------------------------- MODULE StoryPlanProofs --------------------------
(***************************************************************************)
(* Plan and tracker stay one truth, for every set of branches, tasks and   *)
(* goals: the type invariant, Agree, FollowsActive, PlanReachesTracker and *)
(* FollowBackIsNarrow.                                                     *)
(***************************************************************************)
EXTENDS StoryPlan, SequenceTheorems, TLAPS

-----------------------------------------------------------------------------
(* The pure half.                                                          *)

LEMMA Numbers == Item \subseteq Nat /\ (\A t \in Task, o \in Own : t < o)
BY TaskAssumption DEF Item

LEMMA CollapsedGoals ==
  ASSUME NEW g \in Goals
  PROVE  /\ Collapsed(g) \in Goals /\ OneActive(Collapsed(g))
         /\ \A i \in Item : (Collapsed(g)[i] = "none") <=> (g[i] = "none")
         /\ \A i \in Item : Collapsed(g)[i] \in {g[i], "pending"}
<1>1. DOMAIN g = Item
  BY DEF Goals
<1>2. Collapsed(g) \in Goals
  BY <1>1 DEF Collapsed, Goals, Status
<1>3. \A i \in Item : /\ (Collapsed(g)[i] = "none") <=> (g[i] = "none")
                      /\ Collapsed(g)[i] \in {g[i], "pending"}
  BY <1>1 DEF Collapsed, Goals, Status
<1>4. ASSUME NEW i \in ActiveIn(Collapsed(g)), NEW j \in ActiveIn(Collapsed(g)) PROVE ~(j < i)
  <2>1. i \in Item /\ j \in Item /\ Collapsed(g)[i] = "active" /\ Collapsed(g)[j] = "active"
    BY <1>2, <1>4 DEF ActiveIn, Goals
  <2>2. g[j] = "active" /\ j \in ActiveIn(g)
    BY <2>1, <1>3, <1>1 DEF ActiveIn
  <2>3. QED
    BY <2>1, <2>2, <1>1 DEF Collapsed
<1>5. OneActive(Collapsed(g))
  <2>1. SUFFICES ASSUME NEW i \in ActiveIn(Collapsed(g)), NEW j \in ActiveIn(Collapsed(g))
                 PROVE  i = j
    BY DEF OneActive
  <2>2. ~(j < i) /\ ~(i < j)
    BY <1>4
  <2>3. i \in Nat /\ j \in Nat
    BY <1>2, Numbers DEF ActiveIn, Goals
  <2>4. QED
    BY <2>2, <2>3
<1>6. QED
  BY <1>2, <1>3, <1>5

\* Nothing is demoted where one goal at most is active.
LEMMA CollapsedOne ==
  ASSUME NEW g \in Goals, OneActive(g)
  PROVE  Collapsed(g) = g
<1>1. ASSUME NEW i \in Item, g[i] = "active", NEW j \in ActiveIn(g) PROVE ~(j < i)
  BY <1>1, Numbers DEF OneActive, ActiveIn, Goals
<1>2. \A i \in DOMAIN g : Collapsed(g)[i] = g[i]
  BY <1>1 DEF Collapsed, Goals
<1>3. QED
  BY <1>2 DEF Collapsed, Goals

LEMMA ProjectedGoals ==
  ASSUME NEW previous \in Plan, NEW next \in Plan, NEW g \in Goals
  PROVE  /\ Projected(previous, next, g) \in Goals
         /\ \A t \in Task :
              /\ Projected(previous, next, g)[t] = Precedence(previous[t], next[t], g[t])
              /\ (Projected(previous, next, g)[t] = "none") <=> (next[t] = "none")
<1>1. ASSUME NEW t \in Task
      PROVE  /\ previous[t] \in Status \cup {"none"} /\ next[t] \in Status \cup {"none"}
             /\ g[t] \in Status \cup {"none"} /\ t \in Item
  BY DEF Plan, Goals, Item
<1>2. ASSUME NEW t \in Task
      PROVE  /\ Precedence(previous[t], next[t], g[t]) \in Status \cup {"none"}
             /\ (Precedence(previous[t], next[t], g[t]) = "none") <=> (next[t] = "none")
  BY <1>1 DEF Precedence, Status
<1>3. QED
  BY <1>1, <1>2 DEF Projected, Goals

LEMMA FollowedPlan ==
  ASSUME NEW p \in Plan, NEW g \in Goals
  PROVE  /\ Followed(p, g) \in Plan
         /\ \A t \in Task : (Followed(p, g)[t] = "none") <=> (p[t] = "none")
<1> DEFINE c == Copied(p, g)
<1>1. /\ c \in [Task -> Status \cup {"none"}]
      /\ \A t \in Task : (c[t] = "none") <=> (p[t] = "none")
  BY DEF Copied, Plan, Goals, Item
<1>2. CASE OneActive(c)
  BY <1>1, <1>2 DEF Followed, Resolved, Plan
<1>3. CASE ~OneActive(c)
  <2>1. Followed(p, g) = [t \in Task |-> IF c[t] = "active" /\ ~First(t, ActiveIn(g)) THEN "pending" ELSE c[t]]
    BY <1>1, <1>3 DEF Followed, Resolved
  <2>2. /\ Followed(p, g) \in [Task -> Status \cup {"none"}]
        /\ \A t \in Task : (Followed(p, g)[t] = "none") <=> (p[t] = "none")
    BY <1>1, <2>1 DEF Status
  <2>3. ASSUME NEW t \in ActiveIn(Followed(p, g)) PROVE t \in ActiveIn(g) /\ First(t, ActiveIn(g))
    BY <2>1, <2>2, <2>3 DEF ActiveIn, First, Goals, Item
  <2>4. OneActive(Followed(p, g))
    <3>1. SUFFICES ASSUME NEW i \in ActiveIn(Followed(p, g)), NEW j \in ActiveIn(Followed(p, g))
                   PROVE  i = j
      BY DEF OneActive
    <3>2. i \in ActiveIn(g) /\ j \in ActiveIn(g) /\ i <= j /\ j <= i
      BY <2>3 DEF First
    <3>3. i \in Nat /\ j \in Nat
      BY <3>2, Numbers DEF ActiveIn, Goals
    <3>4. QED
      BY <3>2, <3>3
  <2>5. QED
    BY <2>2, <2>4 DEF Plan
<1>4. QED
  BY <1>2, <1>3

\* What a follow-back writes is what readers of the tracker see, provided that
\* the plan has all the tasks the tracker has.
LEMMA FollowedAgrees ==
  ASSUME NEW p \in Plan, NEW g \in Goals, \A t \in Task : g[t] # "none" => p[t] # "none",
         NEW t \in Task, p[t] # "none"
  PROVE  Collapsed(g)[t] \in {"none", Followed(p, g)[t]}
<1> DEFINE c == Copied(p, g)
<1>0. /\ c \in [Task -> Status \cup {"none"}] /\ t \in Item /\ DOMAIN g = Item
      /\ DOMAIN p = Task
  BY DEF Copied, Plan, Goals, Item
<1>1. CASE g[t] = "none"
  BY <1>0, <1>1, CollapsedGoals
<1>2. CASE g[t] # "none" /\ OneActive(c)
  <2>1. c[t] = g[t] /\ Followed(p, g) = c
    BY <1>0, <1>2 DEF Copied, Followed, Resolved
  <2>2. SUFFICES ASSUME g[t] = "active", NEW j \in ActiveIn(g), j < t PROVE FALSE
    BY <1>0, <2>1 DEF Collapsed
  <2>3. j \in Task
    <3>1. j \in Item /\ j \in Nat /\ t \in Nat
      BY <1>0, Numbers DEF ActiveIn
    <3>2. j \in Own => t < j
      BY Numbers
    <3>3. QED
      BY <2>2, <3>1, <3>2 DEF Item
  <2>4. c[j] = "active" /\ c[t] = "active"
    BY <2>1, <2>2, <2>3, <1>0 DEF Copied, ActiveIn
  <2>5. j = t
    BY <2>3, <2>4, <1>0, <1>2 DEF OneActive, ActiveIn
  <2>6. QED
    BY <2>2, <2>5, <2>3, TaskAssumption
<1>3. CASE g[t] # "none" /\ ~OneActive(c)
  <2>1. /\ c[t] = g[t]
        /\ Followed(p, g)[t] = IF c[t] = "active" /\ ~First(t, ActiveIn(g)) THEN "pending" ELSE c[t]
    BY <1>0, <1>3 DEF Copied, Followed, Resolved
  <2>2. ASSUME g[t] = "active" PROVE First(t, ActiveIn(g)) <=> ~\E j \in ActiveIn(g) : j < t
    <3>1. t \in Nat /\ \A j \in ActiveIn(g) : j \in Nat
      BY <1>0, Numbers DEF ActiveIn
    <3>2. \A j \in ActiveIn(g) : t <= j <=> ~(j < t)
      BY <3>1
    <3>3. QED
      BY <2>2, <3>2, <1>0 DEF First, ActiveIn
  <2>3. QED
    BY <2>1, <2>2, <1>0 DEF Collapsed
<1>4. QED
  BY <1>1, <1>2, <1>3

-----------------------------------------------------------------------------
(* The inductive invariant.                                                *)

\* A follow-back carries the tracker as it is, up to the collapse of readers,
\* and a request that has yet to project has no follow-back before it.
Carried ==
  /\ job # NoJob => tail = <<>>
  /\ \A n \in DOMAIN tail : tail[n].source = source /\ Collapsed(tail[n].goals) = goals

\* Sources are branches that exist or existed: no new branch takes up an old one.
Known == source \in branches \cup gone \cup {NoBranch}

\* Who owes a projection owes a follow-back.
Owing == "projection" \in unsynced /\ source # NoBranch => "status" \in unsynced

\* The tracker has no task that a plan driving it lacks.
Within(p) == \A t \in Task : goals[t] # "none" => p[t] # "none"
Contained ==
  "projection" \notin unsynced /\ source \in branches /\ job.kind # "project"
    => Within(plan[source])

\* The tracker agrees with a plan.
With(p) == \A t \in Task : p[t] # "none" => goals[t] \in {"none", p[t]}
Synced ==
  "status" \notin unsynced /\ tail = <<>> /\ job.kind # "project" /\ source # NoBranch
    => With(plan[source])

\* Between save and projection it is the plan before the save that counts.
Saved ==
  job.kind = "project" =>
    /\ plan[active] = job.next
    /\ source = active =>
         /\ "projection" \notin unsynced => Within(job.previous)
         /\ "status" \notin unsynced => With(job.previous)

Driven ==
  "projection" \notin unsynced /\ job = NoJob
    => source \in {NoBranch, active} /\ (Has(plan[active]) # {} => source = active)

Shape == TypeOK /\ Carried /\ Known /\ Owing
Truth == Contained /\ Synced /\ Saved /\ Driven

-----------------------------------------------------------------------------
(* What the steps do to rows, tracker and follow-backs.                    *)

Entry == [goals : Goals, source : Branch]

LEMMA CommitWrites ==
  ASSUME TypeOK, tail = <<>>, NEW g \in Goals, NEW s \in Source, Commit(g, s)
  PROVE  /\ goals' \in Goals /\ OneActive(goals') /\ source' = s
         /\ \A i \in Item : (goals'[i] = "none") <=> (g[i] = "none")
         /\ tail' \in Seq(Entry)
         /\ \A n \in DOMAIN tail' : tail'[n].source = source' /\ Collapsed(tail'[n].goals) = goals'
         /\ s # NoBranch => tail' # <<>>
<1>1. goals' = Collapsed(g) /\ source' = s
  BY DEF Commit
<1>2. CASE s = NoBranch
  <2>1. tail' = <<>>
    BY <1>2 DEF Commit
  <2>2. QED
    BY <1>1, <1>2, <2>1, CollapsedGoals
<1>3. CASE s # NoBranch
  <2>1. s \in Branch
    BY <1>3 DEF Source
  <2>2. tail' = <<[goals |-> g, source |-> s]>>
    BY <1>3 DEF Commit
  <2>3. [goals |-> g, source |-> s] \in Entry
    BY <2>1 DEF Entry
  <2>4. tail' \in Seq(Entry) /\ tail' # <<>> /\ DOMAIN tail' = {1}
    BY <2>2, <2>3
  <2>5. QED
    BY <1>1, <2>2, <2>4, CollapsedGoals
<1>4. QED
  BY <1>2, <1>3

\* A commit of the tracker's own making: no goal appears for a task.
Touches ==
  /\ Quiet
  /\ \E g \in Goals : Commit(g, source) /\ \A t \in Task : g[t] # "none" => goals[t] # "none"
  /\ UNCHANGED <<rows, plan, job, unsynced>>

TrackerStep ==
  \/ \E i \in Item, status \in Chosen : SetGoal(i, status)
  \/ \E o \in Own : AddGoal(o)
  \/ \E i \in Item : DeleteGoal(i)
  \/ \E made \in SUBSET Own : GenerateGoals(made)
  \/ \E b \in Branch : CheckBegins(b)
  \/ NothingToCheck
  \/ Verdict

\* What the check may complete is the goal that was selected.
LEMMA CompletedGoals ==
  ASSUME TypeOK, check.stage = "asked", StillTarget(check)
  PROVE  check.target \in Item /\ goals[check.target] # "none"
<1>1. check \in [stage : {"asked"}, branch : Branch, target : Item, status : Status]
  BY DEF TypeOK, Check, Idle
<1>2. QED
  BY <1>1 DEF StillTarget, Status

LEMMA TrackerStepTouches ==
  ASSUME TypeOK, TrackerStep
  PROVE  Touches
<1> USE DEF TypeOK
<1>0. /\ goals \in Goals /\ DOMAIN goals = Item
      /\ \A t \in Task : t \in Item /\ t \notin Own
  <2>1. \A t \in Task : t \notin Own
    BY TaskAssumption
  <2>2. QED
    BY <2>1 DEF Goals, Item
<1>1. ASSUME NEW i \in Item, NEW status \in Chosen, SetGoal(i, status) PROVE Touches
  <2> DEFINE g == [j \in Item |->
               IF j = i THEN status
               ELSE IF status = "active" /\ goals[j] = "active" THEN "pending" ELSE goals[j]]
  <2>1. Commit(g, source) /\ Quiet /\ goals[i] # "none" /\ UNCHANGED <<rows, plan, job, unsynced>>
    BY <1>1 DEF SetGoal, Act
  <2>2. g \in Goals
    BY <1>0, ChosenAssumption DEF Goals, Status
  <2>3. \A t \in Task : g[t] # "none" => goals[t] # "none"
    BY <1>0, <2>1
  <2> HIDE DEF g
  <2>4. QED
    BY <2>1, <2>2, <2>3 DEF Touches
<1>2. ASSUME NEW o \in Own, AddGoal(o) PROVE Touches
  <2> DEFINE g == [goals EXCEPT ![o] = "pending"]
  <2>1. Commit(g, source) /\ Quiet /\ UNCHANGED <<rows, plan, job, unsynced>>
    BY <1>2 DEF AddGoal, Act, ledger
  <2>2. g \in Goals /\ \A t \in Task : g[t] # "none" => goals[t] # "none"
    BY <1>0 DEF Goals, Status
  <2> HIDE DEF g
  <2>3. QED
    BY <2>1, <2>2 DEF Touches
<1>3. ASSUME NEW i \in Item, DeleteGoal(i) PROVE Touches
  <2> DEFINE g == [goals EXCEPT ![i] = "none"]
  <2>1. Commit(g, source) /\ Quiet /\ UNCHANGED <<rows, plan, job, unsynced>>
    BY <1>3 DEF DeleteGoal, Act
  <2>2. g \in Goals /\ \A t \in Task : g[t] # "none" => goals[t] # "none"
    BY <1>0 DEF Goals, Status
  <2> HIDE DEF g
  <2>3. QED
    BY <2>1, <2>2 DEF Touches
<1>4. ASSUME NEW made \in SUBSET Own, GenerateGoals(made) PROVE Touches
  <2> DEFINE g == [i \in Item |-> IF i \notin made THEN "none"
                            ELSE IF First(i, made) THEN "active" ELSE "pending"]
  <2>1. Commit(g, source) /\ Quiet /\ UNCHANGED <<rows, plan, job, unsynced>>
    BY <1>4 DEF GenerateGoals, Act
  <2>2. g \in Goals
    BY DEF Goals, Status
  <2>3. \A t \in Task : g[t] # "none" => goals[t] # "none"
    BY <1>0
  <2> HIDE DEF g
  <2>4. QED
    BY <2>1, <2>2, <2>3 DEF Touches
<1>5. ASSUME NEW b \in Branch, CheckBegins(b) PROVE Touches
  BY <1>0, <1>5 DEF CheckBegins, Act, Touches, ledger
<1>6. ASSUME NothingToCheck PROVE Touches
  BY <1>0, <1>6 DEF NothingToCheck, Touches, ledger
<1>7. ASSUME Verdict PROVE Touches
  <2>1. Quiet /\ UNCHANGED <<rows, plan, job, unsynced>> /\ check.stage = "asked"
    BY <1>7 DEF Verdict
  <2>2. CASE Completes(check)
    <3> DEFINE g == [goals EXCEPT ![check.target] = "completed"]
    <3>1. Commit(g, source) /\ check.target \in Item /\ goals[check.target] # "none"
      BY <2>1, <2>2, CompletedGoals DEF Completes
    <3>2. g \in Goals /\ \A t \in Task : g[t] # "none" => goals[t] # "none"
      BY <1>0, <3>1 DEF Goals, Status
    <3> HIDE DEF g
    <3>3. QED
      BY <2>1, <3>1, <3>2 DEF Touches
  <2>3. CASE NothingCompleted
    BY <1>0, <2>1, <2>3 DEF Touches, NothingCompleted
  <2>4. QED
    BY <1>7, <2>2, <2>3 DEF Verdict
<1>8. QED
  BY <1>1, <1>2, <1>3, <1>4, <1>5, <1>6, <1>7 DEF TrackerStep

\* The projection of a plan into the tracker.
LEMMA ProjectWrites ==
  ASSUME TypeOK, Carried, job # NoJob,
         NEW previous \in Plan, NEW next \in Plan, ProjectFor(active, previous, next)
  PROVE  /\ goals' \in Goals /\ OneActive(goals') /\ source' = active /\ job' = NoJob
         /\ \A t \in Task : (goals'[t] = "none") <=> (next[t] = "none")
         /\ tail' \in Seq(Entry)
         /\ \A n \in DOMAIN tail' : tail'[n].source = source' /\ Collapsed(tail'[n].goals) = goals'
         /\ unsynced' = unsynced \ {"projection"} /\ dropped' = {}
         /\ byCheck' \subseteq byCheck
         /\ \/ tail' # <<>>
            \/ source = active /\ goals' = goals /\ goals = Projected(previous, next, goals)
<1> DEFINE projected == Projected(previous, next, goals)
<1>1. /\ projected \in Goals /\ goals \in Goals /\ OneActive(goals) /\ tail = <<>>
      /\ \A t \in Task : (projected[t] = "none") <=> (next[t] = "none")
      /\ active \in Branch /\ active \in Source /\ active # NoBranch
  BY ProjectedGoals, BranchAssumption DEF TypeOK, Carried, Source
<1>2. /\ job' = NoJob /\ unsynced' = unsynced \ {"projection"} /\ dropped' = {}
      /\ byCheck' \subseteq byCheck
  BY DEF ProjectFor, StillMarked
<1>3. CASE projected = goals /\ source = active
  <2>1. UNCHANGED <<goals, source, tail>>
    BY <1>3 DEF ProjectFor
  <2>2. tail' \in Seq(Entry) /\ DOMAIN tail' = {}
    BY <2>1, <1>1
  <2>3. QED
    BY <1>1, <1>2, <1>3, <2>1, <2>2
<1>4. CASE ~(projected = goals /\ source = active)
  <2>1. Commit(projected, active)
    BY <1>4 DEF ProjectFor
  <2> HIDE DEF projected
  <2>2. QED
    BY <1>1, <1>2, <2>1, CommitWrites, \A t \in Task : t \in Item DEF Item
<1>5. QED
  BY <1>3, <1>4

-----------------------------------------------------------------------------
(* Types.                                                                  *)

CoreType ==
  /\ branches \subseteq Branch /\ gone \subseteq Branch \ branches /\ active \in branches
  /\ plan \in [Branch -> Plan] /\ \A b \in Branch \ branches : plan[b] = EmptyPlan
  /\ goals \in Goals /\ OneActive(goals)
  /\ source \in Source
  /\ tail \in Seq(Entry)
  /\ job \in Job
  /\ unsynced \subseteq {"status", "projection"}

SideType ==
  /\ draft \in Draft /\ check \in Check
  /\ copies \subseteq Branch \X Branch
  /\ acts \in Nat /\ faults \in Nat
  /\ dropped \subseteq Task /\ byCheck \subseteq Task

LEMMA TypeParts == TypeOK <=> CoreType /\ SideType
BY DEF TypeOK, CoreType, SideType, Entry

LEMMA EmptyIsPlan == EmptyPlan \in Plan /\ Has(EmptyPlan) = {}
BY DEF EmptyPlan, Plan, OneActive, ActiveIn, Has

\* A request between save and projection holds two plans.
LEMMA ProjectionJob ==
  ASSUME job \in Job, job.kind = "project"
  PROVE  job \in [kind : {"project"}, previous : Plan, next : Plan] /\ job # NoJob
BY DEF Job, NoJob

LEMMA SideStep ==
  ASSUME TypeOK, Next
  PROVE  SideType'
<1>0. SideType /\ CoreType
  BY TypeParts
<1> USE DEF SideType
<1>1. ASSUME NEW b \in Branch, Open(b) PROVE SideType'
  BY <1>0, <1>1 DEF Open, Draft, CoreType, ledger
<1>2. ASSUME NEW next \in Plan, Save(next) PROVE SideType'
  BY <1>0, <1>2 DEF Save, Act, Draft, NoDraft
<1>3. ASSUME NEW b \in Branch, NEW t \in Task, InsertNext(b, t) PROVE SideType'
  BY <1>0, <1>3 DEF InsertNext, Act, pages
<1>4. ASSUME NEW i \in Item, NEW status \in Chosen, SetGoal(i, status) PROVE SideType'
  BY <1>0, <1>4 DEF SetGoal, Act, pages
<1>5. ASSUME NEW o \in Own, AddGoal(o) PROVE SideType'
  BY <1>0, <1>5 DEF AddGoal, Act, pages, ledger
<1>6. ASSUME NEW i \in Item, DeleteGoal(i) PROVE SideType'
  BY <1>0, <1>6 DEF DeleteGoal, Act, pages
<1>7. ASSUME NEW made \in SUBSET Own, GenerateGoals(made) PROVE SideType'
  BY <1>0, <1>7 DEF GenerateGoals, Act, pages
<1>8. ASSUME NEW g \in [Item -> Chosen \cup {"none"}], TakeTemplate(g) PROVE SideType'
  BY <1>0, <1>8 DEF TakeTemplate, Act, pages
<1>9. ASSUME NEW b \in Branch, NEW from \in Branch, NEW activate \in BOOLEAN, Fork(b, from, activate)
      PROVE  SideType'
  BY <1>0, <1>9 DEF Fork, Act, ledger
<1>10. ASSUME NEW from \in Branch, NEW to \in Branch, CopyPlan(from, to) PROVE SideType'
  BY <1>0, <1>10 DEF CopyPlan
<1>11. ASSUME NEW b \in Branch, Activate(b) PROVE SideType'
  BY <1>0, <1>11 DEF Activate, Act, pages, ledger
<1>12. ASSUME NEW b \in Branch, DeleteBranch(b) PROVE SideType'
  BY <1>0, <1>12 DEF DeleteBranch, Act, pages, ledger
<1>13. ASSUME NEW b \in Branch, CheckBegins(b) PROVE SideType'
  BY <1>0, <1>13 DEF CheckBegins, Act, pages, ledger, Check
<1>14. ASSUME CheckAsks PROVE SideType'
  <2>1. check.branch \in Branch
    BY <1>0, <1>14 DEF CheckAsks, Check, Idle
  <2>2. PICK target \in Item :
          /\ First(target, Candidates(goals))
          /\ check' = [stage |-> "asked", branch |-> check.branch, target |-> target,
                       status |-> goals[target]]
    BY <1>14 DEF CheckAsks
  <2>4. goals[target] \in Status
    BY <2>2 DEF First, Candidates, ActiveIn, Status
  <2>5. check' \in Check
    BY <2>1, <2>2, <2>4 DEF Check
  <2>6. QED
    BY <1>0, <1>14, <2>5 DEF CheckAsks, pages, ledger
<1>15. ASSUME NothingToCheck \/ Verdict \/ CheckFails PROVE SideType'
  <2>1. Idle \in Check
    BY DEF Check
  <2>2. CASE NothingToCheck \/ CheckFails
    BY <1>0, <2>1, <2>2 DEF NothingToCheck, CheckFails, pages, ledger
  <2>3. CASE Verdict
    BY <1>0, <2>1, <2>3 DEF Verdict, Completes, NothingCompleted, pages
  <2>4. QED
    BY <1>15, <2>2, <2>3
<1>16. ASSUME Project \/ Reconcile PROVE SideType'
  BY <1>0, <1>16 DEF Project, Reconcile, ProjectFor, StillMarked, pages, ledger
<1>17. ASSUME FollowBack PROVE SideType'
  BY <1>0, <1>17 DEF FollowBack, pages
<1>18. ASSUME Failing PROVE SideType'
  BY <1>0, <1>18 DEF Failing, Crash, JobFails, FollowBackFails, Fault, pages, Check
<1>19. QED
  BY <1>1, <1>2, <1>3, <1>4, <1>5, <1>6, <1>7, <1>8, <1>9, <1>10, <1>11, <1>12, <1>13, <1>14,
     <1>15, <1>16, <1>17, <1>18 DEF Next, Edits, Branching, Checking, Syncing

-----------------------------------------------------------------------------
(* The steps, one kind after the other.                                    *)

Core == CoreType /\ Carried /\ Known /\ Owing /\ Truth
Inv == TypeOK /\ Core

LEMMA Starts == Init => Inv
<1> SUFFICES ASSUME Init PROVE Inv
  OBVIOUS
<1>1. tail \in Seq(Entry) /\ DOMAIN tail = {} /\ job \in Job
  BY DEF Init, Job
<1>2. CoreType
  BY <1>1, EmptyIsPlan, BranchAssumption DEF Init, CoreType, Goals, OneActive, ActiveIn, Source
<1>3. SideType
  BY DEF Init, SideType, Draft, Check
<1>4. Carried /\ Known /\ Owing /\ Truth
  BY <1>1, EmptyIsPlan, BranchAssumption
  DEF Init, Carried, Known, Owing, Truth, Contained, Synced, Saved, Driven, NoJob
<1>5. QED
  BY <1>2, <1>3, <1>4, TypeParts DEF Inv, Core

LEMMA StillStep ==
  ASSUME Inv, UNCHANGED <<stored, flow, unsynced>>
  PROVE  Core'
BY DEF Inv, Core, CoreType, Carried, Known, Owing, Truth, Contained, Synced, Saved, Driven,
       Within, With, Has, rows, stored, flow

LEMMA TouchStep ==
  ASSUME Inv, Touches
  PROVE  Core'
<1>1. PICK g \in Goals : Commit(g, source) /\ \A t \in Task : g[t] # "none" => goals[t] # "none"
  BY DEF Touches
<1>2. /\ tail = <<>> /\ job = NoJob /\ source \in Source
      /\ UNCHANGED <<branches, gone, active, plan, job, unsynced>>
  BY DEF Touches, Quiet, rows, Inv, Core, CoreType
<1>3. /\ goals' \in Goals /\ OneActive(goals') /\ source' = source
      /\ \A i \in Item : (goals'[i] = "none") <=> (g[i] = "none")
      /\ tail' \in Seq(Entry)
      /\ \A n \in DOMAIN tail' : tail'[n].source = source' /\ Collapsed(tail'[n].goals) = goals'
      /\ source # NoBranch => tail' # <<>>
  BY <1>1, <1>2, CommitWrites DEF Inv
<1>4. CoreType' /\ Carried' /\ Known' /\ Owing'
  BY <1>2, <1>3 DEF Inv, Core, CoreType, Carried, Known, Owing
<1>5. Contained'
  BY <1>1, <1>2, <1>3 DEF Inv, Core, Truth, Contained, Within, Item
<1>6. Synced' /\ Saved' /\ Driven'
  BY <1>2, <1>3 DEF Inv, Core, Truth, Synced, Saved, Driven, NoJob
<1>7. QED
  BY <1>4, <1>5, <1>6 DEF Core, Truth

LEMMA SaveStep ==
  ASSUME Inv, Quiet, NEW b \in Branch, NEW next \in Plan, ApplyPlan(b, next),
         UNCHANGED <<rows, goals, source, tail>>
  PROVE  Core'
<1>1. /\ tail = <<>> /\ tail' = <<>> /\ job = NoJob /\ b \in branches
      /\ UNCHANGED <<branches, gone, active, goals, source>>
      /\ plan' = [plan EXCEPT ![b] = next]
      /\ plan \in [Branch -> Plan] /\ active \in Branch /\ branches \subseteq Branch
  BY DEF Quiet, ApplyPlan, rows, Inv, Core, CoreType
<1>2. unsynced' = IF b = source /\ b # active THEN unsynced \cup {"status"} ELSE unsynced
  BY DEF ApplyPlan
<1>3. CASE b = active
  <2>1. /\ job' = [kind |-> "project", previous |-> plan[b], next |-> next]
        /\ unsynced' = unsynced
    BY <1>2, <1>3 DEF ApplyPlan
  <2>2. job' \in Job /\ job' # NoJob /\ job'.kind = "project"
    BY <2>1, <1>1 DEF Job, NoJob
  <2>3. CoreType' /\ Carried' /\ Known' /\ Owing'
    BY <1>1, <2>1, <2>2 DEF Inv, Core, CoreType, Carried, Known, Owing
  <2>4. Saved'
    BY <1>1, <1>3, <2>1, BranchAssumption
    DEF Inv, Core, Truth, Saved, Contained, Synced, NoJob, Within, With
  <2>5. Contained' /\ Synced' /\ Driven'
    BY <2>2 DEF Contained, Synced, Driven
  <2>6. QED
    BY <2>3, <2>4, <2>5 DEF Core, Truth
<1>4. CASE b # active
  <2>1. job' = NoJob /\ plan'[active] = plan[active]
    BY <1>1, <1>4 DEF ApplyPlan
  <2>2. CoreType' /\ Carried' /\ Known' /\ Owing'
    BY <1>1, <1>2, <2>1 DEF Inv, Core, CoreType, Carried, Known, Owing
  <2>3. Saved' /\ Driven'
    BY <1>1, <1>2, <2>1 DEF Inv, Core, Truth, Saved, Driven, NoJob, Has
  <2>4. CASE b = source
    <3>1. "status" \in unsynced' /\ "projection" \in unsynced'
      BY <1>1, <1>2, <1>4, <2>4, BranchAssumption DEF Inv, Core, Truth, Driven
    <3>2. QED
      BY <2>2, <2>3, <3>1 DEF Core, Truth, Contained, Synced
  <2>5. CASE b # source
    <3>1. source \in Branch => plan'[source] = plan[source]
      BY <1>1, <2>5
    <3>2. source # NoBranch => source \in Branch
      BY DEF Inv, Core, CoreType, Source
    <3>3. Contained' /\ Synced'
      BY <1>1, <1>2, <2>1, <2>5, <3>1, <3>2
      DEF Inv, Core, Truth, Contained, Synced, NoJob, Within, With
    <3>4. QED
      BY <2>2, <2>3, <3>3 DEF Core, Truth
  <2>6. QED
    BY <2>4, <2>5
<1>5. QED
  BY <1>3, <1>4

LEMMA TemplateStep ==
  ASSUME Inv, NEW g \in Goals, TakeTemplate(g)
  PROVE  Core'
<1>1. /\ goals' = g /\ OneActive(g) /\ source' = NoBranch
      /\ unsynced' = unsynced \cup {"projection"}
      /\ UNCHANGED <<branches, gone, active, plan, tail, job>>
      /\ tail = <<>> /\ job = NoJob
  BY DEF TakeTemplate, Act, Quiet, rows, flow
<1>2. CoreType' /\ Carried' /\ Known' /\ Owing'
  BY <1>1 DEF Inv, Core, CoreType, Carried, Known, Owing, Source
<1>3. Contained' /\ Synced' /\ Saved' /\ Driven'
  BY <1>1 DEF Contained, Synced, Saved, Driven, NoJob
<1>4. QED
  BY <1>2, <1>3 DEF Core, Truth

\* A request that changes branches ends in a reconcile, or leaves the active branch.
LEMMA BranchStep ==
  ASSUME Inv, Quiet, NEW b \in Branch \cup {NoBranch},
         branches' \subseteq Branch, gone' \subseteq Branch \ branches', active' \in branches',
         gone \subseteq gone', branches \subseteq branches' \cup gone',
         branches' \cap gone = {}, source \in branches' => source \in branches,
         plan' = [plan EXCEPT ![b] = EmptyPlan], b \notin branches', 
         \A c \in Branch \ branches' : c = b \/ c \notin branches,
         \/ job' = [kind |-> "reconcile"]
         \/ job' = NoJob /\ active' = active /\ active \in branches,
         UNCHANGED <<goals, source, tail, unsynced>>
  PROVE  Core'
<1>1. /\ tail' = <<>> /\ tail = <<>> /\ job = NoJob /\ job' \in Job /\ job'.kind # "project"
      /\ plan \in [Branch -> Plan] /\ EmptyPlan \in Plan /\ Has(EmptyPlan) = {}
      /\ \A t \in Task : EmptyPlan[t] = "none"
  BY EmptyIsPlan DEF Quiet, Inv, Core, CoreType, Job, NoJob, EmptyPlan
<1>2. \A c \in Branch : plan'[c] = IF c = b THEN EmptyPlan ELSE plan[c]
  BY <1>1
<1>3. plan' \in [Branch -> Plan]
  BY <1>1
<1>4. \A c \in Branch \ branches' : plan'[c] = EmptyPlan
  BY <1>2 DEF Inv, Core, CoreType
<1>5. CoreType' /\ Carried' /\ Known' /\ Owing'
  BY <1>1, <1>3, <1>4 DEF Inv, Core, CoreType, Carried, Known, Owing
<1>6. Contained'
  BY <1>1, <1>2 DEF Inv, Core, Truth, Contained, NoJob, Within
<1>7. Synced'
  BY <1>1, <1>2 DEF Inv, Core, CoreType, Truth, Synced, NoJob, With, Source
<1>8. Saved'
  BY <1>1 DEF Saved
<1>9. Driven'
  BY <1>1, <1>2 DEF Inv, Core, Truth, Driven, NoJob, Has
<1>10. QED
  BY <1>5, <1>6, <1>7, <1>8, <1>9 DEF Core, Truth

LEMMA BranchingStep ==
  ASSUME Inv, NEW b \in Branch,
         \/ \E from \in Branch, activate \in BOOLEAN : Fork(b, from, activate)
         \/ Activate(b)
         \/ DeleteBranch(b)
  PROVE  Core'
<1>1. /\ branches \subseteq Branch /\ gone \subseteq Branch \ branches /\ active \in branches
      /\ \A c \in Branch \ branches : plan[c] = EmptyPlan
      /\ NoBranch \notin Branch /\ source \in branches \cup gone \cup {NoBranch}
      /\ plan \in [Branch -> Plan]
  BY BranchAssumption DEF Inv, Core, CoreType, Known
<1>2. plan = [plan EXCEPT ![NoBranch] = EmptyPlan]
  BY <1>1
<1>3. CASE \E from \in Branch, activate \in BOOLEAN : Fork(b, from, activate)
  <2>1. PICK from \in Branch, activate \in BOOLEAN : Fork(b, from, activate)
    BY <1>3
  <2>2. /\ Quiet /\ b \in Branch \ (branches \cup gone) /\ branches' = branches \cup {b}
        /\ active' \in branches' /\ UNCHANGED <<gone, plan, goals, source, tail, unsynced>>
        /\ \/ job' = [kind |-> "reconcile"]
           \/ job' = NoJob /\ active' = active /\ active \in branches
    BY <2>1, <1>1 DEF Fork, Act, ledger
  <2> DEFINE n == NoBranch
  <2>3. /\ gone' \subseteq Branch \ branches' /\ branches' \subseteq Branch
        /\ branches' \cap gone = {} /\ n \notin branches'
        /\ plan' = [plan EXCEPT ![n] = EmptyPlan]
        /\ \A c \in Branch \ branches' : c = n \/ c \notin branches
        /\ source \in branches' => source \in branches
        /\ gone \subseteq gone' /\ branches \subseteq branches' \cup gone'
    BY <2>2, <1>1, <1>2
  <2>4. n \in Branch \cup {NoBranch}
    OBVIOUS
  <2> HIDE DEF n
  <2>5. QED
    BY <2>2, <2>3, <2>4, BranchStep
<1>4. CASE Activate(b)
  <2>1. /\ Quiet /\ b \in branches /\ active' = b /\ job' = [kind |-> "reconcile"]
        /\ UNCHANGED <<branches, gone, plan, goals, source, tail, unsynced>>
    BY <1>4 DEF Activate, Act, ledger
  <2> DEFINE n == NoBranch
  <2>2. /\ gone' \subseteq Branch \ branches' /\ branches' \subseteq Branch
        /\ branches' \cap gone = {} /\ n \notin branches'
        /\ plan' = [plan EXCEPT ![n] = EmptyPlan]
        /\ \A c \in Branch \ branches' : c = n \/ c \notin branches
        /\ active' \in branches'
    BY <2>1, <1>1, <1>2
  <2>3. n \in Branch \cup {NoBranch}
    OBVIOUS
  <2> HIDE DEF n
  <2>4. QED
    BY <2>1, <2>2, <2>3, BranchStep
<1>5. CASE DeleteBranch(b)
  <2>1. /\ Quiet /\ b \in branches /\ branches' = branches \ {b} /\ gone' = gone \cup {b}
        /\ plan' = [plan EXCEPT ![b] = EmptyPlan] /\ job' = [kind |-> "reconcile"]
        /\ UNCHANGED <<goals, source, tail, unsynced>>
        /\ b # active => active' = active
        /\ b = active => active' \in branches'
    BY <1>5 DEF DeleteBranch, Act, ledger
  <2>2. /\ gone' \subseteq Branch \ branches' /\ branches' \subseteq Branch
        /\ branches' \cap gone = {} /\ b \notin branches'
        /\ \A c \in Branch \ branches' : c = b \/ c \notin branches
        /\ active' \in branches'
        /\ source \in branches' => source \in branches
        /\ gone \subseteq gone' /\ branches \subseteq branches' \cup gone'
    BY <2>1, <1>1
  <2>3. QED
    BY <2>1, <2>2, BranchStep
<1>6. QED
  BY <1>3, <1>4, <1>5

LEMMA CopyStep ==
  ASSUME Inv, NEW from \in Branch, NEW to \in Branch, CopyPlan(from, to)
  PROVE  Core'
<1>1. /\ UNCHANGED <<branches, gone, active, goals, source, tail, job>>
      /\ tail = <<>> /\ job = NoJob /\ plan \in [Branch -> Plan]
      /\ active \in Branch /\ branches \subseteq Branch
      /\ source # NoBranch => source \in Branch
  BY DEF CopyPlan, Quiet, rows, flow, Inv, Core, CoreType, Source
<1>2. CASE UNCHANGED <<plan, unsynced>>
  BY <1>1, <1>2, StillStep DEF stored, rows, flow
<1>3. CASE {from, to} \subseteq branches /\ ~UNCHANGED <<plan, unsynced>>
  <2>1. /\ plan' = [plan EXCEPT ![to] = plan[from]]
        /\ to \in {source, active} => unsynced' = {"status", "projection"}
        /\ to \notin {source, active} => unsynced' = unsynced
    BY <1>3 DEF CopyPlan, Inv, Core, CoreType
  <2>2. plan' \in [Branch -> Plan] /\ \A c \in Branch : c # to => plan'[c] = plan[c]
    BY <1>1, <2>1
  <2>3. CoreType' /\ Carried' /\ Known' /\ Owing'
    BY <1>1, <1>3, <2>1, <2>2 DEF Inv, Core, CoreType, Carried, Known, Owing
  <2>4. Contained' /\ Synced' /\ Saved' /\ Driven'
    <3>1. CASE to \in {source, active}
      BY <1>1, <2>1, <3>1 DEF Contained, Synced, Saved, Driven, NoJob
    <3>2. CASE to \notin {source, active}
      <4>1. plan'[active] = plan[active] /\ (source # NoBranch => plan'[source] = plan[source])
        BY <1>1, <2>2, <3>2
      <4>2. QED
        BY <1>1, <2>1, <3>2, <4>1, BranchAssumption
        DEF Inv, Core, Truth, Contained, Synced, Saved, Driven, NoJob, Within, With, Has
    <3>3. QED
      BY <3>1, <3>2
  <2>5. QED
    BY <2>3, <2>4 DEF Core, Truth
<1>4. QED
  BY <1>2, <1>3 DEF CopyPlan

\* Save and projection together leave plan and tracker agreed, or with the
\* follow-back that will.
LEMMA ProjectStep ==
  ASSUME Inv, Project \/ Reconcile
  PROVE  Core'
<1>1. /\ job # NoJob /\ UNCHANGED <<branches, gone, active, plan>>
      /\ plan \in [Branch -> Plan] /\ active \in branches /\ branches \subseteq Branch
      /\ tail = <<>> /\ EmptyPlan \in Plan /\ TypeOK /\ Carried /\ active # NoBranch
  BY EmptyIsPlan, BranchAssumption
  DEF Project, Reconcile, NoJob, rows, Inv, Core, CoreType, Carried
<1>2. CASE Reconcile /\ (source = active \/ (Has(plan[active]) = {} /\ source = NoBranch))
  <2>1. job' = NoJob /\ UNCHANGED <<goals, source, tail, unsynced>> /\ job.kind = "reconcile"
    BY <1>2 DEF Reconcile, ledger
  <2>2. CoreType' /\ Carried' /\ Known' /\ Owing'
    BY <1>1, <2>1 DEF Inv, Core, CoreType, Carried, Known, Owing, Job
  <2>3. Contained' /\ Synced' /\ Saved' /\ Driven'
    BY <1>1, <1>2, <2>1
    DEF Inv, Core, Truth, Contained, Synced, Saved, Driven, NoJob, Within, With, Has
  <2>4. QED
    BY <2>2, <2>3 DEF Core, Truth
<1>3. ASSUME NEW previous \in Plan, ProjectFor(active, previous, plan[active]),
             source = active =>
               /\ "projection" \notin unsynced => Within(previous)
               /\ "status" \notin unsynced => With(previous)
      PROVE  Core'
  <2>1. plan[active] \in Plan
    BY <1>1
  <2>2. /\ goals' \in Goals /\ OneActive(goals') /\ source' = active /\ job' = NoJob
        /\ \A t \in Task : goals'[t] # "none" => plan[active][t] # "none"
        /\ tail' \in Seq(Entry)
        /\ \A n \in DOMAIN tail' : tail'[n].source = source' /\ Collapsed(tail'[n].goals) = goals'
        /\ unsynced' = unsynced \ {"projection"}
        /\ \/ tail' # <<>>
           \/ /\ source = active /\ goals' = goals
              /\ goals = Projected(previous, plan[active], goals)
    BY <1>1, <1>3, <2>1, ProjectWrites
  <2>3. CoreType' /\ Carried' /\ Known' /\ Owing'
    BY <1>1, <2>2 DEF Inv, Core, CoreType, Carried, Known, Owing, Job, Source
  <2>4. Contained' /\ Saved' /\ Driven'
    BY <1>1, <2>2 DEF Contained, Saved, Driven, NoJob, Within
  <2>5. Synced'
    <3>1. SUFFICES ASSUME "status" \notin unsynced', tail' = <<>>, NEW t \in Task,
                          plan[active][t] # "none"
                   PROVE  goals[t] \in {"none", plan[active][t]}
      BY <1>1, <2>2 DEF Synced, With
    <3>2. "status" \notin unsynced /\ "projection" \notin unsynced
      BY <1>1, <2>2, <3>1 DEF Inv, Core, Owing
    <3>3. /\ goals[t] # "none" => previous[t] # "none"
          /\ previous[t] # "none" => goals[t] \in {"none", previous[t]}
      BY <1>3, <2>2, <3>1, <3>2 DEF Within, With
    <3>4. goals \in Goals
      BY <1>1 DEF TypeOK
    <3>5. goals[t] = Precedence(previous[t], plan[active][t], goals[t])
      BY <2>1, <2>2, <3>1, <3>4, ProjectedGoals
    <3>6. QED
      BY <3>1, <3>3, <3>5 DEF Precedence
  <2>6. QED
    BY <2>3, <2>4, <2>5 DEF Core, Truth
<1>4. CASE Project
  <2>1. job.kind = "project" /\ ProjectFor(active, job.previous, job.next)
    BY <1>4 DEF Project
  <2>2. job.previous \in Plan /\ plan[active] = job.next
    BY <2>1, ProjectionJob DEF Inv, Core, CoreType, Truth, Saved
  <2>3. source = active =>
          /\ "projection" \notin unsynced => Within(job.previous)
          /\ "status" \notin unsynced => With(job.previous)
    BY <2>1 DEF Inv, Core, Truth, Saved
  <2>4. QED
    BY <1>3, <2>1, <2>2, <2>3
<1>5. CASE Reconcile /\ ~(source = active \/ (Has(plan[active]) = {} /\ source = NoBranch))
  <2>1. ProjectFor(active, EmptyPlan, plan[active]) /\ source # active
    BY <1>5 DEF Reconcile
  <2>2. QED
    BY <1>1, <1>3, <2>1
<1>6. QED
  BY <1>2, <1>4, <1>5

\* A follow-back writes the plan of the projected branch, and no event comes or goes.
LEMMA FollowBackNarrow ==
  ASSUME Inv, FollowBack
  PROVE  /\ source \in Branch /\ Collapsed(Head(tail).goals) = goals /\ Head(tail).goals \in Goals
         /\ Followed(plan[source], Head(tail).goals) \in Plan
         /\ \A t \in Task : (Followed(plan[source], Head(tail).goals)[t] = "none")
                            <=> (plan[source][t] = "none")
         /\ plan' \in [Branch -> Plan] /\ plan'[source] = Followed(plan[source], Head(tail).goals)
         /\ \A c \in Branch : c # source => plan'[c] = plan[c]
         /\ \A c \in Branch : Has(plan'[c]) = Has(plan[c])
<1> DEFINE b == Head(tail).source
<1> DEFINE g == Head(tail).goals
<1>1. /\ tail # <<>> /\ tail \in Seq(Entry) /\ job = NoJob
      /\ plan \in [Branch -> Plan] /\ branches \subseteq Branch /\ active \in Branch
      /\ plan' = [plan EXCEPT ![b] = Followed(@, g)] /\ tail' = Tail(tail)
      /\ UNCHANGED <<branches, gone, active, goals, source, job>>
  BY DEF FollowBack, rows, Inv, Core, CoreType
<1>2. b = source /\ Collapsed(g) = goals /\ g \in Goals /\ source \in Branch
  <2>1. 1 \in DOMAIN tail /\ Head(tail) = tail[1] /\ tail[1] \in Entry
    BY <1>1
  <2>2. QED
    BY <2>1 DEF Inv, Core, Carried, Entry
<1> HIDE DEF b, g
<1>3. /\ Followed(plan[source], g) \in Plan
      /\ \A t \in Task : (Followed(plan[source], g)[t] = "none") <=> (plan[source][t] = "none")
  BY <1>1, <1>2, FollowedPlan
<1>4. /\ plan' \in [Branch -> Plan] /\ plan'[source] = Followed(plan[source], g)
      /\ \A c \in Branch : c # source => plan'[c] = plan[c]
      /\ \A c \in Branch : Has(plan'[c]) = Has(plan[c])
  <2>1. /\ plan' \in [Branch -> Plan] /\ plan'[source] = Followed(plan[source], g)
        /\ \A c \in Branch : c # source => plan'[c] = plan[c]
    BY <1>1, <1>2, <1>3
  <2>2. Has(plan'[source]) = Has(plan[source])
    BY <1>1, <1>2, <1>3, <2>1 DEF Has, Plan
  <2>3. QED
    BY <2>1, <2>2
<1>5. QED
  BY <1>2, <1>3, <1>4 DEF g

LEMMA FollowBackStep ==
  ASSUME Inv, FollowBack
  PROVE  Core'
<1> DEFINE g == Head(tail).goals
<1>1. /\ tail # <<>> /\ tail \in Seq(Entry) /\ job = NoJob
      /\ plan \in [Branch -> Plan] /\ branches \subseteq Branch /\ active \in Branch
      /\ tail' = Tail(tail)
      /\ UNCHANGED <<branches, gone, active, goals, source, job>>
  BY DEF FollowBack, rows, Inv, Core, CoreType
<1>2. /\ tail' \in Seq(Entry) /\ Len(tail) \in Nat
      /\ \A n \in DOMAIN tail' : n + 1 \in DOMAIN tail /\ tail'[n] = tail[n + 1]
      /\ (tail' = <<>>) <=> (Len(tail) = 1)
  <2>1. /\ tail' \in Seq(Entry) /\ Len(tail) \in Nat /\ Len(tail') = Len(tail) - 1
        /\ \A n \in 1 .. Len(tail') : tail'[n] = tail[n + 1]
    BY <1>1, HeadTailProperties, LenProperties
  <2>2. DOMAIN tail = 1 .. Len(tail) /\ DOMAIN tail' = 1 .. Len(tail')
    BY <1>1, <2>1, LenProperties
  <2>3. (tail' = <<>>) <=> (Len(tail') = 0)
    BY <2>1, EmptySeq
  <2>4. QED
    BY <2>1, <2>2, <2>3
<1>3. /\ Collapsed(g) = goals /\ g \in Goals /\ source \in Branch
      /\ Followed(plan[source], g) \in Plan
      /\ \A t \in Task : (Followed(plan[source], g)[t] = "none") <=> (plan[source][t] = "none")
      /\ plan' \in [Branch -> Plan] /\ plan'[source] = Followed(plan[source], g)
      /\ \A c \in Branch : c # source => plan'[c] = plan[c]
      /\ \A c \in Branch : Has(plan'[c]) = Has(plan[c])
  BY FollowBackNarrow
<1> HIDE DEF g
<1>4. unsynced' = IF tail' = <<>> /\ "projection" \notin unsynced THEN {} ELSE unsynced
  BY <1>2 DEF FollowBack
<1>5. CoreType'
  <2>1. ASSUME NEW c \in Branch \ branches PROVE plan'[c] = EmptyPlan
    <3>1. plan[c] = EmptyPlan
      BY DEF Inv, Core, CoreType
    <3>2. plan'[c] \in [Task -> Status \cup {"none"}] /\ Has(plan'[c]) = {}
      BY <1>3, <3>1, EmptyIsPlan DEF Plan
    <3>3. QED
      BY <3>2 DEF Has, EmptyPlan
  <2>2. QED
    BY <1>1, <1>2, <1>3, <1>4, <2>1 DEF Inv, Core, CoreType
<1>6. Carried' /\ Known' /\ Owing'
  BY <1>1, <1>2, <1>4 DEF Inv, Core, Carried, Known, Owing
<1>7. Contained'
  <2>1. SUFFICES ASSUME "projection" \notin unsynced', source \in branches, NEW t \in Task,
                        goals[t] # "none"
                 PROVE  plan'[source][t] # "none"
    BY <1>1 DEF Contained, Within
  <2>2. "projection" \notin unsynced
    BY <1>4, <2>1
  <2>3. plan[source][t] # "none"
    BY <1>1, <2>1, <2>2 DEF Inv, Core, Truth, Contained, Within, NoJob
  <2>4. QED
    BY <1>3, <2>3
<1>8. Synced'
  <2>1. SUFFICES ASSUME "status" \notin unsynced', tail' = <<>>, NEW t \in Task,
                        plan'[source][t] # "none"
                 PROVE  goals[t] \in {"none", plan'[source][t]}
    BY <1>1 DEF Synced, With
  <2>2. "projection" \notin unsynced
    BY <1>3, <1>4, <2>1, BranchAssumption DEF Inv, Core, Owing
  <2>3. plan[source] \in Plan /\ plan[source][t] # "none"
    BY <1>1, <1>3, <2>1
  <2>4. source \in branches
    BY <1>3, <2>3 DEF Inv, Core, CoreType, EmptyPlan
  <2>5. \A u \in Task : g[u] # "none" => plan[source][u] # "none"
    BY <1>1, <1>3, <2>2, <2>4, CollapsedGoals DEF Inv, Core, Truth, Contained, Within, NoJob, Item
  <2>6. QED
    BY <1>3, <2>3, <2>5, FollowedAgrees
<1>9. Saved' /\ Driven'
  BY <1>1, <1>3, <1>4 DEF Inv, Core, Truth, Saved, Driven, NoJob
<1>10. QED
  BY <1>5, <1>6, <1>7, <1>8, <1>9 DEF Core, Truth

LEMMA FaultStep ==
  ASSUME Inv, Failing
  PROVE  Core'
<1>1. /\ UNCHANGED <<branches, gone, active, plan, goals, source>>
      /\ tail \in Seq(Entry) /\ NoJob \in Job /\ <<>> \in Seq(Entry) /\ DOMAIN <<>> = {}
  BY DEF Failing, Crash, JobFails, FollowBackFails, stored, rows, Inv, Core, CoreType, Job
<1>2. CASE Crash
  <2>1. /\ tail' = <<>> /\ job' = NoJob
        /\ unsynced' = IF job = NoJob /\ tail = <<>> THEN unsynced ELSE {"status", "projection"}
    BY <1>2 DEF Crash, Quiet
  <2>2. CASE job = NoJob /\ tail = <<>>
    BY <1>1, <2>1, <2>2, StillStep DEF stored, rows, flow
  <2>3. CASE ~(job = NoJob /\ tail = <<>>)
    BY <1>1, <2>1, <2>3
    DEF Inv, Core, CoreType, Carried, Known, Owing, Truth, Contained, Synced, Saved, Driven, NoJob
  <2>4. QED
    BY <2>2, <2>3
<1>3. CASE JobFails
  BY <1>1, <1>3
  DEF JobFails, Inv, Core, CoreType, Carried, Known, Owing, Truth, Contained, Synced, Saved,
      Driven, NoJob
<1>4. CASE FollowBackFails
  <2>1. /\ job = NoJob /\ job' = NoJob /\ unsynced' = unsynced \cup {"status"}
        /\ tail # <<>> /\ tail' = Tail(tail)
    BY <1>4 DEF FollowBackFails
  <2>2. /\ tail' \in Seq(Entry) /\ Len(tail) \in Nat /\ Len(tail') = Len(tail) - 1
        /\ \A n \in 1 .. Len(tail') : tail'[n] = tail[n + 1]
    BY <1>1, <2>1, HeadTailProperties, LenProperties
  <2>3. DOMAIN tail = 1 .. Len(tail) /\ DOMAIN tail' = 1 .. Len(tail')
    BY <1>1, <2>2, LenProperties
  <2>4. \A n \in DOMAIN tail' : n + 1 \in DOMAIN tail /\ tail'[n] = tail[n + 1]
    BY <2>2, <2>3
  <2>5. CoreType' /\ Carried' /\ Known' /\ Owing'
    BY <1>1, <2>1, <2>2, <2>4 DEF Inv, Core, CoreType, Carried, Known, Owing
  <2>6. Contained' /\ Synced' /\ Saved' /\ Driven'
    BY <1>1, <2>1
    DEF Inv, Core, Truth, Contained, Synced, Saved, Driven, NoJob, Within, Has
  <2>7. QED
    BY <2>5, <2>6 DEF Core, Truth
<1>5. QED
  BY <1>2, <1>3, <1>4 DEF Failing

\* An event inserted as pending leaves one active event at most.
LEMMA InsertedPlan ==
  ASSUME TypeOK, NEW b \in Branch, NEW t \in Task
  PROVE  [plan[b] EXCEPT ![t] = "pending"] \in Plan
<1> DEFINE next == [plan[b] EXCEPT ![t] = "pending"]
<1>1. plan[b] \in Plan
  BY DEF TypeOK
<1>2. next \in [Task -> Status \cup {"none"}]
  BY <1>1 DEF Plan, Status
<1>3. ActiveIn(next) \subseteq ActiveIn(plan[b])
  BY <1>1 DEF ActiveIn, Plan
<1>4. QED
  BY <1>1, <1>2, <1>3 DEF Plan, OneActive

LEMMA Preserves == Inv /\ [Next]_vars => Inv'
<1> SUFFICES ASSUME Inv, [Next]_vars PROVE Inv'
  OBVIOUS
<1>1. CASE UNCHANGED vars
  BY <1>1, StillStep, TypeParts
  DEF vars, stored, rows, flow, pages, ledger, Inv, TypeOK, Core, SideType
<1>2. CASE Next
  <2>1. SideType'
    BY <1>2, SideStep DEF Inv
  <2>2. ASSUME TrackerStep PROVE Core'
    BY <2>2, TrackerStepTouches, TouchStep DEF Inv
  <2>3. ASSUME NEW b \in Branch, Open(b) \/ CheckAsks \/ CheckFails PROVE Core'
    BY <2>3, StillStep DEF Open, CheckAsks, CheckFails, ledger
  <2>4. ASSUME NEW next \in Plan, Save(next) PROVE Core'
    <3>1. /\ Quiet /\ ApplyPlan(draft.branch, next) /\ draft.branch \in branches
          /\ UNCHANGED <<rows, goals, source, tail>>
      BY <2>4 DEF Save, Act, ApplyPlan
    <3>2. draft.branch \in Branch
      BY <3>1 DEF Inv, TypeOK
    <3>3. QED
      BY <3>1, <3>2, SaveStep
  <2>5. ASSUME NEW b \in Branch, NEW t \in Task, InsertNext(b, t) PROVE Core'
    <3> DEFINE next == [plan[b] EXCEPT ![t] = "pending"]
    <3>1. next \in Plan
      BY InsertedPlan DEF Inv
    <3>2. Quiet /\ ApplyPlan(b, next) /\ UNCHANGED <<rows, goals, source, tail>>
      BY <2>5 DEF InsertNext, Act
    <3> HIDE DEF next
    <3>3. QED
      BY <3>1, <3>2, SaveStep
  <2>6. ASSUME NEW g \in [Item -> Chosen \cup {"none"}], TakeTemplate(g) PROVE Core'
    <3>1. g \in Goals
      BY <2>6 DEF TakeTemplate
    <3>2. QED
      BY <2>6, <3>1, TemplateStep
  <2>7. ASSUME Branching PROVE Core'
    BY <2>7, BranchingStep, CopyStep DEF Branching
  <2>8. ASSUME Syncing PROVE Core'
    BY <2>8, ProjectStep, FollowBackStep DEF Syncing
  <2>9. ASSUME Failing PROVE Core'
    BY <2>9, FaultStep
  <2>10. Core'
    BY <1>2, <2>2, <2>3, <2>4, <2>5, <2>6, <2>7, <2>8, <2>9, BranchAssumption
    DEF Next, Edits, Checking, TrackerStep
  <2>11. TypeOK'
    BY <2>1, <2>10, TypeParts DEF Core, TypeOK, CoreType, SideType, Entry
  <2>12. QED
    BY <2>10, <2>11 DEF Inv
<1>3. QED
  BY <1>1, <1>2

LEMMA Always == Spec => []Inv
<1>1. QED
  BY Starts, Preserves, PTL DEF Spec

-----------------------------------------------------------------------------
(* The events of the plan that drives the tracker are all in it.  This is  *)
(* shown on top of Inv: it needs the history of what people took out.      *)

Filled(p) == \A t \in Task : p[t] # "none" => goals[t] # "none" \/ t \in dropped
Complete ==
  "projection" \notin unsynced /\ source \in branches /\ job.kind # "project"
    => Filled(plan[source])

\* What a commit takes out of the tracker is on record.
Records ==
  /\ source' = source
  /\ \A t \in Task : goals'[t] = "none" => goals[t] = "none" \/ t \in dropped'
  /\ dropped \subseteq dropped'

LEMMA KeepsComplete ==
  ASSUME Inv, Complete, Records, job' = job,
         UNCHANGED <<branches, plan>>, unsynced \subseteq unsynced'
  PROVE  Complete'
BY DEF Complete, Filled, Records

\* A commit changes no goal into none but those it is given as none.
LEMMA CommitRecords ==
  ASSUME Inv, Quiet, NEW g \in Goals, Commit(g, source), dropped \subseteq dropped',
         \A t \in Task : g[t] = "none" => goals[t] = "none" \/ t \in dropped'
  PROVE  Records
<1>1. source \in Source /\ tail = <<>> /\ TypeOK
  BY DEF Inv, Core, CoreType, Quiet
<1>2. source' = source /\ \A i \in Item : (goals'[i] = "none") <=> (g[i] = "none")
  BY <1>1, CommitWrites
<1>3. QED
  BY <1>2 DEF Records, Item

LEMMA TrackerStepRecords ==
  ASSUME Inv, TrackerStep
  PROVE  Records
<1>0. /\ goals \in Goals /\ DOMAIN goals = Item
      /\ \A t \in Task : t \in Item /\ t \notin Own
  <2>1. \A t \in Task : t \notin Own
    BY TaskAssumption
  <2>2. QED
    BY <2>1 DEF Goals, Item, Inv, TypeOK
<1>1. ASSUME NEW i \in Item, NEW status \in Chosen, SetGoal(i, status) PROVE Records
  <2> DEFINE g == [j \in Item |->
               IF j = i THEN status
               ELSE IF status = "active" /\ goals[j] = "active" THEN "pending" ELSE goals[j]]
  <2>1. Commit(g, source) /\ Quiet /\ dropped' = dropped
    BY <1>1 DEF SetGoal, Act
  <2>2. g \in Goals
    BY <1>0, ChosenAssumption DEF Goals, Status
  <2>3. \A t \in Task : g[t] = "none" => goals[t] = "none"
    BY <1>0, ChosenAssumption
  <2> HIDE DEF g
  <2>4. QED
    BY <2>1, <2>2, <2>3, CommitRecords
<1>2. ASSUME NEW o \in Own, AddGoal(o) PROVE Records
  <2> DEFINE g == [goals EXCEPT ![o] = "pending"]
  <2>1. Commit(g, source) /\ Quiet /\ dropped' = dropped
    BY <1>2 DEF AddGoal, Act, ledger
  <2>2. g \in Goals /\ \A t \in Task : g[t] = "none" => goals[t] = "none"
    BY <1>0 DEF Goals, Status
  <2> HIDE DEF g
  <2>3. QED
    BY <2>1, <2>2, CommitRecords
<1>3. ASSUME NEW i \in Item, DeleteGoal(i) PROVE Records
  <2> DEFINE g == [goals EXCEPT ![i] = "none"]
  <2>1. Commit(g, source) /\ Quiet /\ dropped' = dropped \cup ({i} \cap Task)
    BY <1>3 DEF DeleteGoal, Act
  <2>2. g \in Goals
    BY <1>0 DEF Goals
  <2>3. \A t \in Task : g[t] = "none" => goals[t] = "none" \/ t \in dropped'
    BY <1>0, <2>1
  <2> HIDE DEF g
  <2>4. QED
    BY <2>1, <2>2, <2>3, CommitRecords
<1>4. ASSUME NEW made \in SUBSET Own, GenerateGoals(made) PROVE Records
  <2> DEFINE g == [i \in Item |-> IF i \notin made THEN "none"
                            ELSE IF First(i, made) THEN "active" ELSE "pending"]
  <2>1. Commit(g, source) /\ Quiet /\ dropped' = Task
    BY <1>4 DEF GenerateGoals, Act
  <2>2. g \in Goals
    BY DEF Goals, Status
  <2>3. dropped \subseteq Task
    BY DEF Inv, TypeOK
  <2> HIDE DEF g
  <2>4. QED
    BY <2>1, <2>2, <2>3, CommitRecords
<1>5. ASSUME (\E b \in Branch : CheckBegins(b)) \/ NothingToCheck PROVE Records
  <2>1. Commit(goals, source) /\ Quiet /\ dropped' = dropped
    BY <1>5 DEF CheckBegins, NothingToCheck, Act, ledger
  <2>2. QED
    BY <1>0, <2>1, CommitRecords
<1>6. ASSUME Verdict PROVE Records
  <2>1. Quiet /\ dropped' = dropped /\ check.stage = "asked" /\ TypeOK
    BY <1>6 DEF Verdict, Inv
  <2>2. CASE Completes(check)
    <3> DEFINE g == [goals EXCEPT ![check.target] = "completed"]
    <3>1. Commit(g, source) /\ check.target \in Item
      BY <2>1, <2>2, CompletedGoals DEF Completes
    <3>2. g \in Goals /\ \A t \in Task : g[t] = "none" => goals[t] = "none"
      BY <1>0, <3>1 DEF Goals, Status
    <3> HIDE DEF g
    <3>3. QED
      BY <2>1, <3>1, <3>2, CommitRecords
  <2>3. CASE NothingCompleted
    BY <1>0, <2>1, <2>3, CommitRecords DEF NothingCompleted
  <2>4. QED
    BY <1>6, <2>2, <2>3 DEF Verdict
<1>7. QED
  BY <1>1, <1>2, <1>3, <1>4, <1>5, <1>6 DEF TrackerStep

\* A plan that is saved is projected, or it is not the one that drives the tracker.
LEMMA SaveCompletes ==
  ASSUME Inv, Complete, Quiet, NEW b \in Branch, NEW next \in Plan, ApplyPlan(b, next),
         UNCHANGED <<rows, goals, source, dropped>>
  PROVE  Complete'
<1>1. /\ job = NoJob /\ UNCHANGED <<branches, gone, active, goals, source, dropped>>
      /\ plan' = [plan EXCEPT ![b] = next] /\ unsynced \subseteq unsynced'
      /\ plan \in [Branch -> Plan] /\ branches \subseteq Branch /\ NoBranch \notin Branch
  BY BranchAssumption DEF Quiet, ApplyPlan, rows, Inv, Core, CoreType
<1>2. CASE b = active
  BY <1>2 DEF ApplyPlan, Complete
<1>3. CASE b # active
  <2>1. SUFFICES ASSUME "projection" \notin unsynced', source \in branches
                 PROVE  Filled(plan[source]) /\ plan'[source] = plan[source]
    BY <1>1 DEF Complete, Filled
  <2>2. "projection" \notin unsynced /\ b # source
    BY <1>1, <1>3, <2>1 DEF Inv, Core, Truth, Driven
  <2>3. QED
    BY <1>1, <2>1, <2>2 DEF Complete, NoJob
<1>4. QED
  BY <1>2, <1>3

LEMMA BranchCompletes ==
  ASSUME Inv, Complete, Branching
  PROVE  Complete'
<1>0. /\ plan \in [Branch -> Plan] /\ branches \subseteq Branch
      /\ NoBranch \notin Branch /\ source \in branches \cup gone \cup {NoBranch}
  BY BranchAssumption DEF Inv, Core, CoreType, Known
<1>1. ASSUME NEW b \in Branch, NEW from \in Branch, NEW activate \in BOOLEAN,
             Fork(b, from, activate)
      PROVE  Complete'
  <2>1. /\ job = NoJob /\ UNCHANGED <<plan, goals, source, unsynced, dropped>>
        /\ b \notin gone /\ branches' = branches \cup {b} /\ b \in Branch \ branches
    BY <1>1 DEF Fork, Act, Quiet, ledger
  <2>2. source \in branches' => source \in branches
    BY <1>0, <2>1
  <2>3. QED
    BY <2>1, <2>2 DEF Complete, Filled, NoJob
<1>2. ASSUME NEW from \in Branch, NEW to \in Branch, CopyPlan(from, to) PROVE Complete'
  <2>1. job = NoJob /\ UNCHANGED <<branches, active, goals, source, job, dropped>>
    BY <1>2 DEF CopyPlan, Quiet, rows, flow
  <2>2. CASE UNCHANGED <<plan, unsynced>>
    BY <2>1, <2>2 DEF Complete, Filled
  <2>3. CASE ~UNCHANGED <<plan, unsynced>>
    <3>1. /\ plan' = [plan EXCEPT ![to] = plan[from]] /\ unsynced \subseteq unsynced'
          /\ to = source => "projection" \in unsynced'
      BY <1>2, <2>3 DEF CopyPlan
    <3>2. source \in Branch /\ to # source => plan'[source] = plan[source]
      BY <1>0, <3>1
    <3>3. QED
      BY <1>0, <2>1, <3>1, <3>2 DEF Complete, Filled
  <2>4. QED
    BY <2>2, <2>3
<1>3. ASSUME NEW b \in Branch, Activate(b) PROVE Complete'
  BY <1>3 DEF Activate, Act, Quiet, ledger, Complete, Filled, NoJob
<1>4. ASSUME NEW b \in Branch, DeleteBranch(b) PROVE Complete'
  <2>1. /\ job = NoJob /\ UNCHANGED <<goals, source, unsynced, dropped>>
        /\ branches' = branches \ {b} /\ plan' = [plan EXCEPT ![b] = EmptyPlan]
    BY <1>4 DEF DeleteBranch, Act, Quiet, ledger
  <2>2. source \in branches' => source \in branches /\ plan'[source] = plan[source]
    BY <1>0, <2>1
  <2>3. QED
    BY <2>1, <2>2 DEF Complete, Filled, NoJob
<1>5. QED
  BY <1>1, <1>2, <1>3, <1>4 DEF Branching

LEMMA SyncCompletes ==
  ASSUME Inv, Complete, Syncing
  PROVE  Complete'
<1>1. CASE Project \/ Reconcile
  <2>1. /\ job # NoJob /\ UNCHANGED <<branches, active, plan>> /\ TypeOK /\ Carried
        /\ plan[active] \in Plan /\ EmptyPlan \in Plan
    BY <1>1, EmptyIsPlan DEF Project, Reconcile, NoJob, rows, Inv, Core, CoreType
  <2>2. ASSUME NEW previous \in Plan, ProjectFor(active, previous, plan[active]) PROVE Complete'
    <3>1. source' = active /\ \A t \in Task : (goals'[t] = "none") <=> (plan[active][t] = "none")
      BY <2>1, <2>2, ProjectWrites
    <3>2. QED
      BY <2>1, <3>1 DEF Complete, Filled
  <2>3. CASE Project
    <3>1. job.previous \in Plan /\ plan[active] = job.next
      BY <2>3, ProjectionJob DEF Project, Inv, Core, CoreType, Truth, Saved
    <3>2. QED
      BY <2>2, <2>3, <3>1 DEF Project
  <2>4. CASE Reconcile
    <3>1. CASE ProjectFor(active, EmptyPlan, plan[active])
      BY <2>1, <2>2, <3>1
    <3>2. CASE job' = NoJob /\ UNCHANGED <<goals, source, tail, ledger>>
      BY <2>1, <2>4, <3>2 DEF Reconcile, ledger, Complete, Filled
    <3>3. QED
      BY <2>4, <3>1, <3>2 DEF Reconcile
  <2>5. QED
    BY <1>1, <2>3, <2>4
<1>2. CASE FollowBack
  <2>1. /\ UNCHANGED <<branches, goals, source, job, dropped>>
        /\ "projection" \in unsynced => "projection" \in unsynced'
    BY <1>2 DEF FollowBack, rows
  <2>2. \A c \in Branch : Has(plan'[c]) = Has(plan[c])
    BY <1>2, FollowBackNarrow
  <2>3. plan \in [Branch -> Plan] /\ plan' \in [Branch -> Plan] /\ branches \subseteq Branch
    BY <1>2, FollowBackNarrow DEF Inv, Core, CoreType
  <2>4. \A c \in Branch : DOMAIN plan[c] = Task /\ DOMAIN plan'[c] = Task
    BY <2>3 DEF Plan
  <2>5. QED
    BY <2>1, <2>2, <2>3, <2>4 DEF Complete, Filled, Has
<1>3. QED
  BY <1>1, <1>2 DEF Syncing

LEMMA FaultCompletes ==
  ASSUME Inv, Complete, Failing
  PROVE  Complete'
BY DEF Failing, Crash, JobFails, FollowBackFails, Quiet, stored, rows, Complete, Filled

LEMMA StaysComplete == Inv /\ Complete /\ [Next]_vars => Complete'
<1> SUFFICES ASSUME Inv, Complete, [Next]_vars PROVE Complete'
  OBVIOUS
<1>1. CASE UNCHANGED vars
  BY <1>1 DEF vars, stored, rows, flow, ledger, Complete, Filled
<1>2. CASE Next
  <2>1. ASSUME TrackerStep PROVE Complete'
    <3>1. UNCHANGED <<branches, plan, job, unsynced>>
      BY <2>1, TrackerStepTouches DEF Inv, Touches, rows
    <3>2. QED
      BY <2>1, <3>1, TrackerStepRecords, KeepsComplete
  <2>2. ASSUME NEW b \in Branch, Open(b) \/ CheckAsks \/ CheckFails PROVE Complete'
    BY <2>2 DEF Open, CheckAsks, CheckFails, stored, rows, flow, ledger, Complete, Filled
  <2>3. ASSUME NEW next \in Plan, Save(next) PROVE Complete'
    <3>1. /\ Quiet /\ ApplyPlan(draft.branch, next) /\ draft.branch \in branches
          /\ UNCHANGED <<rows, goals, source, dropped>>
      BY <2>3 DEF Save, Act, ApplyPlan
    <3>2. draft.branch \in Branch
      BY <3>1 DEF Inv, TypeOK
    <3>3. QED
      BY <3>1, <3>2, SaveCompletes
  <2>4. ASSUME NEW b \in Branch, NEW t \in Task, InsertNext(b, t) PROVE Complete'
    <3> DEFINE next == [plan[b] EXCEPT ![t] = "pending"]
    <3>1. next \in Plan
      BY InsertedPlan DEF Inv
    <3>2. Quiet /\ ApplyPlan(b, next) /\ UNCHANGED <<rows, goals, source, dropped>>
      BY <2>4 DEF InsertNext, Act
    <3> HIDE DEF next
    <3>3. QED
      BY <3>1, <3>2, SaveCompletes
  <2>5. ASSUME NEW g \in [Item -> Chosen \cup {"none"}], TakeTemplate(g) PROVE Complete'
    BY <2>5 DEF TakeTemplate, Complete
  <2>6. QED
    BY <1>2, <2>1, <2>2, <2>3, <2>4, <2>5, BranchCompletes, SyncCompletes, FaultCompletes,
       BranchAssumption
    DEF Next, Edits, Checking, TrackerStep
<1>3. QED
  BY <1>1, <1>2

\* Every state is well formed; in particular a follow-back never stores a plan
\* with two active events, and readers of the tracker never see two active goals
\* (services/api/src/domain/director/story-plan-sync.ts:184-210).
THEOREM TypeCorrect == Spec => []TypeOK
<1>1. Inv => TypeOK
  BY DEF Inv
<1>2. QED
  BY <1>1, Always, PTL

\* When nothing is under way and no fault is owed a repair, plan and tracker have
\* the same status for every task they share, however many branches and tasks
\* there are and whatever was edited in between.
THEOREM PlanAndTrackerAgree == Spec => []Agree
<1>1. Inv => Agree
  BY DEF Inv, Core, Truth, Synced, Agree, Quiet, NoJob, With, Has, TypeOK, Plan, Source
<1>2. QED
  BY <1>1, Always, PTL

\* When nothing is under way and no projection is owed, the tracker is driven by
\* the active branch or by no plan, and by the active branch if it has events.
THEOREM TrackerFollowsActive == Spec => []FollowsActive
<1>1. Inv => FollowsActive
  BY DEF Inv, Core, Truth, Driven, FollowsActive, Quiet
<1>2. QED
  BY <1>1, Always, PTL

\* The events of the plan that drives the tracker are in it, save those that somebody
\* took out there, once the request and its follow-backs are done and no projection is
\* owed (story-plan-sync.ts:22-25).  Complete is the part that lasts through the
\* follow-backs and the branches' comings and goings.
THEOREM PlanIsInTracker == Spec => []PlanReachesTracker
<1>1. Init => Complete
  BY BranchAssumption DEF Init, Complete, Filled, EmptyPlan
<1>2. Inv /\ Complete => PlanReachesTracker
  <2> SUFFICES ASSUME Inv, Complete, Quiet, "projection" \notin unsynced, source = active,
                      NEW t \in Has(plan[active])
               PROVE  goals[t] # "none" \/ t \in dropped
    BY DEF PlanReachesTracker
  <2>1. active \in branches /\ job.kind # "project"
    BY DEF Inv, TypeOK, Quiet, NoJob
  <2>2. t \in Task /\ plan[active][t] # "none"
    BY DEF Inv, TypeOK, Has, Plan
  <2>3. QED
    BY <2>1, <2>2 DEF Complete, Filled
<1>3. QED
  BY <1>1, <1>2, StaysComplete, Always, PTL DEF Spec

\* While follow-backs are under way a step changes the plan of the projected branch
\* at most, and neither adds an event to it nor takes one away: only statuses follow
\* (story-plan-sync.ts:184-210).
THEOREM FollowBackIsNarrowAlways == Spec => FollowBackIsNarrow
<1> DEFINE Narrow ==
      tail # <<>> => \A b \in Branch : plan'[b] # plan[b] => b = source /\ Has(plan'[b]) = Has(plan[b])
<1>1. Inv /\ [Next]_vars => [Narrow]_vars
  <2> SUFFICES ASSUME Inv, [Next]_vars, tail # <<>> PROVE [Narrow]_vars
    OBVIOUS
  <2>1. CASE UNCHANGED vars
    BY <2>1
  <2>2. CASE FollowBack
    BY <2>2, FollowBackNarrow
  <2>3. CASE Next /\ ~FollowBack
    <3>1. ~Quiet /\ (job = NoJob)
      BY DEF Quiet, Inv, Core, Carried
    <3>2. Failing
      BY <2>3, <3>1
      DEF Next, Edits, Branching, Checking, Syncing, Open, Save, InsertNext, SetGoal, AddGoal,
          DeleteGoal, GenerateGoals, TakeTemplate, Fork, CopyPlan, Activate, DeleteBranch,
          CheckBegins, CheckAsks, NothingToCheck, Verdict, CheckFails, Project, Reconcile, Act, NoJob
    <3>3. plan' = plan
      BY <3>2 DEF Failing, Crash, JobFails, FollowBackFails, stored
    <3>4. QED
      BY <3>3
  <2>4. QED
    BY <2>1, <2>2, <2>3
<1>2. QED
  BY <1>1, Always, PTL DEF Spec, FollowBackIsNarrow
=============================================================================
