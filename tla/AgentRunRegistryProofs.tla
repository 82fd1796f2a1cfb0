----------------------- MODULE AgentRunRegistryProofs -----------------------
(***************************************************************************)
(* Proofs about AgentRunRegistry, for every set of keys, runs,             *)
(* subscriptions and kinds of event, and every bound on the length of a    *)
(* turn.  First what the operators and the actions do to each record, so   *)
(* that the invariants need not look into them; then the invariants, each  *)
(* resting on those before it.                                             *)
(***************************************************************************)
EXTENDS AgentRunRegistry, SequenceTheorems, TLAPS

LEMMA ObserveType ==
  ASSUME NEW o \in Outcome, NEW k \in EventKind
  PROVE  Observe(o, k) \in Outcome
BY DEF Observe, Outcome, EventKind

LEMMA StoredFacts ==
  ASSUME NEW k \in Key, NEW n \in BOOLEAN
  PROVE  /\ Stored(k, n) \in RunRecord
         /\ Stored(k, n).key = k
         /\ Stored(k, n).running
         /\ ~Stored(k, n).aborted
         /\ Stored(k, n).log = <<>>
         /\ Stored(k, n).waiters = {}
<1>1. [state |-> "started", free |-> FALSE] \in Notice
  BY DEF Notice
<1>2. (IF n THEN <<[state |-> "started", free |-> FALSE]>> ELSE <<>>) \in Seq(Notice)
  BY <1>1
<1>. QED
  BY <1>2 DEF Stored, RunRecord, Outcome

LEMMA OverFacts ==
  ASSUME NEW o \in RunRecord, NEW f \in BOOLEAN
  PROVE  /\ Over(o, f) \in RunRecord
         /\ Over(o, f).key = o.key
         /\ ~Over(o, f).running
         /\ Over(o, f).failed = f
         /\ Over(o, f).log = o.log
         /\ Over(o, f).waiters = {}
<1>. DEFINE p == [o EXCEPT !.running = FALSE, !.failed = f, !.waiters = {}]
<1>1. /\ p \in RunRecord
      /\ p.key = o.key /\ ~p.running /\ p.failed = f /\ p.log = o.log /\ p.waiters = {}
  BY DEF RunRecord
<1>. HIDE DEF p
<1>2. EndState(p) \in Outcome
  BY <1>1 DEF EndState, RunRecord, Outcome
<1>3. [state |-> EndState(p), free |-> ~p.running] \in Notice
  BY <1>2 DEF Notice
<1>4. Published(p, EndState(p)) \in Seq(Notice)
  BY <1>1, <1>3 DEF Published, RunRecord
<1>5. Over(o, f) = [p EXCEPT !.notices = Published(p, EndState(p))]
  BY DEF Over, p
<1>. QED
  BY <1>1, <1>4, <1>5 DEF RunRecord

-----------------------------------------------------------------------------
(***************************************************************************)
(* What TypeOK rests on: a subscription that exists is bound to a run that *)
(* was started, the waiters of a run are the subscriptions parked on it,   *)
(* an object that is not yet a run holds nothing, and the map leads from a *)
(* key to a run of that key.                                               *)
(***************************************************************************)
SubsBound ==
  \A s \in Sub : sub[s].at # "none" => sub[s].run \in Run /\ run[sub[s].run].key # NoKey

Linked ==
  \A r \in Run, s \in Sub :
    s \in run[r].waiters <=> sub[s].at = "waiting" /\ sub[s].run = r

Fresh == \A r \in Run : run[r].key = NoKey => run[r] = Unused

Mapped == \A k \in Key : current[k] # NoRun => run[current[k]].key = k

Shape == TypeOK /\ SubsBound /\ Linked /\ Fresh /\ Mapped

\* start(), whether or not its factory throws, fills an unused object.
LEMMA StartEffect ==
  ASSUME Shape, NEW r \in Run, NEW k \in Key, NEW n \in BOOLEAN,
         Start(k, r, n) \/ StartThrows(k, r, n)
  PROVE  /\ run[r] = Unused
         /\ current' = [current EXCEPT ![k] = r]
         /\ run' \in [Run -> RunRecord]
         /\ run'[r].key = k /\ run'[r].log = <<>> /\ run'[r].waiters = {}
         /\ run'[r].running => ~run'[r].aborted
         /\ \A q \in Run \ {r} : run'[q] = run[q]
         /\ UNCHANGED sub
<1>1. run[r] = Unused
  BY DEF Start, StartThrows, Shape, Fresh
<1>2. PICK v \in RunRecord : /\ run' = [run EXCEPT ![r] = v]
                             /\ v.key = k /\ v.log = <<>> /\ v.waiters = {}
                             /\ v.running => ~v.aborted
  <2>1. CASE Start(k, r, n)
    <3>1. run' = [run EXCEPT ![r] = Stored(k, n)]
      BY <2>1 DEF Start
    <3>. QED
      BY <3>1, StoredFacts
  <2>2. CASE StartThrows(k, r, n)
    <3>1. run' = [run EXCEPT ![r] = Over(Stored(k, n), TRUE)]
      BY <2>2 DEF StartThrows
    <3>2. Stored(k, n) \in RunRecord /\ Stored(k, n).key = k /\ Stored(k, n).log = <<>>
      BY StoredFacts
    <3>3. /\ Over(Stored(k, n), TRUE) \in RunRecord
          /\ Over(Stored(k, n), TRUE).key = k
          /\ Over(Stored(k, n), TRUE).log = <<>>
          /\ Over(Stored(k, n), TRUE).waiters = {}
          /\ ~Over(Stored(k, n), TRUE).running
      BY <3>2, OverFacts
    <3>. QED
      BY <3>1, <3>3
  <2>. QED
    BY <2>1, <2>2
<1>3. current' = [current EXCEPT ![k] = r] /\ UNCHANGED sub
  BY DEF Start, StartThrows
<1>. QED
  BY <1>1, <1>2, <1>3 DEF Shape, TypeOK

\* The waiters of a run that is woken look again; nobody else notices.
LEMMA WokenEffect ==
  ASSUME Shape, NEW r \in Run, sub' = Woken(r)
  PROVE  /\ sub' \in [Sub -> SubRecord]
         /\ \A s \in Sub : /\ sub'[s].run = sub[s].run
                           /\ sub'[s].after = sub[s].after
                           /\ sub'[s].cursor = sub[s].cursor
                           /\ sub'[s].got = sub[s].got
                           /\ sub'[s].detached = sub[s].detached
                           /\ sub'[s].at = IF sub[s].at = "waiting" /\ sub[s].run = r
                                           THEN "reading" ELSE sub[s].at
<1>. SUFFICES ASSUME NEW s \in Sub
              PROVE  /\ sub'[s] \in SubRecord
                     /\ sub'[s].run = sub[s].run
                     /\ sub'[s].after = sub[s].after
                     /\ sub'[s].cursor = sub[s].cursor
                     /\ sub'[s].got = sub[s].got
                     /\ sub'[s].detached = sub[s].detached
                     /\ sub'[s].at = IF sub[s].at = "waiting" /\ sub[s].run = r
                                     THEN "reading" ELSE sub[s].at
  BY DEF Woken
<1>1. sub[s] \in SubRecord
  BY DEF Shape, TypeOK
<1>2. s \in run[r].waiters <=> sub[s].at = "waiting" /\ sub[s].run = r
  BY DEF Shape, Linked
<1>3. CASE s \in run[r].waiters
  <2>1. sub'[s] = [sub[s] EXCEPT !.at = "reading"]
    BY <1>3 DEF Woken
  <2>. QED
    BY <1>1, <1>2, <1>3, <2>1 DEF SubRecord, Place
<1>4. CASE s \notin run[r].waiters
  <2>1. sub'[s] = sub[s]
    BY <1>4 DEF Woken
  <2>. QED
    BY <1>1, <1>2, <1>4, <2>1
<1>. QED
  BY <1>3, <1>4

\* consume() appends the event after the last one.
LEMMA EmitEffect ==
  ASSUME Shape, NEW r \in Run, NEW kind \in Kind, Emit(r, kind)
  PROVE  /\ run' \in [Run -> RunRecord]
         /\ run[r].running
         /\ run'[r].key = run[r].key /\ run'[r].running = run[r].running
         /\ run'[r].aborted = run[r].aborted /\ run'[r].failed = run[r].failed
         /\ run'[r].log = Append(run[r].log, [seq |-> Len(run[r].log) + 1, kind |-> kind])
         /\ run'[r].waiters = {}
         /\ \A q \in Run \ {r} : run'[q] = run[q]
         /\ UNCHANGED current
<1>. DEFINE e == [seq |-> Len(run[r].log) + 1, kind |-> kind]
            o == Observe(run[r].outcome, kind)
<1>1. run[r] \in RunRecord /\ run[r].log \in Seq(Event) /\ run[r].outcome \in Outcome
  BY DEF Shape, TypeOK, RunRecord
<1>2. e \in Event
  BY <1>1, KindAssumption DEF Event
<1>3. Append(run[r].log, e) \in Seq(Event)
  BY <1>1, <1>2
<1>4. o \in Outcome
  BY <1>1, KindAssumption, ObserveType
<1>5. run' = [run EXCEPT ![r] = [run[r] EXCEPT !.log = Append(run[r].log, e),
                                               !.outcome = o, !.waiters = {}]]
  BY Zenon DEF Emit, NextSeq
<1>. HIDE DEF e, o
<1>6. [run[r] EXCEPT !.log = Append(run[r].log, e), !.outcome = o, !.waiters = {}] \in RunRecord
  BY <1>1, <1>3, <1>4 DEF RunRecord
<1>7. run[r].running /\ UNCHANGED current
  BY DEF Emit
<1>8. run'[r] = [run[r] EXCEPT !.log = Append(run[r].log, e), !.outcome = o, !.waiters = {}]
  BY <1>5 DEF Shape, TypeOK
<1>9. run'[r].log = Append(run[r].log, e)
  BY <1>1, <1>8 DEF RunRecord
<1>10. run' \in [Run -> RunRecord] /\ \A q \in Run \ {r} : run'[q] = run[q]
  BY <1>5, <1>6 DEF Shape, TypeOK
<1>11. /\ run'[r].key = run[r].key /\ run'[r].running = run[r].running
       /\ run'[r].aborted = run[r].aborted /\ run'[r].failed = run[r].failed
       /\ run'[r].waiters = {}
  BY <1>1, <1>8 DEF RunRecord
<1>. QED
  BY <1>7, <1>9, <1>10, <1>11 DEF e

\* The end of a turn closes its record and keeps its log.
LEMMA EndEffect ==
  ASSUME Shape, NEW r \in Run, NEW threw \in BOOLEAN, End(r, threw)
  PROVE  /\ run' \in [Run -> RunRecord]
         /\ run[r].running
         /\ run'[r].key = run[r].key /\ ~run'[r].running /\ run'[r].failed = threw
         /\ run'[r].log = run[r].log /\ run'[r].waiters = {}
         /\ \A q \in Run \ {r} : run'[q] = run[q]
         /\ UNCHANGED current
<1>1. run[r] \in RunRecord
  BY DEF Shape, TypeOK
<1>2. /\ run' = [run EXCEPT ![r] = Over(run[r], threw)]
      /\ run[r].running
      /\ UNCHANGED current
  BY DEF End
<1>. QED
  BY <1>1, <1>2, OverFacts DEF Shape, TypeOK

\* stop() touches the signal of the holder only.
LEMMA StopEffect ==
  ASSUME Shape, NEW k \in Key, Stop(k)
  PROVE  /\ run' \in [Run -> RunRecord]
         /\ current[k] \in Run
         /\ run[current[k]].running /\ run'[current[k]].running
         /\ ~run[current[k]].aborted /\ run'[current[k]].aborted
         /\ \A q \in Run : /\ run'[q].key = run[q].key
                           /\ run'[q].running = run[q].running
                           /\ run'[q].failed = run[q].failed
                           /\ run'[q].log = run[q].log
                           /\ run'[q].waiters = run[q].waiters
                           /\ q # current[k] => run'[q] = run[q]
         /\ UNCHANGED <<current, sub>>
<1>1. current[k] \in Run /\ run[current[k]] \in RunRecord
  BY DEF Stop, Busy, Shape, TypeOK
<1>. DEFINE v == [run[current[k]] EXCEPT !.aborted = TRUE]
<1>2. v \in RunRecord
  BY <1>1 DEF RunRecord
<1>3. run' = [run EXCEPT ![current[k]] = v]
  BY DEF Stop
<1>4. /\ v.key = run[current[k]].key /\ v.running = run[current[k]].running
      /\ v.failed = run[current[k]].failed /\ v.log = run[current[k]].log
      /\ v.waiters = run[current[k]].waiters /\ v.aborted
  BY <1>1 DEF RunRecord
<1>. HIDE DEF v
<1>5. \A q \in Run : run'[q] = IF q = current[k] THEN v ELSE run[q]
  BY <1>3 DEF Shape, TypeOK
<1>6. /\ run[current[k]].running /\ ~run[current[k]].aborted
      /\ UNCHANGED <<current, sub>>
  BY DEF Stop, Busy
<1>. QED
  BY <1>1, <1>2, <1>3, <1>4, <1>5, <1>6 DEF Shape, TypeOK

\* A change of the waiters of one run changes nothing else of the runs.
LEMMA WaitersEffect ==
  ASSUME Shape, NEW s \in Sub, NEW w \in SUBSET Sub, sub[s].run \in Run,
         run' = [run EXCEPT ![sub[s].run].waiters = w]
  PROVE  /\ run' \in [Run -> RunRecord]
         /\ \A q \in Run : /\ run'[q].key = run[q].key
                           /\ run'[q].running = run[q].running
                           /\ run'[q].aborted = run[q].aborted
                           /\ run'[q].failed = run[q].failed
                           /\ run'[q].log = run[q].log
                           /\ q # sub[s].run => run'[q] = run[q]
         /\ run'[sub[s].run].waiters = w
<1>. DEFINE r == sub[s].run
            v == [run[r] EXCEPT !.waiters = w]
<1>1. run[r] \in RunRecord
  BY DEF Shape, TypeOK
<1>2. /\ v \in RunRecord /\ v.waiters = w
      /\ v.key = run[r].key /\ v.running = run[r].running /\ v.aborted = run[r].aborted
      /\ v.failed = run[r].failed /\ v.log = run[r].log
  BY <1>1 DEF RunRecord
<1>3. run' = [run EXCEPT ![r] = v]
  OBVIOUS
<1>. HIDE DEF v
<1>4. \A q \in Run : run'[q] = IF q = r THEN v ELSE run[q]
  BY <1>3 DEF Shape, TypeOK
<1>5. run' \in [Run -> RunRecord]
  BY <1>2, <1>3 DEF Shape, TypeOK
<1>. QED
  BY <1>2, <1>4, <1>5

\* A step of one subscription leaves the others alone; what it was bound to,
\* where it began and, unless it delivers, what it has received stay.
SubOnly(s) ==
  /\ sub' \in [Sub -> SubRecord]
  /\ \A t \in Sub \ {s} : sub'[t] = sub[t]
  /\ sub'[s].run = sub[s].run
  /\ sub'[s].after = sub[s].after

Kept(s) ==
  /\ sub'[s].cursor = sub[s].cursor
  /\ sub'[s].got = sub[s].got

LEMMA SubscribeEffect ==
  ASSUME Shape, NEW s \in Sub, NEW k \in Key, NEW after \in 0..MaxEvents,
         NEW gone \in BOOLEAN, Subscribe(s, k, after, gone)
  PROVE  /\ sub' \in [Sub -> SubRecord]
         /\ \A t \in Sub \ {s} : sub'[t] = sub[t]
         /\ sub[s].at = "none"
         /\ sub'[s].run = current[k] /\ current[k] \in Run
         /\ sub'[s].after = after /\ sub'[s].cursor = after
         /\ sub'[s].at = "idle" /\ sub'[s].got = <<>>
         /\ UNCHANGED <<current, run>>
<1>. DEFINE v == [run |-> current[k], after |-> after, cursor |-> after,
                  at |-> "idle", detached |-> gone, got |-> <<>>]
<1>1. current[k] \in Run
  BY DEF Subscribe, Shape, TypeOK
<1>2. after \in Nat /\ <<>> \in Seq(Event)
  BY BoundAssumption
<1>3. v \in SubRecord
  BY <1>1, <1>2 DEF SubRecord, Place
<1>4. sub' = [sub EXCEPT ![s] = v]
  BY DEF Subscribe
<1>5. sub[s].at = "none" /\ UNCHANGED <<current, run>>
  BY DEF Subscribe
<1>. QED
  BY <1>1, <1>3, <1>4, <1>5 DEF Shape, TypeOK

LEMMA DeliverEffect ==
  ASSUME Shape, NEW s \in Sub, Deliver(s)
  PROVE  LET log == run[sub[s].run].log
             e   == log[sub[s].cursor + 1]
         IN  /\ SubOnly(s)
             /\ sub[s].at = "reading" /\ sub'[s].at = "idle"
             /\ sub[s].run \in Run /\ sub[s].cursor < Len(log)
             /\ e \in Event
             /\ sub'[s].cursor = e.seq
             /\ sub'[s].got = Append(sub[s].got, e)
             /\ sub'[s].detached = sub[s].detached
             /\ UNCHANGED <<current, run>>
<1>. DEFINE log == run[sub[s].run].log
            e   == log[sub[s].cursor + 1]
<1>1. sub[s].run \in Run /\ sub[s] \in SubRecord
  BY DEF Deliver, Shape, SubsBound, TypeOK
<1>2. log \in Seq(Event) /\ sub[s].cursor \in Nat /\ sub[s].got \in Seq(Event)
  BY <1>1 DEF Shape, TypeOK, RunRecord, SubRecord
<1>3. /\ sub' = [sub EXCEPT ![s] = [sub[s] EXCEPT !.at = "idle", !.cursor = e.seq,
                                                  !.got = Append(sub[s].got, e)]]
      /\ sub[s].at = "reading" /\ sub[s].cursor < Len(log)
      /\ UNCHANGED <<current, run>>
  BY Zenon DEF Deliver
<1>. HIDE DEF log
<1>4. e \in Event
  BY <1>2, <1>3
<1>. HIDE DEF e
<1>5. e.seq \in Nat /\ Append(sub[s].got, e) \in Seq(Event)
  BY <1>2, <1>4 DEF Event
<1>. DEFINE v == [sub[s] EXCEPT !.at = "idle", !.cursor = e.seq, !.got = Append(sub[s].got, e)]
<1>6. /\ v \in SubRecord /\ v.at = "idle" /\ v.cursor = e.seq /\ v.got = Append(sub[s].got, e)
      /\ v.run = sub[s].run /\ v.after = sub[s].after /\ v.detached = sub[s].detached
  BY <1>1, <1>5 DEF SubRecord, Place
<1>7. sub' = [sub EXCEPT ![s] = v]
  BY <1>3
<1>. HIDE DEF v
<1>8. SubOnly(s) /\ sub'[s] = v
  BY <1>6, <1>7 DEF Shape, TypeOK, SubOnly
<1>. QED
  BY <1>1, <1>3, <1>4, <1>6, <1>8 DEF e, log

\* A step that moves a subscription, and possibly detaches it.
LEMMA PlaceEffect ==
  ASSUME Shape, NEW s \in Sub, NEW p \in Place, NEW d \in BOOLEAN,
         \/ sub' = [sub EXCEPT ![s].at = p] /\ d = sub[s].detached
         \/ sub' = [sub EXCEPT ![s].detached = d, ![s].at = p]
  PROVE  SubOnly(s) /\ Kept(s) /\ sub'[s].at = p /\ sub'[s].detached = d
<1>1. sub[s] \in SubRecord
  BY DEF Shape, TypeOK
<1>2. PICK v \in SubRecord :
         /\ sub' = [sub EXCEPT ![s] = v]
         /\ v.run = sub[s].run /\ v.after = sub[s].after /\ v.cursor = sub[s].cursor
         /\ v.got = sub[s].got /\ v.at = p /\ v.detached = d
  <2>1. CASE sub' = [sub EXCEPT ![s].at = p] /\ d = sub[s].detached
    <3>. DEFINE v == [sub[s] EXCEPT !.at = p]
    <3>1. /\ v \in SubRecord
          /\ v.run = sub[s].run /\ v.after = sub[s].after /\ v.cursor = sub[s].cursor
          /\ v.got = sub[s].got /\ v.at = p /\ v.detached = d
      BY <1>1, <2>1 DEF SubRecord
    <3>2. sub' = [sub EXCEPT ![s] = v]
      BY <2>1
    <3>. HIDE DEF v
    <3>. QED
      BY <3>1, <3>2
  <2>2. CASE sub' = [sub EXCEPT ![s].detached = d, ![s].at = p]
    <3>. DEFINE v == [sub[s] EXCEPT !.detached = d, !.at = p]
    <3>1. /\ v \in SubRecord
          /\ v.run = sub[s].run /\ v.after = sub[s].after /\ v.cursor = sub[s].cursor
          /\ v.got = sub[s].got /\ v.at = p /\ v.detached = d
      BY <1>1 DEF SubRecord
    <3>2. sub' = [sub EXCEPT ![s] = v]
      BY <1>1, <2>2 DEF Shape, TypeOK, SubRecord
    <3>. HIDE DEF v
    <3>. QED
      BY <3>1, <3>2
  <2>. QED
    BY <2>1, <2>2
<1>. QED
  BY <1>2 DEF SubOnly, Kept, Shape, TypeOK

LEMMA PullEffect ==
  ASSUME Shape, NEW s \in Sub, Pull(s)
  PROVE  /\ SubOnly(s) /\ Kept(s) /\ sub'[s].detached = sub[s].detached
         /\ sub[s].at = "idle" /\ sub'[s].at = "reading"
         /\ UNCHANGED <<current, run>>
BY ZenonT(60), PlaceEffect DEF Pull, Place, Shape, TypeOK, SubRecord

LEMMA FinishEffect ==
  ASSUME Shape, NEW s \in Sub, Finish(s)
  PROVE  /\ SubOnly(s) /\ Kept(s) /\ sub'[s].detached = sub[s].detached
         /\ sub[s].at = "reading"
         /\ sub'[s].at = (IF run[sub[s].run].failed THEN "failed" ELSE "done")
         /\ ~run[sub[s].run].running /\ sub[s].cursor >= Len(run[sub[s].run].log)
         /\ UNCHANGED <<current, run>>
BY ZenonT(60), PlaceEffect DEF Finish, Place, Shape, TypeOK, SubRecord

LEMMA LeaveEffect ==
  ASSUME Shape, NEW s \in Sub, Leave(s)
  PROVE  /\ SubOnly(s) /\ Kept(s) /\ sub'[s].detached /\ sub[s].detached
         /\ sub[s].at = "reading" /\ sub'[s].at = "done"
         /\ UNCHANGED <<current, run>>
BY ZenonT(60), PlaceEffect DEF Leave, Place, Shape, TypeOK, SubRecord

LEMMA ReturnEffect ==
  ASSUME Shape, NEW s \in Sub, Return(s)
  PROVE  /\ SubOnly(s) /\ Kept(s) /\ sub'[s].detached
         /\ sub[s].at = "idle" /\ sub'[s].at = "done"
         /\ UNCHANGED <<current, run>>
BY ZenonT(60), PlaceEffect DEF Return, Place, Shape, TypeOK, SubRecord

LEMMA ParkEffect ==
  ASSUME Shape, NEW s \in Sub, Park(s)
  PROVE  /\ SubOnly(s) /\ Kept(s) /\ ~sub'[s].detached
         /\ sub[s].at = "reading" /\ sub'[s].at = "waiting"
         /\ sub[s].run \in Run
         /\ run[sub[s].run].running /\ sub[s].cursor >= Len(run[sub[s].run].log)
         /\ run' = [run EXCEPT ![sub[s].run].waiters = run[sub[s].run].waiters \cup {s}]
         /\ run[sub[s].run].waiters \cup {s} \in SUBSET Sub
         /\ UNCHANGED current
<1>1. SubOnly(s) /\ Kept(s) /\ sub'[s].at = "waiting" /\ sub'[s].detached = sub[s].detached
  BY ZenonT(60), PlaceEffect DEF Park, Place, Shape, TypeOK, SubRecord
<1>2. sub[s].run \in Run
  BY DEF Park, Shape, SubsBound
<1>3. run[sub[s].run].waiters \cup {s} \in SUBSET Sub
  BY <1>2 DEF Shape, TypeOK, RunRecord
<1>. QED
  BY <1>1, <1>2, <1>3 DEF Park

LEMMA DetachEffect ==
  ASSUME Shape, NEW s \in Sub, Detach(s)
  PROVE  /\ SubOnly(s) /\ Kept(s) /\ sub'[s].detached
         /\ sub[s].at \in {"idle", "reading", "waiting"}
         /\ sub'[s].at = (IF sub[s].at = "waiting" THEN "reading" ELSE sub[s].at)
         /\ sub[s].run \in Run
         /\ run' = [run EXCEPT ![sub[s].run].waiters = run[sub[s].run].waiters \ {s}]
         /\ run[sub[s].run].waiters \ {s} \in SUBSET Sub
         /\ UNCHANGED current
<1>. DEFINE p == IF sub[s].at = "waiting" THEN "reading" ELSE sub[s].at
<1>1. sub' = [sub EXCEPT ![s].detached = TRUE, ![s].at = p]
  BY DEF Detach, Shape, TypeOK, SubRecord
<1>2. p \in Place
  BY DEF Shape, TypeOK, SubRecord, Place
<1>. HIDE DEF p
<1>3. SubOnly(s) /\ Kept(s) /\ sub'[s].detached /\ sub'[s].at = p
  BY <1>1, <1>2, PlaceEffect
<1>4. sub[s].run \in Run
  BY DEF Detach, Shape, SubsBound
<1>5. run[sub[s].run].waiters \ {s} \in SUBSET Sub
  BY <1>4 DEF Shape, TypeOK, RunRecord
<1>. QED
  BY <1>3, <1>4, <1>5 DEF Detach, p

-----------------------------------------------------------------------------
LEMMA ShapeInvariant == Spec => []Shape
<1>1. Init => Shape
  <2>. SUFFICES ASSUME Init PROVE Shape
    OBVIOUS
  <2>1. TypeOK
    BY DEF Init, TypeOK, Unused, Unbound, RunRecord, SubRecord, Outcome, Place
  <2>2. SubsBound /\ Linked /\ Fresh /\ Mapped
    BY DEF Init, SubsBound, Linked, Fresh, Mapped, Unused, Unbound
  <2>. QED
    BY <2>1, <2>2 DEF Shape
<1>2. ASSUME Shape, [Next]_vars
      PROVE  Shape'
  <2>. USE <1>2
  <2>1. ASSUME NEW r \in Run, NEW k \in Key, NEW n \in BOOLEAN,
               Start(k, r, n) \/ StartThrows(k, r, n)
        PROVE  Shape'
    <3>1. /\ run[r] = Unused
          /\ current' = [current EXCEPT ![k] = r]
          /\ run' \in [Run -> RunRecord]
          /\ run'[r].key = k /\ run'[r].waiters = {}
          /\ \A q \in Run \ {r} : run'[q] = run[q]
          /\ UNCHANGED sub
      BY <2>1, StartEffect
    <3>2. run[r].key = NoKey /\ run[r].waiters = {}
      BY <3>1 DEF Unused
    <3>3. TypeOK'
      BY <3>1 DEF Shape, TypeOK
    <3>4. SubsBound' /\ Linked' /\ Fresh' /\ Mapped'
      BY <3>1, <3>2, NullAssumption DEF Shape, TypeOK, SubsBound, Linked, Fresh, Mapped
    <3>. QED
      BY <3>3, <3>4 DEF Shape
  <2>2. ASSUME NEW r \in Run, NEW kind \in Kind, Emit(r, kind)
        PROVE  Shape'
    <3>1. /\ run' \in [Run -> RunRecord]
          /\ run[r].running
          /\ run'[r].key = run[r].key /\ run'[r].waiters = {}
          /\ \A q \in Run \ {r} : run'[q] = run[q]
          /\ UNCHANGED current
      BY <2>2, EmitEffect
    <3>2. sub' = Woken(r)
      BY <2>2 DEF Emit
    <3>. QED
      BY <3>1, <3>2, WokenEffect DEF Shape, TypeOK, SubsBound, Linked, Fresh, Mapped, Unused
  <2>3. ASSUME NEW r \in Run, NEW threw \in BOOLEAN, End(r, threw)
        PROVE  Shape'
    <3>1. /\ run' \in [Run -> RunRecord]
          /\ run[r].running
          /\ run'[r].key = run[r].key /\ run'[r].waiters = {}
          /\ \A q \in Run \ {r} : run'[q] = run[q]
          /\ UNCHANGED current
      BY <2>3, EndEffect
    <3>2. sub' = Woken(r)
      BY <2>3 DEF End
    <3>. QED
      BY <3>1, <3>2, WokenEffect DEF Shape, TypeOK, SubsBound, Linked, Fresh, Mapped, Unused
  <2>4. ASSUME NEW k \in Key, Stop(k)
        PROVE  Shape'
    <3>1. /\ run' \in [Run -> RunRecord]
          /\ run[current[k]].running
          /\ \A q \in Run : /\ run'[q].key = run[q].key
                            /\ run'[q].waiters = run[q].waiters
                            /\ q # current[k] => run'[q] = run[q]
          /\ UNCHANGED <<current, sub>>
      BY <2>4, StopEffect
    <3>2. ~Unused.running
      BY DEF Unused
    <3>3. TypeOK' /\ SubsBound' /\ Linked'
      BY <3>1 DEF Shape, TypeOK, SubsBound, Linked
    <3>4. Fresh' /\ Mapped'
      BY <3>1, <3>2, NullAssumption DEF Shape, TypeOK, Fresh, Mapped
    <3>. QED
      BY <3>3, <3>4 DEF Shape
  <2>5. ASSUME NEW s \in Sub, NEW k \in Key, NEW after \in 0..MaxEvents, NEW gone \in BOOLEAN,
               Subscribe(s, k, after, gone)
        PROVE  Shape'
    <3>1. current[k] # NoRun
      BY <2>5 DEF Subscribe
    <3>. QED
      BY <2>5, <3>1, SubscribeEffect, NullAssumption
      DEF Shape, TypeOK, SubsBound, Linked, Fresh, Mapped
  <2>6. ASSUME NEW s \in Sub, SubOnly(s), UNCHANGED <<current, run>>,
               sub[s].at \notin {"none", "waiting"}, sub'[s].at # "waiting"
        PROVE  Shape'
    BY <2>6 DEF SubOnly, Shape, TypeOK, SubsBound, Linked, Fresh, Mapped
  <2>7. ASSUME NEW s \in Sub,
               Pull(s) \/ Deliver(s) \/ Finish(s) \/ Leave(s) \/ Return(s)
        PROVE  Shape'
    <3>1. CASE Pull(s)
      BY <2>6, <3>1, PullEffect
    <3>2. CASE Deliver(s)
      BY <2>6, <3>2, DeliverEffect
    <3>3. CASE Finish(s)
      BY <2>6, <3>3, FinishEffect
    <3>4. CASE Leave(s)
      BY <2>6, <3>4, LeaveEffect
    <3>5. CASE Return(s)
      BY <2>6, <3>5, ReturnEffect
    <3>. QED
      BY <2>7, <3>1, <3>2, <3>3, <3>4, <3>5
  <2>8. ASSUME NEW s \in Sub, Park(s)
        PROVE  Shape'
    <3>. DEFINE w == run[sub[s].run].waiters \cup {s}
    <3>1. /\ SubOnly(s) /\ sub[s].at = "reading" /\ sub'[s].at = "waiting"
          /\ sub[s].run \in Run /\ UNCHANGED current
      BY <2>8, ParkEffect
    <3>2. /\ run' \in [Run -> RunRecord]
          /\ \A q \in Run : /\ run'[q].key = run[q].key
                            /\ q # sub[s].run => run'[q] = run[q]
          /\ run'[sub[s].run].waiters = w
      <4>1. run' = [run EXCEPT ![sub[s].run].waiters = w] /\ w \in SUBSET Sub
        BY <2>8, ParkEffect
      <4>. HIDE DEF w
      <4>. QED
        BY <3>1, <4>1, WaitersEffect
    <3>3. run[sub[s].run].key # NoKey
      BY <3>1 DEF Shape, SubsBound
    <3>4. TypeOK'
      BY <3>1, <3>2 DEF SubOnly, Shape, TypeOK
    <3>5. SubsBound'
      BY <3>1, <3>2, <3>3 DEF SubOnly, Shape, SubsBound
    <3>6. Linked'
      BY <3>1, <3>2 DEF SubOnly, Shape, Linked
    <3>7. Fresh' /\ Mapped'
      BY <3>1, <3>2, <3>3, NullAssumption DEF Shape, TypeOK, Fresh, Mapped
    <3>. QED
      BY <3>4, <3>5, <3>6, <3>7 DEF Shape
  <2>9. ASSUME NEW s \in Sub, Detach(s)
        PROVE  Shape'
    <3>. DEFINE w == run[sub[s].run].waiters \ {s}
    <3>1. /\ SubOnly(s) /\ sub[s].at # "none" /\ sub'[s].at \notin {"none", "waiting"}
          /\ sub[s].run \in Run /\ UNCHANGED current
      BY <2>9, DetachEffect
    <3>2. /\ run' \in [Run -> RunRecord]
          /\ \A q \in Run : /\ run'[q].key = run[q].key
                            /\ q # sub[s].run => run'[q] = run[q]
          /\ run'[sub[s].run].waiters = w
      <4>1. run' = [run EXCEPT ![sub[s].run].waiters = w] /\ w \in SUBSET Sub
        BY <2>9, DetachEffect
      <4>. HIDE DEF w
      <4>. QED
        BY <3>1, <4>1, WaitersEffect
    <3>3. run[sub[s].run].key # NoKey
      BY <3>1 DEF Shape, SubsBound
    <3>4. TypeOK'
      BY <3>1, <3>2 DEF SubOnly, Shape, TypeOK
    <3>5. SubsBound'
      BY <3>1, <3>2, <3>3 DEF SubOnly, Shape, SubsBound
    <3>6. Linked'
      BY <3>1, <3>2 DEF SubOnly, Shape, Linked
    <3>7. Fresh' /\ Mapped'
      BY <3>1, <3>2, <3>3, NullAssumption DEF Shape, TypeOK, Fresh, Mapped
    <3>. QED
      BY <3>4, <3>5, <3>6, <3>7 DEF Shape
  <2>10. CASE UNCHANGED vars
    BY <2>10 DEF vars, Shape, TypeOK, SubsBound, Linked, Fresh, Mapped
  <2>. QED
    BY <2>1, <2>2, <2>3, <2>4, <2>5, <2>7, <2>8, <2>9, <2>10
    DEF Next, RunStep, SubStep, Read
<1>. QED
  BY <1>1, <1>2, PTL DEF Spec

\* Every state of the registry and of its subscriptions is well formed.
THEOREM TypeCorrect == Spec => []TypeOK
<1>1. Shape => TypeOK
  BY DEF Shape
<1>. QED
  BY <1>1, ShapeInvariant, PTL

-----------------------------------------------------------------------------
(***************************************************************************)
(* Safety: the effect lemmas and the shape invariant put to use.           *)
(***************************************************************************)

\* No step of a subscription touches a run, its list of waiters apart.
LEMMA ReadersOnlyRead ==
  ASSUME Shape, NEW s \in Sub, SubStep(s)
  PROVE  /\ UNCHANGED current
         /\ \A q \in Run : /\ run'[q].key = run[q].key
                           /\ run'[q].running = run[q].running
                           /\ run'[q].aborted = run[q].aborted
                           /\ run'[q].failed = run[q].failed
                           /\ run'[q].log = run[q].log
<1>1. CASE Park(s)
  <2>. DEFINE w == run[sub[s].run].waiters \cup {s}
  <2>1. /\ run' = [run EXCEPT ![sub[s].run].waiters = w] /\ w \in SUBSET Sub
        /\ sub[s].run \in Run /\ UNCHANGED current
    BY <1>1, ParkEffect
  <2>. HIDE DEF w
  <2>. QED
    BY <2>1, WaitersEffect
<1>2. CASE Detach(s)
  <2>. DEFINE w == run[sub[s].run].waiters \ {s}
  <2>1. /\ run' = [run EXCEPT ![sub[s].run].waiters = w] /\ w \in SUBSET Sub
        /\ sub[s].run \in Run /\ UNCHANGED current
    BY <1>2, DetachEffect
  <2>. HIDE DEF w
  <2>. QED
    BY <2>1, WaitersEffect
<1>3. CASE UNCHANGED <<current, run>>
  BY <1>3
<1>. QED
  BY ZenonT(60), <1>1, <1>2, <1>3
  DEF SubStep, Read, Subscribe, Pull, Deliver, Finish, Leave, Return

LEMMA OneTurnStep ==
  ASSUME Shape, OneTurnPerKey, [Next]_vars
  PROVE  OneTurnPerKey'
<1>1. ASSUME NEW r \in Run, NEW k \in Key, NEW n \in BOOLEAN,
             Start(k, r, n) \/ StartThrows(k, r, n)
      PROVE  OneTurnPerKey'
  <2>1. /\ current' = [current EXCEPT ![k] = r]
        /\ run'[r].key = k
        /\ \A q \in Run \ {r} : run'[q] = run[q]
    BY <1>1, StartEffect
  <2>2. ~Busy(k)
    BY <1>1 DEF Start, StartThrows
  <2>3. \A q \in Run \ {r} : run[q].running => run[q].key # k
    BY <2>2, NullAssumption DEF OneTurnPerKey, Busy
  <2>. QED
    BY <2>1, <2>3 DEF OneTurnPerKey, Shape, TypeOK
<1>2. ASSUME UNCHANGED current,
             \A q \in Run : run'[q].key = run[q].key /\ (run'[q].running => run[q].running)
      PROVE  OneTurnPerKey'
  BY <1>2 DEF OneTurnPerKey
<1>3. ASSUME NEW r \in Run, NEW kind \in Kind, Emit(r, kind)
      PROVE  OneTurnPerKey'
  <2>1. /\ UNCHANGED current
        /\ run'[r].key = run[r].key /\ run'[r].running = run[r].running
        /\ \A q \in Run \ {r} : run'[q] = run[q]
    BY <1>3, EmitEffect
  <2>. QED
    BY <1>2, <2>1
<1>4. ASSUME NEW r \in Run, NEW threw \in BOOLEAN, End(r, threw)
      PROVE  OneTurnPerKey'
  <2>1. /\ UNCHANGED current
        /\ run'[r].key = run[r].key /\ ~run'[r].running
        /\ \A q \in Run \ {r} : run'[q] = run[q]
    BY <1>4, EndEffect
  <2>. QED
    BY <1>2, <2>1
<1>5. ASSUME NEW k \in Key, Stop(k)
      PROVE  OneTurnPerKey'
  BY <1>2, <1>5, StopEffect
<1>6. ASSUME NEW s \in Sub, SubStep(s)
      PROVE  OneTurnPerKey'
  BY <1>2, <1>6, ReadersOnlyRead
<1>7. CASE UNCHANGED vars
  BY <1>7 DEF vars, OneTurnPerKey
<1>. QED
  BY <1>1, <1>3, <1>4, <1>5, <1>6, <1>7 DEF Next, RunStep

\* At most one turn runs for a key, and it is the one that stop() and
\* subscribe() reach through the map.
THEOREM OneTurn == Spec => []OneTurnPerKey
<1>1. Init => OneTurnPerKey
  BY DEF Init, OneTurnPerKey, Unused
<1>. QED
  BY <1>1, OneTurnStep, ShapeInvariant, PTL DEF Spec

-----------------------------------------------------------------------------
(***************************************************************************)
(* The other invariants look at one subscription and its run.  A step that *)
(* is not the subscription's own leaves it bound, or unbound, as it was,   *)
(* and does one of four things to its run.                                 *)
(***************************************************************************)
Ran(o, p) ==
  /\ p.running = o.running /\ p.failed = o.failed /\ p.log = o.log

LEMMA LookedAt ==
  ASSUME Shape, [Next]_vars, NEW s \in Sub, sub[s].at # "none",
         sub'[s].run = sub[s].run
  PROVE  LET r == sub[s].run
         IN  \/ Ran(run[r], run'[r])
             \/ \E kind \in Kind : Emit(r, kind)
             \/ \E threw \in BOOLEAN : End(r, threw)
<1>. DEFINE r == sub[s].run
<1>1. r \in Run /\ run[r].key # NoKey
  BY DEF Shape, SubsBound
<1>2. ASSUME NEW q \in Run, NEW k \in Key, NEW n \in BOOLEAN,
             Start(k, q, n) \/ StartThrows(k, q, n)
      PROVE  run'[r] = run[r]
  <2>1. run[q].key = NoKey /\ \A p \in Run \ {q} : run'[p] = run[p]
    BY <1>2, StartEffect DEF Unused
  <2>2. r # q
    BY <1>1, <2>1
  <2>. QED
    BY <1>1, <2>1, <2>2
<1>3. ASSUME NEW q \in Run, NEW kind \in Kind, Emit(q, kind)
      PROVE  q = r \/ run'[r] = run[r]
  BY <1>1, <1>3, EmitEffect
<1>4. ASSUME NEW q \in Run, NEW threw \in BOOLEAN, End(q, threw)
      PROVE  q = r \/ run'[r] = run[r]
  BY <1>1, <1>4, EndEffect
<1>5. ASSUME NEW k \in Key, Stop(k)
      PROVE  Ran(run[r], run'[r])
  BY <1>1, <1>5, StopEffect DEF Ran
<1>6. ASSUME NEW t \in Sub, SubStep(t)
      PROVE  Ran(run[r], run'[r])
  BY <1>1, <1>6, ReadersOnlyRead DEF Ran
<1>7. CASE UNCHANGED vars
  BY <1>7 DEF vars, Ran
<1>. QED
  BY <1>2, <1>3, <1>4, <1>5, <1>6, <1>7 DEF Next, RunStep, Ran

\* A step of one subscription changes no other.
LEMMA OneReaderMoves ==
  ASSUME Shape, NEW t \in Sub, SubStep(t), NEW s \in Sub, s # t
  PROVE  sub'[s] = sub[s]
<1>1. CASE \E k \in Key, after \in 0..MaxEvents, gone \in BOOLEAN : Subscribe(t, k, after, gone)
  BY <1>1, SubscribeEffect
<1>2. CASE Pull(t)
  BY <1>2, PullEffect DEF SubOnly
<1>3. CASE Deliver(t)
  BY <1>3, DeliverEffect DEF SubOnly
<1>4. CASE Finish(t)
  BY <1>4, FinishEffect DEF SubOnly
<1>5. CASE Park(t)
  BY <1>5, ParkEffect DEF SubOnly
<1>6. CASE Leave(t)
  BY <1>6, LeaveEffect DEF SubOnly
<1>7. CASE Detach(t)
  BY <1>7, DetachEffect DEF SubOnly
<1>8. CASE Return(t)
  BY <1>8, ReturnEffect DEF SubOnly
<1>. QED
  BY <1>1, <1>2, <1>3, <1>4, <1>5, <1>6, <1>7, <1>8 DEF SubStep, Read

\* Whatever is not its own step leaves a subscription as it is, or wakes it.
LEMMA Undisturbed ==
  ASSUME Shape, [Next]_vars, NEW s \in Sub, ~SubStep(s)
  PROVE  /\ sub'[s].run = sub[s].run
         /\ sub'[s].after = sub[s].after
         /\ sub'[s].cursor = sub[s].cursor
         /\ sub'[s].got = sub[s].got
         /\ sub'[s].detached = sub[s].detached
         /\ \/ sub'[s].at = sub[s].at
            \/ sub[s].at = "waiting" /\ sub'[s].at = "reading"
<1>1. ASSUME NEW r \in Run, sub' = Woken(r)
      PROVE  /\ sub'[s].run = sub[s].run
             /\ sub'[s].after = sub[s].after
             /\ sub'[s].cursor = sub[s].cursor
             /\ sub'[s].got = sub[s].got
             /\ sub'[s].detached = sub[s].detached
             /\ \/ sub'[s].at = sub[s].at
                \/ sub[s].at = "waiting" /\ sub'[s].at = "reading"
  BY <1>1, WokenEffect
<1>2. CASE sub' = sub
  BY <1>2
<1>3. ASSUME NEW r \in Run, RunStep(r)
      PROVE  sub' = sub \/ sub' = Woken(r)
  BY ZenonT(60), <1>3 DEF RunStep, Start, StartThrows, Emit, End
<1>4. ASSUME NEW k \in Key, Stop(k)
      PROVE  sub' = sub
  BY <1>4 DEF Stop
<1>5. ASSUME NEW t \in Sub, SubStep(t)
      PROVE  sub'[s] = sub[s]
  BY <1>5, OneReaderMoves
<1>. QED
  BY <1>1, <1>2, <1>3, <1>4, <1>5 DEF Next, vars

-----------------------------------------------------------------------------
LEMMA NoLostWakeupStep ==
  ASSUME Shape, Shape', NoLostWakeup, [Next]_vars
  PROVE  NoLostWakeup'
<1>. SUFFICES ASSUME NEW s \in Sub, sub'[s].at = "waiting"
              PROVE  LET o == run'[sub'[s].run]
                     IN  /\ s \in o.waiters /\ o.running /\ ~sub'[s].detached
                         /\ sub'[s].cursor >= Len(o.log)
  BY DEF NoLostWakeup
<1>0. sub'[s].run \in Run /\ s \in run'[sub'[s].run].waiters
  BY DEF Shape, SubsBound, Linked
<1>1. CASE SubStep(s)
  <2>1. Park(s)
    BY <1>1, SubscribeEffect, PullEffect, DeliverEffect, FinishEffect, LeaveEffect,
       DetachEffect, ReturnEffect DEF SubStep, Read
  <2>2. /\ sub'[s].run = sub[s].run /\ sub'[s].cursor = sub[s].cursor
        /\ ~sub'[s].detached
        /\ run[sub[s].run].running /\ sub[s].cursor >= Len(run[sub[s].run].log)
    BY <2>1, ParkEffect DEF SubOnly, Kept
  <2>. QED
    BY <1>0, <1>1, <2>2, ReadersOnlyRead
<1>2. CASE ~SubStep(s)
  <2>. DEFINE r == sub[s].run
  <2>1. /\ sub[s].at = "waiting" /\ sub'[s].run = sub[s].run
        /\ sub'[s].cursor = sub[s].cursor /\ sub'[s].detached = sub[s].detached
    BY <1>2, Undisturbed
  <2>2. r \in Run /\ run'[r].waiters # {}
    BY <1>0, <2>1
  <2>3. Ran(run[r], run'[r])
    <3>1. ~ \E kind \in Kind : Emit(r, kind)
      BY <2>2, EmitEffect
    <3>2. ~ \E threw \in BOOLEAN : End(r, threw)
      BY <2>2, EndEffect
    <3>. QED
      BY <2>1, <3>1, <3>2, LookedAt
  <2>4. /\ run[r].running /\ ~sub[s].detached /\ sub[s].cursor >= Len(run[r].log)
    BY <2>1 DEF NoLostWakeup
  <2>. QED
    BY <1>0, <2>1, <2>3, <2>4 DEF Ran
<1>. QED
  BY <1>1, <1>2

\* No interleaving of producers, readers and disconnections leaves a reader
\* parked on something that has already happened.
THEOREM NoWakeupLost == Spec => []NoLostWakeup
<1>1. Init => NoLostWakeup
  BY DEF Init, NoLostWakeup, Unbound
<1>. QED
  BY <1>1, NoLostWakeupStep, ShapeInvariant, PTL DEF Spec

-----------------------------------------------------------------------------
LEMMA EndAfterWholeLogStep ==
  ASSUME Shape, Shape', EndAfterWholeLog, [Next]_vars
  PROVE  EndAfterWholeLog'
<1>. SUFFICES ASSUME NEW s \in Sub, sub'[s].at \in {"done", "failed"}, ~sub'[s].detached
              PROVE  LET o == run'[sub'[s].run]
                     IN  /\ ~o.running /\ sub'[s].cursor >= Len(o.log)
                         /\ o.failed <=> sub'[s].at = "failed"
  BY DEF EndAfterWholeLog
<1>0. sub'[s].run \in Run
  BY DEF Shape, SubsBound
<1>1. CASE SubStep(s)
  <2>1. Finish(s)
    BY ZenonT(60), <1>1, SubscribeEffect, PullEffect, DeliverEffect, ParkEffect, LeaveEffect,
       DetachEffect, ReturnEffect DEF SubStep, Read
  <2>2. /\ sub'[s].run = sub[s].run /\ sub'[s].cursor = sub[s].cursor
        /\ sub'[s].at = (IF run[sub[s].run].failed THEN "failed" ELSE "done")
        /\ ~run[sub[s].run].running /\ sub[s].cursor >= Len(run[sub[s].run].log)
        /\ UNCHANGED run
    BY <2>1, FinishEffect DEF SubOnly, Kept
  <2>. QED
    BY <2>2
<1>2. CASE ~SubStep(s)
  <2>. DEFINE r == sub[s].run
  <2>1. /\ sub[s].at = sub'[s].at /\ sub'[s].run = sub[s].run
        /\ sub'[s].cursor = sub[s].cursor /\ ~sub[s].detached
    BY <1>2, Undisturbed
  <2>2. /\ ~run[r].running /\ sub[s].cursor >= Len(run[r].log)
        /\ run[r].failed <=> sub[s].at = "failed"
    BY <2>1 DEF EndAfterWholeLog
  <2>3. Ran(run[r], run'[r])
    BY ZenonT(60), <2>1, <2>2, LookedAt DEF Emit, End
  <2>. QED
    BY <2>1, <2>2, <2>3 DEF Ran
<1>. QED
  BY <1>1, <1>2

\* A reader that stays hears the end, and whether it was a failure, only
\* after the last event.
THEOREM EndComesLast == Spec => []EndAfterWholeLog
<1>1. Init => EndAfterWholeLog
  BY DEF Init, EndAfterWholeLog, Unbound
<1>. QED
  BY <1>1, EndAfterWholeLogStep, ShapeInvariant, PTL DEF Spec

-----------------------------------------------------------------------------
(***************************************************************************)
(* Exact replay rests on the numbering of the log, event i bears number i, *)
(* and on a subscription that does not exist being bound to nothing.       *)
(***************************************************************************)
Numbered == \A r \in Run : \A i \in 1..Len(run[r].log) : run[r].log[i].seq = i

Unstarted == \A s \in Sub : sub[s].at = "none" => sub[s].run = NoRun

\* What one step may do to the log of one run.
Grown(old, new) ==
  \/ new = old
  \/ \E kind \in Kind : new = Append(old, [seq |-> Len(old) + 1, kind |-> kind])

LEMMA LogStep ==
  ASSUME Shape, [Next]_vars, NEW r \in Run
  PROVE  Grown(run[r].log, run'[r].log)
<1>1. ASSUME NEW q \in Run, NEW k \in Key, NEW n \in BOOLEAN,
             Start(k, q, n) \/ StartThrows(k, q, n)
      PROVE  run'[r].log = run[r].log
  BY <1>1, StartEffect DEF Unused
<1>2. ASSUME NEW q \in Run, NEW kind \in Kind, Emit(q, kind)
      PROVE  Grown(run[r].log, run'[r].log)
  <2>1. /\ run'[q].log = Append(run[q].log, [seq |-> Len(run[q].log) + 1, kind |-> kind])
        /\ \A p \in Run \ {q} : run'[p] = run[p]
    BY <1>2, EmitEffect
  <2>. QED
    BY <2>1 DEF Grown
<1>3. ASSUME NEW q \in Run, NEW threw \in BOOLEAN, End(q, threw)
      PROVE  run'[r].log = run[r].log
  BY <1>3, EndEffect
<1>4. ASSUME NEW k \in Key, Stop(k)
      PROVE  run'[r].log = run[r].log
  BY <1>4, StopEffect
<1>5. ASSUME NEW t \in Sub, SubStep(t)
      PROVE  run'[r].log = run[r].log
  BY <1>5, ReadersOnlyRead
<1>6. CASE UNCHANGED vars
  BY <1>6 DEF vars, Grown
<1>. QED
  BY <1>1, <1>2, <1>3, <1>4, <1>5, <1>6 DEF Next, RunStep, Grown

LEMMA GrownFacts ==
  ASSUME NEW old \in Seq(Event), NEW new, Grown(old, new)
  PROVE  /\ Len(new) >= Len(old)
         /\ \A i \in 1..Len(old) : new[i] = old[i]
         /\ \A i \in (1..Len(new)) \ (1..Len(old)) : new[i].seq = i
<1>1. CASE new = old
  BY <1>1
<1>2. ASSUME NEW kind \in Kind, new = Append(old, [seq |-> Len(old) + 1, kind |-> kind])
      PROVE  /\ Len(new) >= Len(old)
             /\ \A i \in 1..Len(old) : new[i] = old[i]
             /\ \A i \in (1..Len(new)) \ (1..Len(old)) : new[i].seq = i
  <2>. DEFINE e == [seq |-> Len(old) + 1, kind |-> kind]
  <2>1. e \in Event
    BY KindAssumption DEF Event
  <2>2. e.seq = Len(old) + 1 /\ new = Append(old, e)
    BY <1>2
  <2>. HIDE DEF e
  <2>3. /\ Len(new) = Len(old) + 1 /\ new[Len(old) + 1] = e
        /\ \A i \in 1..Len(old) : new[i] = old[i]
    BY <2>1, <2>2
  <2>. QED
    BY <2>2, <2>3
<1>3. CASE \E kind \in Kind : new = Append(old, [seq |-> Len(old) + 1, kind |-> kind])
  BY <1>2, <1>3
<1>. QED
  BY <1>1, <1>3 DEF Grown

LEMMA NumberedStep ==
  ASSUME Shape, Numbered, [Next]_vars
  PROVE  Numbered'
<1>. SUFFICES ASSUME NEW r \in Run, NEW i \in 1..Len(run'[r].log)
              PROVE  run'[r].log[i].seq = i
  BY DEF Numbered
<1>1. run[r].log \in Seq(Event)
  BY DEF Shape, TypeOK, RunRecord
<1>2. \A j \in 1..Len(run[r].log) : run'[r].log[j] = run[r].log[j]
  BY <1>1, LogStep, GrownFacts
<1>3. i \notin 1..Len(run[r].log) => run'[r].log[i].seq = i
  BY <1>1, LogStep, GrownFacts
<1>. QED
  BY <1>2, <1>3 DEF Numbered

LEMMA UnstartedStep ==
  ASSUME Shape, Unstarted, [Next]_vars
  PROVE  Unstarted'
<1>. SUFFICES ASSUME NEW s \in Sub, sub'[s].at = "none"
              PROVE  sub'[s].run = NoRun
  BY DEF Unstarted
<1>1. ~SubStep(s)
  BY ZenonT(60), SubscribeEffect, PullEffect, DeliverEffect, FinishEffect, ParkEffect, LeaveEffect,
     DetachEffect, ReturnEffect DEF SubStep, Read
<1>. QED
  BY <1>1, Undisturbed DEF Unstarted

\* What a subscription has got is the stretch of the log after "after".
Stretch(got, after, cursor, log) ==
  /\ Len(got) = cursor - after
  /\ cursor >= after
  /\ \A i \in 1..Len(got) : /\ got[i].seq = after + i
                            /\ after + i <= Len(log)
                            /\ got[i] = log[after + i]

LEMMA StretchGrows ==
  ASSUME NEW old \in Seq(Event), NEW new, Grown(old, new),
         NEW got \in Seq(Event), NEW after \in Nat, NEW cursor \in Nat,
         Stretch(got, after, cursor, old)
  PROVE  Stretch(got, after, cursor, new)
<1>1. Len(new) >= Len(old) /\ \A i \in 1..Len(old) : new[i] = old[i]
  BY GrownFacts
<1>2. ASSUME NEW i \in 1..Len(got)
      PROVE  after + i <= Len(new) /\ got[i].seq = after + i /\ got[i] = new[after + i]
  <2>1. after + i <= Len(old) /\ got[i].seq = after + i /\ got[i] = old[after + i]
    BY DEF Stretch
  <2>2. after + i \in 1..Len(old) /\ Len(new) \in Nat
    BY <2>1 DEF Grown
  <2>. QED
    BY <1>1, <2>1, <2>2
<1>. QED
  BY <1>2 DEF Stretch

LEMMA StretchExtends ==
  ASSUME NEW log \in Seq(Event), NEW got \in Seq(Event), NEW after \in Nat,
         NEW cursor \in Nat, Stretch(got, after, cursor, log),
         cursor < Len(log), log[cursor + 1].seq = cursor + 1
  PROVE  Stretch(Append(got, log[cursor + 1]), after, cursor + 1, log)
<1>. DEFINE more == Append(got, log[cursor + 1])
<1>1. cursor + 1 \in 1..Len(log)
  OBVIOUS
<1>2. log[cursor + 1] \in Event
  BY <1>1
<1>3. /\ Len(more) = Len(got) + 1
      /\ \A i \in 1..Len(got) : more[i] = got[i]
      /\ more[Len(got) + 1] = log[cursor + 1]
  <2>. DEFINE e == log[cursor + 1]
  <2>1. e \in Event
    BY <1>2
  <2>. HIDE DEF e
  <2>2. /\ Len(Append(got, e)) = Len(got) + 1
        /\ \A i \in 1..Len(got) : Append(got, e)[i] = got[i]
        /\ Append(got, e)[Len(got) + 1] = e
    BY <2>1
  <2>. QED
    BY <2>2 DEF e
<1>4. Len(got) = cursor - after /\ cursor >= after
  BY DEF Stretch
<1>5. ASSUME NEW i \in 1..Len(more)
      PROVE  more[i].seq = after + i /\ after + i <= Len(log) /\ more[i] = log[after + i]
  <2>1. CASE i \in 1..Len(got)
    BY <1>3, <2>1 DEF Stretch
  <2>2. CASE i = Len(got) + 1
    <3>1. after + i = cursor + 1
      BY <1>4, <2>2
    <3>. QED
      BY <1>3, <2>2, <3>1
  <2>. QED
    BY <1>3, <2>1, <2>2
<1>. HIDE DEF more
<1>6. Len(more) = (cursor + 1) - after /\ cursor + 1 >= after
  BY <1>3, <1>4
<1>. QED
  BY <1>5, <1>6 DEF Stretch, more

LEMMA ExactReplayStep ==
  ASSUME Shape, Shape', Numbered, Unstarted, ExactReplay, [Next]_vars
  PROVE  ExactReplay'
<1>0. ExactReplay <=> \A s \in Sub : Bound(s) =>
         Stretch(sub[s].got, sub[s].after, sub[s].cursor, run[sub[s].run].log)
  BY DEF ExactReplay, Stretch
<1>. SUFFICES ASSUME NEW s \in Sub, sub'[s].run # NoRun
              PROVE  Stretch(sub'[s].got, sub'[s].after, sub'[s].cursor, run'[sub'[s].run].log)
  BY DEF ExactReplay, Stretch, Bound
<1>1. ASSUME NEW k \in Key, NEW after \in 0..MaxEvents, NEW gone \in BOOLEAN,
             Subscribe(s, k, after, gone)
      PROVE  Stretch(sub'[s].got, sub'[s].after, sub'[s].cursor, run'[sub'[s].run].log)
  <2>1. sub'[s].got = <<>> /\ sub'[s].after = after /\ sub'[s].cursor = after
    BY <1>1, SubscribeEffect
  <2>2. after \in Nat
    BY BoundAssumption
  <2>. QED
    BY <2>1, <2>2 DEF Stretch
<1>. DEFINE r == sub[s].run
            log == run[r].log
<1>2. ASSUME sub[s].at # "none"
      PROVE  /\ r \in Run /\ log \in Seq(Event) /\ Grown(log, run'[r].log)
             /\ sub[s].got \in Seq(Event) /\ sub[s].after \in Nat /\ sub[s].cursor \in Nat
             /\ Stretch(sub[s].got, sub[s].after, sub[s].cursor, log)
  <2>1. r \in Run
    BY <1>2 DEF Shape, SubsBound
  <2>2. Bound(s)
    BY <2>1, NullAssumption DEF Bound
  <2>3. /\ log \in Seq(Event)
        /\ sub[s].got \in Seq(Event) /\ sub[s].after \in Nat /\ sub[s].cursor \in Nat
    BY <2>1 DEF Shape, TypeOK, RunRecord, SubRecord
  <2>. QED
    BY <1>0, <2>1, <2>2, <2>3, LogStep
<1>3. CASE Deliver(s)
  <2>. DEFINE e == log[sub[s].cursor + 1]
  <2>1. /\ sub[s].at # "none" /\ sub'[s].run = r /\ sub'[s].after = sub[s].after
        /\ sub[s].cursor < Len(log)
        /\ sub'[s].cursor = e.seq /\ sub'[s].got = Append(sub[s].got, e)
        /\ run' = run
    BY <1>3, DeliverEffect DEF SubOnly
  <2>2. e.seq = sub[s].cursor + 1
    BY <1>2, <2>1 DEF Numbered
  <2>3. Stretch(Append(sub[s].got, e), sub[s].after, sub[s].cursor + 1, log)
    BY <1>2, <2>1, <2>2, StretchExtends
  <2>. QED
    BY <2>1, <2>2, <2>3
<1>4. ASSUME sub[s].at # "none", sub'[s].run = r, sub'[s].after = sub[s].after,
             sub'[s].cursor = sub[s].cursor, sub'[s].got = sub[s].got
      PROVE  Stretch(sub'[s].got, sub'[s].after, sub'[s].cursor, run'[sub'[s].run].log)
  BY <1>2, <1>4, StretchGrows
<1>5. CASE Pull(s) \/ Finish(s) \/ Park(s) \/ Leave(s) \/ Detach(s) \/ Return(s)
  <2>1. sub[s].at # "none" /\ SubOnly(s) /\ Kept(s)
    BY <1>5, PullEffect, FinishEffect, ParkEffect, LeaveEffect, DetachEffect, ReturnEffect
  <2>. QED
    BY <1>4, <2>1 DEF SubOnly, Kept
<1>6. CASE ~SubStep(s)
  <2>1. sub[s].at # "none"
    BY <1>6, Undisturbed DEF Unstarted
  <2>. QED
    BY <1>4, <1>6, <2>1, Undisturbed
<1>. QED
  BY <1>1, <1>3, <1>5, <1>6 DEF SubStep, Read

\* A reader has received exactly the events after its starting point, each
\* once and in order, whatever happened meanwhile.
THEOREM ReplayIsExact == Spec => []ExactReplay
<1>1. Init => Numbered /\ Unstarted /\ ExactReplay
  BY DEF Init, Numbered, Unstarted, ExactReplay, Unused, Unbound, Bound
<1>. QED
  BY <1>1, NumberedStep, UnstartedStep, ExactReplayStep, ShapeInvariant, PTL DEF Spec

-----------------------------------------------------------------------------
(***************************************************************************)
(* Refinement: every step of the registry is, for each key, a step of      *)
(* RunSlot or a stutter.                                                   *)
(***************************************************************************)
LEMMA SlotStutters ==
  ASSUME Shape, Shape', NEW k \in Key, current'[k] = current[k],
         \A q \in Run : /\ run'[q].key = k <=> run[q].key = k
                        /\ run[q].key = k =>
                             /\ run'[q].running = run[q].running
                             /\ run'[q].aborted = run[q].aborted
  PROVE  UNCHANGED Slot(k)!slotVars
<1>1. current[k] # NoRun => current[k] \in Run /\ run[current[k]].key = k
  BY DEF Shape, TypeOK, Mapped
<1>2. Busy(k)' <=> Busy(k)
  BY <1>1 DEF Busy
<1>3. Holder(k)' = Holder(k) /\ Signalled(k)' = Signalled(k)
  <2>1. CASE Busy(k)
    <3>1. /\ current[k] \in Run /\ run'[current[k]].running
          /\ run'[current[k]].aborted = run[current[k]].aborted
      BY <1>1, <2>1 DEF Busy
    <3>. QED
      BY <2>1, <3>1 DEF Holder, Signalled, Busy
  <2>2. CASE ~Busy(k)
    BY <1>2, <2>2 DEF Holder, Signalled
  <2>. QED
    BY <2>1, <2>2
<1>4. Ended(k)' = Ended(k)
  BY DEF Ended
<1>. QED
  BY <1>3, <1>4 DEF Slot!slotVars

LEMMA SlotStep ==
  ASSUME Shape, Shape', OneTurnPerKey, [Next]_vars, NEW k \in Key
  PROVE  [Slot(k)!SlotNext]_(Slot(k)!slotVars)
<1>1. ASSUME NEW r \in Run, NEW j \in Key, NEW n \in BOOLEAN,
             Start(j, r, n) \/ StartThrows(j, r, n)
      PROVE  [Slot(k)!SlotNext]_(Slot(k)!slotVars)
  <2>1. /\ run[r].key = NoKey /\ ~run[r].running
        /\ current' = [current EXCEPT ![j] = r]
        /\ run'[r].key = j
        /\ run'[r].running => ~run'[r].aborted
        /\ \A q \in Run \ {r} : run'[q] = run[q]
    BY <1>1, StartEffect DEF Unused
  <2>2. ~Busy(j)
    BY <1>1 DEF Start, StartThrows
  <2>3. CASE j # k
    <3>1. current'[k] = current[k]
      BY <2>1, <2>3 DEF Shape, TypeOK
    <3>2. run[r].key # k /\ run'[r].key # k
      BY <2>1, <2>3, NullAssumption
    <3>. QED
      BY <2>1, <3>1, <3>2, SlotStutters
  <2>4. CASE j = k
    <3>1. Holder(k) = NoRun /\ ~Signalled(k) /\ r \notin Ended(k)
      BY <2>1, <2>2, <2>4, NullAssumption DEF Holder, Signalled, Ended
    <3>2. current'[k] = r
      BY <2>1, <2>4 DEF Shape, TypeOK
    <3>3. r # NoRun
      BY NullAssumption
    <3>4. CASE run'[r].running
      <4>1. Holder(k)' = r /\ ~Signalled(k)'
        BY <2>1, <3>2, <3>3, <3>4 DEF Holder, Signalled, Busy
      <4>2. Ended(k)' = Ended(k)
        BY <2>1, <3>4, NullAssumption DEF Ended
      <4>. QED
        BY <3>1, <4>1, <4>2 DEF Slot!SlotNext, Slot!Reserve
    <3>5. CASE ~run'[r].running
      <4>1. Holder(k)' = NoRun /\ ~Signalled(k)'
        BY <3>2, <3>5 DEF Holder, Signalled, Busy
      <4>2. Ended(k)' = Ended(k) \cup {r}
        BY <2>1, <2>4, <3>5 DEF Ended
      <4>3. Signalled(k)' = Signalled(k)
        BY <3>1, <4>1 DEF Signalled
      <4>. QED
        BY <3>1, <4>1, <4>2, <4>3 DEF Slot!SlotNext, Slot!Flash
    <3>. QED
      BY <3>4, <3>5
  <2>. QED
    BY <2>3, <2>4
<1>2. ASSUME NEW r \in Run, NEW kind \in Kind, Emit(r, kind)
      PROVE  UNCHANGED Slot(k)!slotVars
  <2>1. /\ UNCHANGED current
        /\ run'[r].key = run[r].key /\ run'[r].running = run[r].running
        /\ run'[r].aborted = run[r].aborted
        /\ \A q \in Run \ {r} : run'[q] = run[q]
    BY <1>2, EmitEffect
  <2>. QED
    BY <2>1, SlotStutters
<1>3. ASSUME NEW r \in Run, NEW threw \in BOOLEAN, End(r, threw)
      PROVE  [Slot(k)!SlotNext]_(Slot(k)!slotVars)
  <2>1. /\ UNCHANGED current
        /\ run[r].running /\ run'[r].key = run[r].key /\ ~run'[r].running
        /\ \A q \in Run \ {r} : run'[q] = run[q]
    BY <1>3, EndEffect
  <2>2. CASE run[r].key # k
    BY <2>1, <2>2, SlotStutters
  <2>3. CASE run[r].key = k
    <3>1. current[k] = r /\ r # NoRun
      BY <2>1, <2>3, NullAssumption DEF OneTurnPerKey
    <3>2. Holder(k) = r /\ Holder(k)' = NoRun /\ ~Signalled(k)'
      BY <2>1, <3>1 DEF Holder, Signalled, Busy
    <3>3. Ended(k)' = Ended(k) \cup {r}
      BY <2>1, <2>3 DEF Ended
    <3>. QED
      BY <3>1, <3>2, <3>3 DEF Slot!SlotNext, Slot!Release
  <2>. QED
    BY <2>2, <2>3
<1>4. ASSUME NEW j \in Key, Stop(j)
      PROVE  [Slot(k)!SlotNext]_(Slot(k)!slotVars)
  <2>1. /\ UNCHANGED current /\ current[j] \in Run
        /\ run[current[j]].running /\ ~run[current[j]].aborted
        /\ run'[current[j]].running /\ run'[current[j]].aborted
        /\ \A q \in Run : /\ run'[q].key = run[q].key
                          /\ run'[q].running = run[q].running
                          /\ q # current[j] => run'[q] = run[q]
    BY <1>4, StopEffect
  <2>2. current[j] # NoRun /\ run[current[j]].key = j
    BY <2>1, NullAssumption DEF Shape, Mapped
  <2>3. CASE j # k
    BY <2>1, <2>2, <2>3, SlotStutters
  <2>4. CASE j = k
    <3>1. Holder(k)' = Holder(k) /\ Holder(k) # NoRun
      BY <2>1, <2>2, <2>4 DEF Holder, Busy
    <3>2. ~Signalled(k) /\ Signalled(k)'
      BY <2>1, <2>2, <2>4 DEF Signalled, Busy
    <3>3. Ended(k)' = Ended(k)
      BY <2>1 DEF Ended
    <3>. QED
      BY <3>1, <3>2, <3>3 DEF Slot!SlotNext, Slot!Signal
  <2>. QED
    BY <2>3, <2>4
<1>5. ASSUME NEW s \in Sub, SubStep(s)
      PROVE  UNCHANGED Slot(k)!slotVars
  BY <1>5, ReadersOnlyRead, SlotStutters
<1>6. CASE UNCHANGED vars
  BY <1>6, SlotStutters DEF vars
<1>. QED
  BY <1>1, <1>2, <1>3, <1>4, <1>5, <1>6 DEF Next, RunStep

\* The registry implements the contract of a slot for every one of its keys.
THEOREM RegistryIsSlots == Spec => ImplementsSlot
<1>1. Init => \A k \in Key : Slot(k)!SlotInit
  <2>. SUFFICES ASSUME Init, NEW k \in Key PROVE Slot(k)!SlotInit
    OBVIOUS
  <2>1. ~Busy(k)
    BY DEF Init, Busy
  <2>2. Ended(k) = {}
    BY NullAssumption DEF Init, Ended, Unused
  <2>. QED
    BY <2>1, <2>2 DEF Slot!SlotInit, Holder, Signalled
<1>2. Shape /\ Shape' /\ OneTurnPerKey /\ [Next]_vars
        => [\A k \in Key : [Slot(k)!SlotNext]_(Slot(k)!slotVars)]_vars
  BY SlotStep
<1>. QED
  BY <1>1, <1>2, ShapeInvariant, OneTurn, PTL DEF Spec, ImplementsSlot

-----------------------------------------------------------------------------
(***************************************************************************)
(* The notices.  observeOutcome folds the log in order; what it remembers  *)
(* is what an order-free reading of the log would say.                     *)
(***************************************************************************)
Heard(o) ==
  IF Saw(o, {"error", "finishError"}) THEN "failed"
  ELSE IF Saw(o, {"abort"}) THEN "stopped"
  ELSE IF Saw(o, {"ask"}) THEN "asking"
  ELSE "finished"

Opening == [state |-> "started", free |-> FALSE]

Truthful(o) ==
  /\ o.outcome = Heard(o)
  /\ o.running => ~o.failed
  /\ o.named => o.notices = IF o.running THEN <<Opening>>
                            ELSE <<Opening, [state |-> Verdict(o), free |-> TRUE]>>

Truth == \A r \in Run : run[r].key # NoKey => Truthful(run[r])

LEMMA SawMore ==
  ASSUME NEW o \in RunRecord, NEW p \in RunRecord, NEW kind \in EventKind,
         p.log = Append(o.log, [seq |-> Len(o.log) + 1, kind |-> kind]),
         NEW kinds
  PROVE  Saw(p, kinds) <=> Saw(o, kinds) \/ kind \in kinds
<1>. DEFINE e == [seq |-> Len(o.log) + 1, kind |-> kind]
<1>1. o.log \in Seq(Event) /\ e \in Event /\ e.kind = kind
  BY DEF RunRecord, Event
<1>2. p.log = Append(o.log, e)
  OBVIOUS
<1>. HIDE DEF e
<1>3. /\ Len(p.log) = Len(o.log) + 1 /\ Len(o.log) \in Nat
      /\ p.log[Len(o.log) + 1] = e
      /\ \A i \in 1..Len(o.log) : p.log[i] = o.log[i]
  BY <1>1, <1>2
<1>. QED
  BY <1>1, <1>3 DEF Saw

LEMMA EmitTruthful ==
  ASSUME NEW o \in RunRecord, NEW p \in RunRecord, NEW kind \in EventKind,
         Truthful(o), o.running, p.running, ~p.failed,
         p.log = Append(o.log, [seq |-> Len(o.log) + 1, kind |-> kind]),
         p.outcome = Observe(o.outcome, kind),
         p.named = o.named, p.notices = o.notices
  PROVE  Truthful(p)
<1>1. p.outcome = Heard(p)
  <2>1. /\ Saw(p, {"error", "finishError"})
             <=> Saw(o, {"error", "finishError"}) \/ kind \in {"error", "finishError"}
        /\ Saw(p, {"abort"}) <=> Saw(o, {"abort"}) \/ kind = "abort"
        /\ Saw(p, {"ask"}) <=> Saw(o, {"ask"}) \/ kind = "ask"
    <3>1. \A kinds : Saw(p, kinds) <=> Saw(o, kinds) \/ kind \in kinds
      BY SawMore
    <3>. QED
      BY <3>1
  <2>2. p.outcome = Observe(Heard(o), kind)
    BY DEF Truthful
  <2>. QED
    BY <2>1, <2>2 DEF Heard, Observe
<1>. QED
  BY <1>1 DEF Truthful

\* Appending to a one-element log gives the two-element tuple Published writes.
LEMMA AppendToOne ==
  ASSUME NEW a, NEW b
  PROVE  Append(<<a>>, b) = <<a, b>>
<1>. DEFINE S == {a, b}
            s == Append(<<a>>, b)
            t == <<a, b>>
<1>1. <<a>> \in Seq(S) /\ b \in S /\ t \in Seq(S)
  OBVIOUS
<1>2. s \in Seq(S) /\ Len(s) = 2
  BY <1>1
<1>3. s[1] = a /\ s[2] = b
  BY <1>1
<1>4. Len(t) = 2 /\ t[1] = a /\ t[2] = b
  OBVIOUS
<1>. HIDE DEF S, s, t
<1>5. \A i \in 1..Len(s) : s[i] = t[i]
  BY <1>2, <1>3, <1>4
<1>6. s = t
  BY <1>1, <1>2, <1>4, <1>5, SeqEqual
<1>. QED
  BY <1>6 DEF s, t

LEMMA OverTruthful ==
  ASSUME NEW o \in RunRecord, Truthful(o), o.running, NEW threw \in BOOLEAN
  PROVE  Truthful(Over(o, threw))
<1>. DEFINE p == [o EXCEPT !.running = FALSE, !.failed = threw, !.waiters = {}]
            q == Over(o, threw)
<1>1. /\ p.log = o.log /\ p.outcome = o.outcome /\ p.aborted = o.aborted /\ p.named = o.named
      /\ ~p.running /\ p.failed = threw /\ p.notices = o.notices /\ p \in RunRecord
  BY DEF RunRecord
<1>2. q = [p EXCEPT !.notices = Published(p, EndState(p))]
  BY DEF Over
<1>. HIDE DEF p, q
<1>3. /\ q.log = o.log /\ q.outcome = o.outcome /\ q.aborted = o.aborted /\ q.named = o.named
      /\ ~q.running /\ q.failed = threw /\ q.notices = Published(p, EndState(p))
  BY <1>1, <1>2 DEF RunRecord
<1>4. Heard(q) = Heard(o) /\ q.outcome = Heard(q)
  BY <1>3 DEF Heard, Saw, Truthful
<1>5. EndState(p) = Verdict(q)
  BY <1>1, <1>3, <1>4 DEF EndState, Verdict, Heard
<1>6. o.named => q.notices = <<Opening, [state |-> Verdict(q), free |-> TRUE]>>
  <2>. SUFFICES ASSUME o.named
                PROVE  q.notices = <<Opening, [state |-> Verdict(q), free |-> TRUE]>>
    OBVIOUS
  <2>1. q.notices = Append(<<Opening>>, [state |-> Verdict(q), free |-> TRUE])
    BY <1>1, <1>3, <1>5 DEF Published, Truthful
  <2>. DEFINE a == Opening
              b == [state |-> Verdict(q), free |-> TRUE]
  <2>2. q.notices = Append(<<a>>, b)
    BY <2>1
  <2>. HIDE DEF a, b
  <2>3. Append(<<a>>, b) = <<a, b>>
    BY AppendToOne
  <2>. QED
    BY <2>2, <2>3 DEF a, b
<1>. QED
  BY <1>3, <1>4, <1>6 DEF Truthful, q

LEMMA StoredTruthful ==
  ASSUME NEW k \in Key, NEW n \in BOOLEAN
  PROVE  Truthful(Stored(k, n))
<1>. DEFINE o == Stored(k, n)
<1>1. /\ o.log = <<>> /\ o.outcome = "finished" /\ o.running /\ ~o.failed /\ o.named = n
      /\ o.notices = IF n THEN <<Opening>> ELSE <<>>
  BY DEF Stored, Opening
<1>. HIDE DEF o
<1>2. Heard(o) = "finished"
  BY <1>1 DEF Heard, Saw
<1>. QED
  BY <1>1, <1>2 DEF Truthful, o

LEMMA WaitersTruthful ==
  ASSUME NEW o \in RunRecord, NEW w, Truthful(o)
  PROVE  Truthful([o EXCEPT !.waiters = w])
BY DEF Truthful, Heard, Saw, Verdict, RunRecord

LEMMA AbortTruthful ==
  ASSUME NEW o \in RunRecord, o.running, Truthful(o)
  PROVE  Truthful([o EXCEPT !.aborted = TRUE])
BY DEF Truthful, Heard, Saw, Verdict, RunRecord

LEMMA TruthStep ==
  ASSUME Shape, Shape', Truth, [Next]_vars
  PROVE  Truth'
<1>1. ASSUME NEW r \in Run, NEW v, run' = [run EXCEPT ![r] = v],
             run[r].key # NoKey /\ Truthful(run[r]) => Truthful(v),
             run[r].key # NoKey
      PROVE  Truth'
  BY <1>1 DEF Truth, Shape, TypeOK
<1>2. ASSUME NEW r \in Run, NEW k \in Key, NEW n \in BOOLEAN,
             Start(k, r, n) \/ StartThrows(k, r, n)
      PROVE  Truth'
  <2>1. run' = [run EXCEPT ![r] = Stored(k, n)] \/ run' = [run EXCEPT ![r] = Over(Stored(k, n), TRUE)]
    BY <1>2 DEF Start, StartThrows
  <2>2. Truthful(Stored(k, n)) /\ Truthful(Over(Stored(k, n), TRUE))
    BY StoredTruthful, StoredFacts, OverTruthful
  <2>. QED
    BY <2>1, <2>2 DEF Truth, Shape, TypeOK
<1>3. ASSUME NEW r \in Run, NEW kind \in Kind, Emit(r, kind)
      PROVE  Truth'
  <2>. DEFINE e == [seq |-> Len(run[r].log) + 1, kind |-> kind]
              v == [run[r] EXCEPT !.log = Append(run[r].log, e),
                                  !.outcome = Observe(run[r].outcome, kind), !.waiters = {}]
  <2>1. run' = [run EXCEPT ![r] = v] /\ run[r].running
    BY <1>3, Zenon DEF Emit, NextSeq
  <2>2. run[r] \in RunRecord /\ run'[r] \in RunRecord /\ kind \in EventKind
    BY KindAssumption DEF Shape, TypeOK
  <2>3. run'[r] = v
    BY <2>1 DEF Shape, TypeOK
  <2>4. /\ v.log = Append(run[r].log, e) /\ v.outcome = Observe(run[r].outcome, kind)
        /\ v.running = run[r].running /\ v.failed = run[r].failed
        /\ v.named = run[r].named /\ v.notices = run[r].notices
    <3>. HIDE DEF e
    <3>. QED
      BY <2>2 DEF RunRecord
  <2>. HIDE DEF v
  <2>5. Truthful(run[r]) => Truthful(v)
    BY <2>1, <2>2, <2>3, <2>4, EmitTruthful DEF Truthful
  <2>6. run[r].key # NoKey
    BY <2>1 DEF Shape, Fresh, Unused
  <2>. QED
    BY <1>1, <2>1, <2>5, <2>6
<1>4. ASSUME NEW r \in Run, NEW threw \in BOOLEAN, End(r, threw)
      PROVE  Truth'
  <2>1. run' = [run EXCEPT ![r] = Over(run[r], threw)] /\ run[r].running
    BY <1>4 DEF End
  <2>2. run[r] \in RunRecord /\ run[r].key # NoKey
    BY <2>1 DEF Shape, TypeOK, Fresh, Unused
  <2>. QED
    BY <1>1, <2>1, <2>2, OverTruthful
<1>5. ASSUME NEW k \in Key, Stop(k)
      PROVE  Truth'
  <2>. DEFINE r == current[k]
  <2>1. /\ run' = [run EXCEPT ![r] = [run[r] EXCEPT !.aborted = TRUE]]
        /\ r \in Run /\ run[r].running
    BY <1>5, StopEffect DEF Stop
  <2>2. run[r] \in RunRecord /\ run[r].key # NoKey
    BY <2>1 DEF Shape, TypeOK, Fresh, Unused
  <2>. QED
    BY <1>1, <2>1, <2>2, AbortTruthful
<1>6. ASSUME NEW s \in Sub, NEW w, sub[s].at # "none",
             run' = [run EXCEPT ![sub[s].run] = [run[sub[s].run] EXCEPT !.waiters = w]]
      PROVE  Truth'
  <2>1. sub[s].run \in Run /\ run[sub[s].run].key # NoKey /\ run[sub[s].run] \in RunRecord
    BY <1>6 DEF Shape, SubsBound, TypeOK
  <2>. QED
    BY <1>1, <1>6, <2>1, WaitersTruthful
<1>7. ASSUME NEW s \in Sub, SubStep(s)
      PROVE  Truth'
  <2>1. CASE Park(s)
    <3>. DEFINE w == run[sub[s].run].waiters \cup {s}
    <3>1. sub[s].at # "none" /\ run' = [run EXCEPT ![sub[s].run].waiters = w]
      BY <2>1, ParkEffect
    <3>. HIDE DEF w
    <3>. QED
      BY <1>6, <3>1
  <2>2. CASE Detach(s)
    <3>. DEFINE w == run[sub[s].run].waiters \ {s}
    <3>1. sub[s].at # "none" /\ run' = [run EXCEPT ![sub[s].run].waiters = w]
      BY <2>2, DetachEffect
    <3>. HIDE DEF w
    <3>. QED
      BY <1>6, <3>1
  <2>3. CASE run' = run
    BY <2>3 DEF Truth
  <2>. QED
    BY <1>7, <2>1, <2>2, <2>3
    DEF SubStep, Read, Subscribe, Pull, Deliver, Finish, Leave, Return
<1>8. CASE UNCHANGED vars
  BY <1>8 DEF vars, Truth
<1>. QED
  BY <1>2, <1>3, <1>4, <1>5, <1>7, <1>8 DEF Next, RunStep

\* Listeners are told the start of every visible run and, with the key already
\* free, the verdict that the whole of the run amounts to.
THEOREM NoticesAreTrue == Spec => []NoticesTellTheTruth
<1>1. Init => Truth
  BY DEF Init, Truth, Unused
<1>2. Truth => NoticesTellTheTruth
  BY DEF Truth, Truthful, NoticesTellTheTruth, Opening
<1>. QED
  BY <1>1, <1>2, TruthStep, ShapeInvariant, PTL DEF Spec
=============================================================================
