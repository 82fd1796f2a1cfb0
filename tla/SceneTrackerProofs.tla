------------------------ MODULE SceneTrackerProofs ------------------------
(***************************************************************************)
(* The lanes, the writes and the row of the history run, for any number of *)
(* variants, generations and schemas, any number of acts and any deaths.   *)
(***************************************************************************)
EXTENDS SceneTracker, SequenceTheorems, TLAPS

\* Who stands in a lane, once, is a generation of its variant.
Lanes ==
  \A v \in Variant : \A i \in 1..Len(lane[v]) :
    /\ gens[lane[v][i]].at \in {"queued", "asking"}
    /\ gens[lane[v][i]].variant = v
    /\ \A j \in 1..Len(lane[v]) : lane[v][i] = lane[v][j] => i = j

\* Only the first of a lane asks, and a controller is that of one of the lane.
Leading == \A g \in Gen : gens[g].at = "asking" => Leads(g)
Controlled ==
  \A v \in Variant : controllers[v] # NoGen =>
    /\ gens[controllers[v]].at \in {"queued", "asking"}
    /\ gens[controllers[v]].variant = v

\* The loop waits exactly while its generation lives, and that one knows of the
\* cancellation.
Filling ==
  /\ Live(Filler) <=> loop.at = "waiting"
  /\ Live(Filler) => /\ gens[Filler].variant = loop.item /\ gens[Filler].by = "run"
                     /\ loop.aborted => gens[Filler].aborted
                     /\ gens[Filler].aborted => hit \/ loop.aborted
  /\ \A g \in Request : Live(g) => gens[g].by # "run"

\* What the loop has yet to do covers what the row says is not reached.
Pending ==
  /\ run.errors \subseteq run.items
  /\ loop # Off => loop.todo \subseteq run.items
  /\ loop.at \in {"begin", "next"} => Rest \subseteq loop.todo
  /\ loop.at \in {"waiting", "ok", "failed", "cancelled"} =>
       /\ loop.item \in run.items
       /\ Rest \subseteq loop.todo \cup {loop.item}
       /\ \A w \in loop.todo : loop.item < w

Endings ==
  /\ loop.at = "begin" => ~loop.aborted
  /\ loop # Off /\ loop.aborted => run.cancel
  /\ loop.at = "ok" => loop.item \in made
  /\ loop.at = "cancelled" => hit \/ run.cancel

Row == IF run = NoRun THEN loop = Off ELSE Pending /\ Endings
Told == told => loop = Off \/ loop.aborted

LaneInv == Lanes /\ Leading /\ Controlled /\ Joinable

RestInv == Filling /\ Row /\ Told /\ Accounts

Inv == TypeOK /\ LaneInv /\ RestInv

LaneType ==
  /\ gens \in [Gen -> {Free} \cup Generation]
  /\ lane \in [Variant -> Seq(Gen)]
  /\ controllers \in [Variant -> Gen \cup {NoGen}]
  /\ jobs \in [Variant -> Gen \cup {NoGen, Settled}]

RestType ==
  /\ content \in [Variant -> Nat]
  /\ config \in [schema : Schema, revision : Nat]
  /\ record \in [Variant -> {NoRecord}
                   \cup [by : {"hand", "auto", "run", "edit"}, source : Nat, schema : Schema]]
  /\ run \in {NoRun} \cup Run
  /\ loop \in {Off} \cup Loop
  /\ acts \in Nat /\ faults \in Nat
  /\ made \subseteq Variant /\ told \in BOOLEAN /\ hit \in BOOLEAN

LEMMA TypeParts == TypeOK <=> LaneType /\ RestType
BY DEF TypeOK, LaneType, RestType

LEMMA Together ==
  ASSUME LaneType', LaneInv', RestType', RestInv'
  PROVE  Inv'
BY DEF Inv, TypeOK, LaneType, RestType

-----------------------------------------------------------------------------
(* The lanes.                                                              *)

LEMMA Slots == /\ NoGen \notin Gen /\ Settled \notin Gen /\ NoGen # Settled
               /\ Filler \in Gen /\ Request \subseteq Gen /\ Filler \notin Request
BY GenAssumption DEF Gen

\* A lane that loses its head keeps the order and the last.
LEMMA Tails ==
  ASSUME NEW s \in Seq(Gen), s # <<>>
  PROVE  /\ Tail(s) \in Seq(Gen) /\ Len(Tail(s)) = Len(s) - 1
         /\ Len(s) \in Nat \ {0} /\ Head(s) = s[1] /\ Head(s) \in Gen
         /\ \A i \in 1..Len(Tail(s)) : Tail(s)[i] = s[i + 1] /\ i + 1 \in 1..Len(s)
OBVIOUS

LEMMA Appends ==
  ASSUME NEW s \in Seq(Gen), NEW g \in Gen
  PROVE  /\ Append(s, g) \in Seq(Gen) /\ Append(s, g) # <<>>
         /\ Len(s) \in Nat /\ Len(Append(s, g)) = Len(s) + 1
         /\ Append(s, g)[Len(s) + 1] = g
         /\ \A i \in 1..Len(s) : Append(s, g)[i] = s[i]
OBVIOUS

LEMMA Members ==
  ASSUME NEW s \in Seq(Gen)
  PROVE  Len(s) \in Nat /\ \A i \in 1..Len(s) : s[i] \in Gen
OBVIOUS

LEMMA Shapes ==
  /\ Free.at = "free" /\ Free \notin Generation
  /\ \A x \in Generation : /\ x.at \in {"preparing", "queued", "asking"} /\ x # Free
                           /\ x.variant \in Variant /\ x.by \in {"hand", "auto", "run"}
                           /\ x.aborted \in BOOLEAN
                           /\ x.at = "asking" => x.source \in Nat /\ x.schema \in Schema
BY DEF Free, Generation

LEMMA Queued ==
  ASSUME NEW x \in Generation, x.at = "preparing"
  PROVE  /\ [x EXCEPT !.at = "queued"] \in Generation
         /\ [x EXCEPT !.at = "queued"].at = "queued"
         /\ [x EXCEPT !.at = "queued"].variant = x.variant
         /\ [x EXCEPT !.at = "queued"].by = x.by
         /\ [x EXCEPT !.at = "queued"].aborted = x.aborted
BY DEF Generation

LEMMA Aborted ==
  ASSUME NEW x \in Generation
  PROVE  /\ [x EXCEPT !.aborted = TRUE] \in Generation
         /\ [x EXCEPT !.aborted = TRUE].at = x.at
         /\ [x EXCEPT !.aborted = TRUE].variant = x.variant
         /\ [x EXCEPT !.aborted = TRUE].by = x.by
         /\ [x EXCEPT !.aborted = TRUE].aborted
BY DEF Generation

\* A generation that is not in a lane may come, change or go.
LEMMA OutsideStep ==
  ASSUME LaneType, LaneInv, NEW g \in Gen, NEW x \in {Free} \cup Generation,
         gens[g].at \in {"free", "preparing"}, x.at \in {"free", "preparing"},
         gens' = [gens EXCEPT ![g] = x], UNCHANGED <<lane, controllers>>,
         jobs' \in [Variant -> Gen \cup {NoGen, Settled}],
         \A v \in Variant : lane[v] # <<>> => jobs'[v] = jobs[v]
  PROVE  LaneType' /\ LaneInv'
<1>1. LaneType'
  BY DEF LaneType
<1>2. \A h \in Gen : h # g => gens'[h] = gens[h]
  BY DEF LaneType
<1>3. gens'[g] = x
  BY DEF LaneType
<1>4. Lanes'
  <2>1. \A v \in Variant : \A i \in 1..Len(lane[v]) : lane[v][i] \in Gen /\ lane[v][i] # g
    <3>1. SUFFICES ASSUME NEW v \in Variant, NEW i \in 1..Len(lane[v])
                   PROVE  lane[v][i] \in Gen /\ lane[v][i] # g
      OBVIOUS
    <3>2. lane[v][i] \in Gen
      BY Members DEF LaneType
    <3>3. gens[lane[v][i]].at \in {"queued", "asking"}
      BY DEF LaneInv, Lanes
    <3>4. QED
      BY <3>2, <3>3
  <2>2. QED
    BY <2>1, <1>2 DEF LaneInv, Lanes
<1>5. Leading'
  BY <1>2, <1>3 DEF LaneInv, Leading, Leads
<1>6. Controlled'
  <2>1. \A v \in Variant : controllers[v] # NoGen => controllers[v] \in Gen /\ controllers[v] # g
    BY DEF LaneType, LaneInv, Controlled
  <2>2. QED
    BY <2>1, <1>2 DEF LaneInv, Controlled
<1>7. Joinable'
  BY DEF LaneInv, Joinable
<1>8. QED
  BY <1>1, <1>4, <1>5, <1>6, <1>7 DEF LaneInv

\* A generation may be aborted anywhere.
LEMMA AbortStep ==
  ASSUME LaneType, LaneInv, NEW g \in Gen, Live(g),
         gens' = [gens EXCEPT ![g].aborted = TRUE], UNCHANGED <<lane, controllers, jobs>>
  PROVE  /\ LaneType' /\ LaneInv'
         /\ \A h \in Gen : h # g => gens'[h] = gens[h]
         /\ gens'[g].aborted /\ gens'[g].variant = gens[g].variant
         /\ gens'[g].by = gens[g].by /\ gens'[g] # Free
<1>1. gens[g] \in Generation
  BY DEF Live, LaneType
<1> DEFINE x == [gens[g] EXCEPT !.aborted = TRUE]
<1>2. x \in Generation /\ x.at = gens[g].at /\ x.variant = gens[g].variant
      /\ x.by = gens[g].by /\ x.aborted
  BY <1>1, Aborted
<1>3. gens' = [gens EXCEPT ![g] = x]
  OBVIOUS
<1> HIDE DEF x
<1>4. gens'[g] = x /\ (\A h \in Gen : h # g => gens'[h] = gens[h])
  BY <1>3 DEF LaneType
<1>5. LaneType'
  BY <1>2, <1>3 DEF LaneType
<1>6. \A h \in Gen : gens'[h].at = gens[h].at /\ gens'[h].variant = gens[h].variant
  BY <1>2, <1>4
<1>7. Lanes'
  <2>1. \A v \in Variant : \A i \in 1..Len(lane[v]) : lane[v][i] \in Gen
    BY DEF LaneType
  <2>2. QED
    BY <2>1, <1>6 DEF LaneInv, Lanes
<1>8. Leading'
  BY <1>6 DEF LaneInv, Leading, Leads
<1>9. Controlled'
  BY <1>6 DEF LaneInv, Controlled, LaneType
<1>10. Joinable'
  BY DEF LaneInv, Joinable
<1>11. QED
  BY <1>2, <1>4, <1>5, <1>7, <1>8, <1>9, <1>10, Shapes DEF LaneInv

\* It takes its place at the end of the lane.
LEMMA PreparedStep ==
  ASSUME LaneType, LaneInv, NEW g \in Gen, Prepared(g)
  PROVE  /\ LaneType' /\ LaneInv'
         /\ gens[g] \in Generation /\ gens'[g] # Free
         /\ gens'[g].variant = gens[g].variant /\ gens'[g].by = gens[g].by
         /\ gens'[g].aborted = gens[g].aborted
         /\ \A h \in Gen : h # g => gens'[h] = gens[h]
<1> DEFINE v == gens[g].variant
<1> DEFINE x == [gens[g] EXCEPT !.at = "queued"]
<1>1. gens[g] \in Generation /\ gens[g].at = "preparing" /\ v \in Variant
  BY Shapes DEF Prepared, LaneType
<1>2. /\ gens' = [gens EXCEPT ![g] = x]
      /\ lane' = [lane EXCEPT ![v] = Append(lane[v], g)]
      /\ controllers' = [controllers EXCEPT ![v] = g]
      /\ jobs' = [jobs EXCEPT ![v] = g]
  BY DEF Prepared
<1>3. /\ x \in Generation /\ x.at = "queued" /\ x.variant = v
      /\ x.by = gens[g].by /\ x.aborted = gens[g].aborted
  BY <1>1, Queued
<1> HIDE DEF v, x
<1>4. gens'[g] = x /\ (\A h \in Gen : h # g => gens'[h] = gens[h])
  BY <1>2 DEF LaneType
<1>5. lane[v] \in Seq(Gen)
  BY <1>1 DEF LaneType
<1>6. /\ lane'[v] = Append(lane[v], g) /\ controllers'[v] = g /\ jobs'[v] = g
      /\ \A w \in Variant : w # v => /\ lane'[w] = lane[w] /\ controllers'[w] = controllers[w]
                                    /\ jobs'[w] = jobs[w]
  BY <1>1, <1>2 DEF LaneType
<1>7. LaneType'
  <2>1. Append(lane[v], g) \in Seq(Gen)
    BY <1>5, Appends
  <2>2. QED
    BY <1>1, <1>2, <1>3, <2>1 DEF LaneType
<1>8. \A w \in Variant : \A i \in 1..Len(lane[w]) :
        lane[w][i] \in Gen /\ lane[w][i] # g
  <2>1. SUFFICES ASSUME NEW w \in Variant, NEW i \in 1..Len(lane[w])
                 PROVE  lane[w][i] \in Gen /\ lane[w][i] # g
    OBVIOUS
  <2>2. lane[w][i] \in Gen
    BY Members DEF LaneType
  <2>3. gens[lane[w][i]].at \in {"queued", "asking"}
    BY DEF LaneInv, Lanes
  <2>4. QED
    BY <2>2, <2>3, <1>1
<1>9. Lanes'
  <2>1. SUFFICES ASSUME NEW w \in Variant, NEW i \in 1..Len(lane'[w])
                 PROVE  /\ gens'[lane'[w][i]].at \in {"queued", "asking"}
                        /\ gens'[lane'[w][i]].variant = w
                        /\ \A j \in 1..Len(lane'[w]) : lane'[w][i] = lane'[w][j] => i = j
    BY DEF Lanes
  <2>2. CASE w # v
    BY <2>2, <1>6, <1>8, <1>4 DEF LaneInv, Lanes
  <2>3. CASE w = v
    <3>1. /\ Len(lane'[w]) = Len(lane[v]) + 1 /\ Len(lane[v]) \in Nat
          /\ lane'[w][Len(lane[v]) + 1] = g
          /\ \A j \in 1..Len(lane[v]) : lane'[w][j] = lane[v][j]
      BY <2>3, <1>5, <1>6, Appends
    <3>2. \A j \in 1..Len(lane'[w]) : j \in 1..Len(lane[v]) \/ j = Len(lane[v]) + 1
      BY <3>1
    <3>3. CASE i = Len(lane[v]) + 1
      BY <3>1, <3>2, <3>3, <2>3, <1>1, <1>3, <1>4, <1>8
    <3>4. CASE i \in 1..Len(lane[v])
      <4>1. lane'[w][i] = lane[v][i] /\ gens'[lane'[w][i]] = gens[lane[v][i]]
        BY <3>1, <3>4, <1>1, <1>4, <1>8
      <4>2. gens[lane[v][i]].at \in {"queued", "asking"} /\ gens[lane[v][i]].variant = v
        BY <3>4, <1>1 DEF LaneInv, Lanes
      <4>3. \A j \in 1..Len(lane[v]) : lane[v][i] = lane[v][j] => i = j
        BY <3>4, <1>1 DEF LaneInv, Lanes
      <4>4. \A j \in 1..Len(lane'[w]) : lane'[w][i] = lane'[w][j] => i = j
        BY <4>1, <4>3, <3>1, <3>2, <3>4, <1>1, <1>8
      <4>5. QED
        BY <4>1, <4>2, <4>4, <2>3
    <3>5. QED
      BY <3>2, <3>3, <3>4, <2>1
  <2>4. QED
    BY <2>2, <2>3
<1>10. Leading'
  <2>1. SUFFICES ASSUME NEW h \in Gen, gens'[h].at = "asking" PROVE Leads(h)'
    BY DEF Leading
  <2>2. h # g /\ gens'[h] = gens[h] /\ gens[h].at = "asking" /\ Leads(h)
    BY <2>1, <1>3, <1>4 DEF LaneInv, Leading
  <2>3. gens[h] \in Generation /\ gens[h].variant \in Variant
    BY <2>2, Shapes DEF LaneType
  <2>4. CASE gens[h].variant # v
    BY <2>2, <2>3, <2>4, <1>6 DEF Leads
  <2>5. CASE gens[h].variant = v
    <3>1. lane[v] # <<>> /\ Head(lane[v]) = h
      BY <2>2, <2>5 DEF Leads
    <3>2. lane'[v] # <<>> /\ Head(lane'[v]) = h
      BY <3>1, <1>5, <1>6
    <3>3. QED
      BY <3>2, <2>2, <2>5 DEF Leads
  <2>6. QED
    BY <2>4, <2>5
<1>11. Controlled'
  <2>1. SUFFICES ASSUME NEW w \in Variant, controllers'[w] # NoGen
                 PROVE  /\ gens'[controllers'[w]].at \in {"queued", "asking"}
                        /\ gens'[controllers'[w]].variant = w
    BY DEF Controlled
  <2>2. CASE w = v
    BY <2>2, <1>3, <1>4, <1>6
  <2>3. CASE w # v
    <3>1. /\ controllers'[w] = controllers[w] /\ controllers[w] \in Gen
          /\ gens[controllers[w]].at \in {"queued", "asking"}
          /\ gens[controllers[w]].variant = w
      BY <2>1, <2>3, <1>6 DEF LaneInv, Controlled, LaneType
    <3>2. gens'[controllers[w]] = gens[controllers[w]]
      BY <3>1, <1>1, <1>4
    <3>3. QED
      BY <3>1, <3>2
  <2>4. QED
    BY <2>2, <2>3
<1>12. Joinable'
  <2>1. lane'[v][Len(lane'[v])] = g
    BY <1>5, <1>6, Appends
  <2>2. QED
    BY <2>1, <1>6 DEF LaneInv, Joinable
<1>13. QED
  BY <1>1, <1>3, <1>4, <1>7, <1>9, <1>10, <1>11, <1>12, Shapes DEF LaneInv, v

\* It asks its provider.
LEMMA AskStep ==
  ASSUME LaneType, LaneInv, NEW g \in Gen, Leads(g), gens[g].at = "queued",
         NEW x \in Generation, x.variant = gens[g].variant, x.at = "asking",
         gens' = [gens EXCEPT ![g] = x], UNCHANGED <<lane, controllers, jobs>>
  PROVE  LaneType' /\ LaneInv'
<1>1. gens'[g] = x /\ (\A h \in Gen : h # g => gens'[h] = gens[h])
  BY DEF LaneType
<1>2. LaneType'
  BY DEF LaneType
<1>3. \A h \in Gen : /\ gens'[h].variant = gens[h].variant
                     /\ gens[h].at \in {"queued", "asking"} => gens'[h].at \in {"queued", "asking"}
  BY <1>1
<1>4. Lanes'
  <2>1. \A v \in Variant : \A i \in 1..Len(lane[v]) : lane[v][i] \in Gen
    BY Members DEF LaneType
  <2>2. QED
    BY <2>1, <1>3 DEF LaneInv, Lanes
<1>5. Leading'
  BY <1>1 DEF LaneInv, Leading, Leads
<1>6. Controlled'
  BY <1>3 DEF LaneInv, Controlled, LaneType
<1>7. Joinable'
  BY DEF LaneInv, Joinable
<1>8. QED
  BY <1>2, <1>4, <1>5, <1>6, <1>7 DEF LaneInv

\* It leaves its lane.
LEMMA LeaveStep ==
  ASSUME LaneType, LaneInv, NEW g \in Gen, gens[g].at \in {"queued", "asking"}, Leads(g), Leave(g)
  PROVE  /\ LaneType' /\ LaneInv'
         /\ gens[g] \in Generation /\ gens'[g] = Free
         /\ \A h \in Gen : h # g => gens'[h] = gens[h]
<1> DEFINE v == gens[g].variant
<1>1. gens[g] \in Generation /\ v \in Variant
  BY Shapes DEF LaneType
<1>2. /\ gens' = [gens EXCEPT ![g] = Free]
      /\ lane' = [lane EXCEPT ![v] = Tail(lane[v])]
      /\ controllers' = [controllers EXCEPT ![v] = NoGen]
      /\ jobs' = [jobs EXCEPT ![v] = IF jobs[v] = g THEN NoGen ELSE jobs[v]]
  BY DEF Leave
<1>3. lane[v] \in Seq(Gen) /\ lane[v] # <<>> /\ lane[v][1] = g
  <2>1. lane[v] \in Seq(Gen) /\ lane[v] # <<>> /\ Head(lane[v]) = g
    BY <1>1 DEF Leads, LaneType
  <2>2. QED
    BY <2>1, Tails
<1> HIDE DEF v
<1>4. gens'[g] = Free /\ (\A h \in Gen : h # g => gens'[h] = gens[h])
  BY <1>2 DEF LaneType
<1>5. /\ lane'[v] = Tail(lane[v]) /\ controllers'[v] = NoGen
      /\ jobs'[v] = IF jobs[v] = g THEN NoGen ELSE jobs[v]
      /\ \A w \in Variant : w # v => /\ lane'[w] = lane[w] /\ controllers'[w] = controllers[w]
                                    /\ jobs'[w] = jobs[w]
  BY <1>1, <1>2 DEF LaneType
<1>6. /\ Len(lane[v]) \in Nat \ {0} /\ Tail(lane[v]) \in Seq(Gen)
      /\ Len(lane'[v]) = Len(lane[v]) - 1
      /\ \A i \in 1..Len(lane'[v]) : lane'[v][i] = lane[v][i + 1] /\ i + 1 \in 1..Len(lane[v])
  BY <1>3, <1>5, Tails
<1>7. LaneType'
  BY <1>1, <1>2, <1>6 DEF LaneType
<1>8. ASSUME NEW w \in Variant, NEW i \in 1..Len(lane[w]), lane[w][i] = g
      PROVE  w = v /\ i = 1
  <2>1. w = v
    BY <1>8 DEF LaneInv, Lanes, v
  <2>2. 1 \in 1..Len(lane[v]) /\ lane[v][1] = lane[v][i]
    BY <2>1, <1>3, <1>6, <1>8
  <2>3. QED
    BY <2>1, <2>2, <1>1, <1>8 DEF LaneInv, Lanes
<1>9. Lanes'
  <2>1. SUFFICES ASSUME NEW w \in Variant, NEW i \in 1..Len(lane'[w])
                 PROVE  /\ gens'[lane'[w][i]].at \in {"queued", "asking"}
                        /\ gens'[lane'[w][i]].variant = w
                        /\ \A j \in 1..Len(lane'[w]) : lane'[w][i] = lane'[w][j] => i = j
    BY DEF Lanes
  <2>2. CASE w # v
    <3>1. lane'[w] = lane[w] /\ lane[w][i] \in Gen /\ lane[w][i] # g
      BY <2>2, <1>5, <1>8, Members DEF LaneType
    <3>2. gens'[lane[w][i]] = gens[lane[w][i]]
      BY <3>1, <1>4
    <3>3. QED
      BY <3>1, <3>2 DEF LaneInv, Lanes
  <2>3. CASE w = v
    <3>1. /\ lane'[w][i] = lane[v][i + 1] /\ i + 1 \in 1..Len(lane[v]) /\ i + 1 # 1
      BY <2>3, <1>6
    <3>2. lane[v][i + 1] \in Gen /\ lane[v][i + 1] # g
      BY <3>1, <1>1, <1>3, <1>8, Members
    <3>3. gens'[lane[v][i + 1]] = gens[lane[v][i + 1]]
      BY <3>2, <1>4
    <3>4. ASSUME NEW j \in 1..Len(lane'[w]), lane'[w][i] = lane'[w][j] PROVE i = j
      <4>1. lane[v][i + 1] = lane[v][j + 1] /\ j + 1 \in 1..Len(lane[v])
        BY <2>3, <3>1, <3>4, <1>6
      <4>2. i + 1 = j + 1
        BY <4>1, <3>1, <1>1 DEF LaneInv, Lanes
      <4>3. i \in Int /\ j \in Int
        BY <1>6, <2>3, <3>4
      <4>4. QED
        BY <4>2, <4>3
    <3>5. gens[lane[v][i + 1]].at \in {"queued", "asking"} /\ gens[lane[v][i + 1]].variant = v
      BY <3>1, <1>1 DEF LaneInv, Lanes
    <3>6. QED
      BY <2>3, <3>1, <3>3, <3>4, <3>5
  <2>4. QED
    BY <2>2, <2>3
<1>10. Leading'
  <2>1. SUFFICES ASSUME NEW h \in Gen, gens'[h].at = "asking" PROVE Leads(h)'
    BY DEF Leading
  <2>2. h # g /\ gens'[h] = gens[h] /\ Leads(h)
    BY <2>1, <1>4, Shapes DEF LaneInv, Leading
  <2>3. gens[h] \in Generation /\ gens[h].variant \in Variant
    BY <2>1, <2>2, Shapes DEF LaneType
  <2>4. gens[h].variant # v
    BY <2>2, <1>1 DEF Leads, v
  <2>5. QED
    BY <2>2, <2>3, <2>4, <1>5 DEF Leads
<1>11. Controlled'
  <2>1. SUFFICES ASSUME NEW w \in Variant, controllers'[w] # NoGen
                 PROVE  /\ gens'[controllers'[w]].at \in {"queued", "asking"}
                        /\ gens'[controllers'[w]].variant = w
    BY DEF Controlled
  <2>2. w # v
    BY <2>1, <1>5
  <2>3. /\ controllers'[w] = controllers[w] /\ controllers[w] \in Gen
        /\ gens[controllers[w]].at \in {"queued", "asking"}
        /\ gens[controllers[w]].variant = w
    BY <2>1, <2>2, <1>5 DEF LaneInv, Controlled, LaneType
  <2>4. controllers[w] # g
    BY <2>2, <2>3 DEF v
  <2>5. QED
    BY <2>3, <2>4, <1>4
<1>12. Joinable'
  <2>1. SUFFICES ASSUME NEW w \in Variant, lane'[w] # <<>>
                 PROVE  jobs'[w] = lane'[w][Len(lane'[w])]
    BY DEF Joinable
  <2>2. CASE w # v
    BY <2>1, <2>2, <1>5 DEF LaneInv, Joinable
  <2>3. CASE w = v
    <3>1. Len(lane'[v]) \in Nat \ {0}
      BY <2>1, <2>3, <1>5, <1>6, Tails
    <3>2. Len(lane'[v]) \in 1..Len(lane'[v]) /\ Len(lane'[v]) + 1 = Len(lane[v])
      <4> DEFINE n == Len(lane'[v])
      <4> DEFINE m == Len(lane[v])
      <4>1. n \in Nat \ {0} /\ m \in Nat \ {0} /\ n = m - 1
        BY <3>1, <1>6
      <4> HIDE DEF n, m
      <4>2. n \in 1..n /\ n + 1 = m
        BY <4>1
      <4>3. QED
        BY <4>2 DEF n, m
    <3>3. lane'[v][Len(lane'[v])] = lane[v][Len(lane[v])] /\ Len(lane[v]) # 1
      BY <3>2, <1>6
    <3>4. jobs[v] = lane[v][Len(lane[v])]
      BY <1>1, <1>3 DEF LaneInv, Joinable
    <3>5. Len(lane[v]) \in 1..Len(lane[v])
      BY <1>6
    <3>6. jobs[v] # g
      BY <3>3, <3>4, <3>5, <1>1, <1>8
    <3>7. QED
      BY <3>3, <3>4, <3>6, <2>3, <1>5
  <2>4. QED
    BY <2>2, <2>3
<1>13. QED
  BY <1>1, <1>4, <1>7, <1>9, <1>10, <1>11, <1>12 DEF LaneInv

-----------------------------------------------------------------------------
(* The row and its loop.                                                   *)

LEMMA Numbers == Variant \subseteq Nat /\ 0 \notin Variant
BY VariantAssumption

LEMMA LoopShapes ==
  /\ Off.at = "off" /\ Off \notin Loop /\ NoRun.status = "none" /\ NoRun \notin Run
  /\ \A x \in Loop : x.at \in {"begin", "next", "waiting", "ok", "failed", "cancelled"} /\ x # Off
  /\ \A x \in Run : x.status \in Active \cup Terminal /\ x # NoRun
BY DEF Off, Loop, NoRun, Run, Active, Terminal

LEMMA LoopMoves ==
  ASSUME NEW x \in Loop, NEW y,
         NEW at \in {"begin", "next", "waiting", "ok", "failed", "cancelled"},
         y = [x EXCEPT !.at = at]
  PROVE  /\ y \in Loop /\ y.at = at
         /\ y.todo = x.todo /\ y.item = x.item /\ y.aborted = x.aborted
BY DEF Loop

\* Nothing of the run changes, but a request may hit its generation.
LEMMA RowStays ==
  ASSUME TypeOK, Row, Told, Accounts, UNCHANGED <<run, loop, made, told>>, hit => hit'
  PROVE  Row' /\ Told' /\ Accounts'
<1>1. Pending => Pending'
  BY DEF Pending, Rest
<1>2. Endings => Endings'
  BY DEF Endings
<1>3. QED
  BY <1>1, <1>2 DEF Row, Told, Accounts, Passed, Rest

\* The end of a generation, as its caller hears it.
LEMMA HearsStep ==
  ASSUME TypeOK, RestInv, NEW g \in Gen, Live(g), gens'[g] = Free,
         \A h \in Gen : h # g => gens'[h] = gens[h],
         NEW outcome \in {"ok", "failed", "cancelled"}, Hears(g, outcome),
         outcome = "cancelled" => gens[g].aborted,
         outcome = "ok" /\ g = Filler => gens[g].variant \in made',
         made \subseteq made', UNCHANGED <<run, hit, told>>
  PROVE  loop' \in {Off} \cup Loop /\ RestInv'
<1>1. CASE g # Filler
  <2>1. UNCHANGED loop /\ gens'[Filler] = gens[Filler]
    BY <1>1, Slots DEF Hears
  <2>2. Filling'
    <3>1. \A h \in Request : Live(h)' => gens'[h] = gens[h] /\ Live(h)
      BY Slots DEF Live
    <3>2. QED
      BY <2>1, <3>1 DEF RestInv, Filling, Live
  <2>3. Row'
    <3>1. Pending => Pending'
      BY <2>1 DEF Pending, Rest
    <3>2. Endings => Endings'
      BY <2>1 DEF Endings
    <3>3. QED
      BY <2>1, <3>1, <3>2 DEF RestInv, Row
  <2>4. Told' /\ Accounts'
    BY <2>1 DEF RestInv, Told, Accounts, Passed, Rest
  <2>5. QED
    BY <2>1, <2>2, <2>3, <2>4 DEF RestInv, TypeOK
<1>2. CASE g = Filler
  <2>1. loop.at = "waiting" /\ loop \in Loop /\ gens[Filler].variant = loop.item
        /\ (loop.aborted => gens[Filler].aborted) /\ (gens[Filler].aborted => hit \/ loop.aborted)
    BY <1>2, LoopShapes DEF RestInv, Filling, TypeOK
  <2>2. run # NoRun /\ Pending /\ Endings
    BY <2>1, LoopShapes DEF RestInv, Row
  <2> DEFINE at == IF outcome # "ok" /\ loop.aborted THEN "cancelled" ELSE outcome
  <2>3. loop' = [loop EXCEPT !.at = at] /\ at \in {"ok", "failed", "cancelled"}
    BY <1>2 DEF Hears
  <2>4. at = "cancelled" => hit \/ run.cancel
    BY <2>1, <2>2, <1>2, LoopShapes DEF Endings
  <2>5. at = "ok" => loop.item \in made'
    BY <1>2, <2>1
  <2> HIDE DEF at
  <2>6. loop' \in Loop /\ loop'.at = at /\ loop'.todo = loop.todo /\ loop'.item = loop.item
        /\ loop'.aborted = loop.aborted
    BY <2>1, <2>3, LoopMoves
  <2>7. Filling'
    <3>1. ~Live(Filler)' /\ loop'.at # "waiting"
      BY <1>2, <2>3, <2>6 DEF Live
    <3>2. \A h \in Request : gens'[h] = gens[h]
      BY <1>2, Slots
    <3>3. QED
      BY <3>1, <3>2 DEF RestInv, Filling, Live
  <2>8. Pending'
    BY <2>1, <2>2, <2>3, <2>6, LoopShapes DEF Pending, Rest
  <2>9. Endings'
    <3>1. UNCHANGED <<run, hit>>
      OBVIOUS
    <3>2. loop.aborted => run.cancel
      BY <2>1, <2>2, LoopShapes DEF Endings
    <3>3. loop'.aborted => run'.cancel
      BY <3>1, <3>2, <2>6
    <3>4. loop'.at = "cancelled" => hit' \/ run'.cancel
      BY <3>1, <2>4, <2>6
    <3>5. loop'.at = "ok" => loop'.item \in made'
      BY <2>5, <2>6
    <3>6. loop'.at # "begin"
      BY <2>3, <2>6
    <3>7. QED
      BY <3>3, <3>4, <3>5, <3>6 DEF Endings
  <2>10. Told' /\ Accounts'
    BY <2>6, <2>1, LoopShapes DEF RestInv, Told, Accounts, Passed, Rest
  <2>11. QED
    BY <2>2, <2>6, <2>7, <2>8, <2>9, <2>10 DEF RestInv, Row
<1>3. QED
  BY <1>1, <1>2

-----------------------------------------------------------------------------
(* The steps of a generation.                                              *)

\* A generation of a request changes nothing the run looks at.
LEMMA RequestStep ==
  ASSUME RestInv, NEW g \in Request, gens \in [Gen -> {Free} \cup Generation],
         \A h \in Gen : h # g => gens'[h] = gens[h],
         gens'[g] # Free => gens'[g].by # "run", UNCHANGED <<loop, hit>>
  PROVE  Filling'
<1>1. gens'[Filler] = gens[Filler]
  BY Slots
<1>2. \A h \in Request : Live(h)' => gens'[h].by # "run"
  BY Slots DEF RestInv, Filling, Live
<1>3. QED
  BY <1>1, <1>2 DEF RestInv, Filling, Live

LEMMA BeginStep ==
  ASSUME Inv, NEW g \in Gen, NEW v \in Variant, NEW by \in {"hand", "auto", "run"},
         Begin(g, v, by), UNCHANGED <<lane, controllers>>,
         jobs' \in [Variant -> Gen \cup {NoGen, Settled}],
         \A w \in Variant : lane[w] # <<>> => jobs'[w] = jobs[w]
  PROVE  /\ LaneType' /\ LaneInv' /\ gens[g] = Free
         /\ \A h \in Gen : h # g => gens'[h] = gens[h]
         /\ gens'[g].variant = v /\ gens'[g].by = by /\ ~gens'[g].aborted
         /\ gens'[g] # Free
<1> DEFINE x == [at |-> "preparing", variant |-> v, by |-> by, aborted |-> FALSE]
<1>1. x \in Generation /\ x.at = "preparing"
  BY DEF Generation
<1>2. LaneType /\ LaneInv
  BY TypeParts DEF Inv
<1>3. gens[g] = Free /\ gens' = [gens EXCEPT ![g] = x] /\ gens[g].at = "free"
  BY Shapes DEF Begin
<1> HIDE DEF x
<1>4. LaneType' /\ LaneInv'
  BY <1>1, <1>2, <1>3, OutsideStep
<1>5. gens'[g] = x /\ \A h \in Gen : h # g => gens'[h] = gens[h]
  BY <1>2, <1>3 DEF LaneType
<1>6. QED
  BY <1>1, <1>3, <1>4, <1>5, Shapes DEF x

LEMMA GenerateStep ==
  ASSUME Inv, NEW g \in Gen, NEW v \in Variant, Generate(g, v)
  PROVE  Inv'
<1>1. g \in Request /\ Begin(g, v, "hand") /\ UNCHANGED <<lane, controllers, jobs, run, loop, made, told, hit>>
  BY DEF Generate, history
<1>2. LaneType' /\ LaneInv' /\ (\A h \in Gen : h # g => gens'[h] = gens[h]) /\ gens'[g].by # "run"
  <2>1. /\ jobs' \in [Variant -> Gen \cup {NoGen, Settled}]
        /\ \A w \in Variant : lane[w] # <<>> => jobs'[w] = jobs[w]
        /\ "hand" \in {"hand", "auto", "run"}
    BY <1>1 DEF Inv, TypeOK
  <2>2. LaneType' /\ LaneInv' /\ (\A h \in Gen : h # g => gens'[h] = gens[h]) /\ gens'[g].by = "hand"
    BY <1>1, <2>1, BeginStep
  <2>3. QED
    BY <2>2
<1>3. Filling'
  BY <1>1, <1>2, RequestStep DEF Inv, TypeOK
<1>4. Row' /\ Told' /\ Accounts'
  BY <1>1, RowStays DEF Inv, RestInv
<1>5. RestType'
  BY TypeParts, BoundAssumption DEF Generate, Inv, RestType, Act, texts, history
<1>6. QED
  BY <1>2, <1>3, <1>4, <1>5, Together DEF RestInv

LEMMA EnsureStep ==
  ASSUME Inv, NEW g \in Gen, NEW v \in Variant, EnsureTargetJob(g, v)
  PROVE  Inv'
<1>1. /\ g \in Request /\ Begin(g, v, "auto") /\ jobs[v] = NoGen
      /\ jobs' = [jobs EXCEPT ![v] = g]
      /\ UNCHANGED <<lane, controllers, run, loop, made, told, hit>>
  BY DEF EnsureTargetJob, history
<1>2. lane[v] = <<>>
  <2>1. SUFFICES ASSUME lane[v] # <<>> PROVE FALSE
    OBVIOUS
  <2>2. lane[v] \in Seq(Gen) /\ jobs[v] = lane[v][Len(lane[v])]
    BY <2>1 DEF Inv, TypeOK, LaneInv, Joinable
  <2>3. Len(lane[v]) \in 1..Len(lane[v])
    BY <2>1, <2>2, Tails
  <2>4. jobs[v] \in Gen
    BY <2>2, <2>3, Members
  <2>5. QED
    BY <2>4, <1>1, Slots
<1>3. /\ jobs' \in [Variant -> Gen \cup {NoGen, Settled}]
      /\ \A w \in Variant : lane[w] # <<>> => jobs'[w] = jobs[w]
      /\ "auto" \in {"hand", "auto", "run"}
  BY <1>1, <1>2 DEF Inv, TypeOK
<1>4. LaneType' /\ LaneInv' /\ (\A h \in Gen : h # g => gens'[h] = gens[h]) /\ gens'[g].by # "run"
  <2>1. LaneType' /\ LaneInv' /\ (\A h \in Gen : h # g => gens'[h] = gens[h]) /\ gens'[g].by = "auto"
    BY <1>1, <1>3, BeginStep
  <2>2. QED
    BY <2>1
<1>5. Filling'
  BY <1>1, <1>4, RequestStep DEF Inv, TypeOK
<1>6. Row' /\ Told' /\ Accounts'
  BY <1>1, RowStays DEF Inv, RestInv
<1>7. RestType'
  BY TypeParts, BoundAssumption DEF EnsureTargetJob, Inv, RestType, Act, texts, history
<1>8. QED
  BY <1>4, <1>5, <1>6, <1>7, Together DEF RestInv

LEMMA PreparedKeeps ==
  ASSUME Inv, NEW g \in Gen, Prepared(g)
  PROVE  Inv'
<1>1. /\ LaneType' /\ LaneInv'
      /\ gens[g] \in Generation /\ gens'[g] # Free
      /\ gens'[g].variant = gens[g].variant /\ gens'[g].by = gens[g].by
      /\ gens'[g].aborted = gens[g].aborted
      /\ \A h \in Gen : h # g => gens'[h] = gens[h]
  BY PreparedStep, TypeParts DEF Inv
<1>2. UNCHANGED <<run, loop, made, told, hit>>
  BY DEF Prepared, history
<1>3. Filling'
  <2>1. Live(g) /\ Live(g)' /\ \A h \in Gen : Live(h)' => Live(h) /\ gens'[h].by = gens[h].by
    BY <1>1, Shapes DEF Live
  <2>2. \A h \in Request : Live(h)' => gens'[h].by # "run"
    BY <2>1, Slots DEF Inv, RestInv, Filling
  <2>3. /\ Live(Filler)' <=> Live(Filler)
        /\ gens'[Filler].aborted = gens[Filler].aborted
        /\ gens'[Filler].variant = gens[Filler].variant
        /\ gens'[Filler].by = gens[Filler].by
    BY <1>1, <2>1, Slots DEF Live
  <2>4. UNCHANGED <<loop, hit>> /\ Filling
    BY DEF Prepared, history, Inv, RestInv
  <2>5. QED
    BY <2>2, <2>3, <2>4 DEF Filling
<1>4. Row' /\ Told' /\ Accounts'
  BY <1>2, RowStays DEF Inv, RestInv
<1>5. RestType'
  BY TypeParts DEF Prepared, Inv, RestType, texts, history
<1>6. QED
  BY <1>1, <1>3, <1>4, <1>5, Together DEF RestInv

LEMMA PrepareFailsKeeps ==
  ASSUME Inv, NEW g \in Gen, PrepareFails(g)
  PROVE  Inv'
<1>1. /\ gens[g].at = "preparing" /\ gens' = [gens EXCEPT ![g] = Free] /\ Hears(g, "failed")
      /\ jobs' = [v \in Variant |-> IF jobs[v] = g THEN Settled ELSE jobs[v]]
      /\ UNCHANGED <<lane, controllers, run, made, told, hit>>
  BY DEF PrepareFails, history
<1>2. LaneType /\ LaneInv /\ gens'[g] = Free /\ (\A h \in Gen : h # g => gens'[h] = gens[h])
  BY <1>1, TypeParts DEF Inv, LaneType
<1>3. \A v \in Variant : lane[v] # <<>> => jobs'[v] = jobs[v]
  <2>1. SUFFICES ASSUME NEW v \in Variant, lane[v] # <<>>, jobs[v] = g PROVE FALSE
    BY <1>1
  <2>2. lane[v] \in Seq(Gen) /\ lane[v][Len(lane[v])] = g
    BY <2>1, <1>2 DEF LaneType, LaneInv, Joinable
  <2>3. Len(lane[v]) \in 1..Len(lane[v])
    BY <2>1, <2>2, Tails
  <2>4. gens[g].at \in {"queued", "asking"}
    BY <2>2, <2>3, <1>2 DEF LaneInv, Lanes
  <2>5. QED
    BY <2>4, <1>1
<1>4. LaneType' /\ LaneInv'
  <2>1. jobs' \in [Variant -> Gen \cup {NoGen, Settled}]
    BY <1>1, <1>2 DEF LaneType
  <2>2. Free.at = "free"
    BY Shapes
  <2>3. QED
    BY <1>1, <1>2, <1>3, <2>1, <2>2, OutsideStep
<1>5. Live(g)
  BY <1>1, Shapes DEF Live
<1>6. loop' \in {Off} \cup Loop /\ RestInv'
  BY <1>1, <1>2, <1>5, HearsStep DEF Inv
<1>7. RestType'
  BY <1>6, TypeParts DEF PrepareFails, Inv, RestType, texts, history
<1>8. QED
  BY <1>4, <1>6, <1>7, Together

LEMMA TurnKeeps ==
  ASSUME Inv, NEW g \in Gen, Turn(g)
  PROVE  Inv'
<1>1. /\ gens[g].at = "queued" /\ Leads(g) /\ UNCHANGED <<texts, record, run, acts, faults, made, told, hit>>
      /\ LaneType /\ LaneInv /\ RestType
  BY TypeParts DEF Turn, history, Inv
<1>2. gens[g] \in Generation /\ Live(g) /\ gens[g].variant \in Variant
  BY <1>1, Shapes DEF LaneType, Live
<1>3. CASE gens[g].aborted \/ content[gens[g].variant] = 0
  <2>1. Leave(g)
    BY <1>3 DEF Turn
  <2>2. PICK outcome \in {"failed", "cancelled"} :
          Hears(g, outcome) /\ (outcome = "cancelled" => gens[g].aborted)
    BY <1>3 DEF Turn
  <2>3. /\ LaneType' /\ LaneInv' /\ gens'[g] = Free
        /\ \A h \in Gen : h # g => gens'[h] = gens[h]
    BY <1>1, <2>1, LeaveStep
  <2>4. loop' \in {Off} \cup Loop /\ RestInv'
    BY <1>1, <1>2, <2>2, <2>3, HearsStep DEF Inv
  <2>5. RestType'
    BY <1>1, <2>4 DEF RestType, texts
  <2>6. QED
    BY <2>3, <2>4, <2>5, Together
<1>4. CASE ~(gens[g].aborted \/ content[gens[g].variant] = 0)
  <2> DEFINE x == [at |-> "asking", variant |-> gens[g].variant, by |-> gens[g].by,
                   aborted |-> FALSE, source |-> content[gens[g].variant],
                   schema |-> config.schema]
  <2>1. gens' = [gens EXCEPT ![g] = x] /\ UNCHANGED <<lane, controllers, jobs, loop>>
    BY <1>4 DEF Turn
  <2>2. x \in Generation /\ x.at = "asking" /\ x.variant = gens[g].variant
        /\ x.by = gens[g].by /\ x.aborted = gens[g].aborted
    BY <1>1, <1>2, <1>4, Shapes DEF RestType, Generation
  <2> HIDE DEF x
  <2>3. LaneType' /\ LaneInv'
    BY <1>1, <2>1, <2>2, AskStep
  <2>4. gens'[g] = x /\ x # Free /\ \A h \in Gen : h # g => gens'[h] = gens[h]
    BY <1>1, <2>1, <2>2, Shapes DEF LaneType
  <2>5. Filling'
    <3>1. \A h \in Gen : /\ Live(h)' <=> Live(h)
                         /\ gens'[h].by = gens[h].by /\ gens'[h].aborted = gens[h].aborted
                         /\ gens'[h].variant = gens[h].variant
      BY <1>2, <2>2, <2>4 DEF Live
    <3>2. QED
      BY <1>1, <2>1, <3>1, Slots DEF Inv, RestInv, Filling
  <2>6. Row' /\ Told' /\ Accounts'
    BY <1>1, <2>1, RowStays DEF Inv, RestInv
  <2>7. RestType'
    BY <1>1, <2>1 DEF RestType, texts
  <2>8. QED
    BY <2>3, <2>5, <2>6, <2>7, Together DEF RestInv
<1>5. QED
  BY <1>3, <1>4

LEMMA AnswerKeeps ==
  ASSUME Inv, NEW g \in Gen, Answer(g)
  PROVE  Inv'
<1>1. /\ gens[g].at = "asking" /\ Hears(g, "ok") /\ Leave(g)
      /\ made' = IF g = Filler THEN made \cup {gens[g].variant} ELSE made
      /\ record' = [record EXCEPT ![gens[g].variant] =
                     [by |-> gens[g].by, source |-> gens[g].source, schema |-> gens[g].schema]]
      /\ UNCHANGED <<texts, run, acts, faults, told, hit>>
      /\ LaneType /\ LaneInv /\ RestType
  BY TypeParts DEF Answer, Inv
<1>2. gens[g] \in Generation /\ Live(g) /\ gens[g].variant \in Variant /\ Leads(g)
  BY <1>1, Shapes DEF LaneType, LaneInv, Live, Leading
<1>3. /\ LaneType' /\ LaneInv' /\ gens'[g] = Free
      /\ \A h \in Gen : h # g => gens'[h] = gens[h]
  BY <1>1, <1>2, LeaveStep
<1>4. loop' \in {Off} \cup Loop /\ RestInv'
  BY <1>1, <1>2, <1>3, HearsStep DEF Inv
<1>5. RestType'
  <2>1. [by |-> gens[g].by, source |-> gens[g].source, schema |-> gens[g].schema]
          \in [by : {"hand", "auto", "run", "edit"}, source : Nat, schema : Schema]
    BY <1>1, <1>2, Shapes
  <2>2. record' \in [Variant -> {NoRecord}
                   \cup [by : {"hand", "auto", "run", "edit"}, source : Nat, schema : Schema]]
    BY <1>1, <1>2, <2>1 DEF RestType
  <2>3. QED
    BY <1>1, <1>2, <1>4, <2>2 DEF RestType, texts
<1>6. QED
  BY <1>3, <1>4, <1>5, Together

LEMMA AnswerFailsKeeps ==
  ASSUME Inv, NEW g \in Gen, AnswerFails(g)
  PROVE  Inv'
<1>1. /\ gens[g].at = "asking" /\ Leave(g)
      /\ UNCHANGED <<texts, record, run, acts, faults, made, told, hit>>
      /\ LaneType /\ LaneInv /\ RestType
  BY TypeParts DEF AnswerFails, Inv, history
<1>2. gens[g] \in Generation /\ Live(g) /\ Leads(g)
  BY <1>1, Shapes DEF LaneType, LaneInv, Live, Leading
<1>3. PICK outcome \in {"failed", "cancelled"} :
        Hears(g, outcome) /\ (outcome = "cancelled" => gens[g].aborted)
  BY DEF AnswerFails
<1>4. /\ LaneType' /\ LaneInv' /\ gens'[g] = Free
      /\ \A h \in Gen : h # g => gens'[h] = gens[h]
  BY <1>1, <1>2, LeaveStep
<1>5. loop' \in {Off} \cup Loop /\ RestInv'
  BY <1>1, <1>2, <1>3, <1>4, HearsStep DEF Inv
<1>6. RestType'
  BY <1>1, <1>5 DEF RestType, texts
<1>7. QED
  BY <1>4, <1>5, <1>6, Together

LEMMA CancelTargetKeeps ==
  ASSUME Inv, NEW v \in Variant, CancelTarget(v)
  PROVE  Inv'
<1> DEFINE g == controllers[v]
<1>1. /\ g # NoGen /\ gens' = [gens EXCEPT ![g].aborted = TRUE]
      /\ hit' = (hit \/ g = Filler)
      /\ UNCHANGED <<lane, controllers, jobs, run, loop, made, told>>
      /\ LaneType /\ LaneInv /\ RestType
  BY TypeParts DEF CancelTarget, Inv
<1>2. g \in Gen /\ gens[g].at \in {"queued", "asking"}
  BY <1>1 DEF LaneType, LaneInv, Controlled
<1>3. Live(g)
  BY <1>2, Shapes DEF Live
<1> HIDE DEF g
<1>4. /\ LaneType' /\ LaneInv'
      /\ \A h \in Gen : h # g => gens'[h] = gens[h]
      /\ gens'[g].aborted /\ gens'[g].variant = gens[g].variant
      /\ gens'[g].by = gens[g].by /\ gens'[g] # Free
  BY <1>1, <1>2, <1>3, AbortStep
<1>5. Filling'
  <2>1. \A h \in Gen : /\ Live(h)' <=> Live(h)
                       /\ gens'[h].by = gens[h].by /\ gens'[h].variant = gens[h].variant
                       /\ gens[h].aborted => gens'[h].aborted
    BY <1>3, <1>4 DEF Live
  <2>2. gens'[Filler].aborted => hit' \/ gens[Filler].aborted
    BY <1>1, <1>4, Slots
  <2>3. Filling /\ UNCHANGED loop /\ (hit => hit') /\ Filler \in Gen /\ Request \subseteq Gen
    BY <1>1, Slots DEF Inv, RestInv
  <2>4. Live(Filler)' => (gens'[Filler].aborted => hit' \/ loop'.aborted)
    BY <2>1, <2>2, <2>3 DEF Filling
  <2>5. Live(Filler)' <=> loop'.at = "waiting"
    BY <2>1, <2>3 DEF Filling
  <2>6. Live(Filler)' => /\ gens'[Filler].variant = loop'.item /\ gens'[Filler].by = "run"
                         /\ loop'.aborted => gens'[Filler].aborted
    BY <2>1, <2>3 DEF Filling
  <2>7. \A h \in Request : Live(h)' => gens'[h].by # "run"
    BY <2>1, <2>3 DEF Filling
  <2>8. QED
    BY <2>4, <2>5, <2>6, <2>7 DEF Filling
<1>6. Row' /\ Told' /\ Accounts'
  BY <1>1, RowStays DEF Inv, RestInv
<1>7. RestType'
  BY <1>1, BoundAssumption DEF CancelTarget, RestType, Act, texts
<1>8. QED
  BY <1>4, <1>5, <1>6, <1>7, Together DEF RestInv

LEMMA DisconnectKeeps ==
  ASSUME Inv, NEW g \in Gen, Disconnect(g)
  PROVE  Inv'
<1>1. /\ Live(g) /\ gens[g].by = "hand" /\ gens' = [gens EXCEPT ![g].aborted = TRUE]
      /\ UNCHANGED <<lane, controllers, jobs, run, loop, made, told, hit>>
      /\ LaneType /\ LaneInv /\ RestType
  BY TypeParts DEF Disconnect, Inv, history
<1>2. /\ LaneType' /\ LaneInv'
      /\ \A h \in Gen : h # g => gens'[h] = gens[h]
      /\ gens'[g].by = gens[g].by
  BY <1>1, AbortStep
<1>3. g \in Request
  BY <1>1 DEF Gen, Inv, RestInv, Filling
<1>4. Filling'
  BY <1>1, <1>2, <1>3, RequestStep DEF Inv, LaneType
<1>5. Row' /\ Told' /\ Accounts'
  BY <1>1, RowStays DEF Inv, RestInv
<1>6. RestType'
  BY <1>1, BoundAssumption DEF Disconnect, RestType, Act, texts, history
<1>7. QED
  BY <1>2, <1>4, <1>5, <1>6, Together DEF RestInv

-----------------------------------------------------------------------------
(* Records, texts and the configuration.                                   *)

LEMMA WorkStays ==
  ASSUME Inv, UNCHANGED <<working, run, loop, history>>, RestType'
  PROVE  Inv'
<1>1. LaneType'
  BY DEF Inv, TypeOK, LaneType, working
<1>2. LaneInv'
  BY DEF Inv, LaneInv, Lanes, Leading, Leads, Controlled, Joinable, working
<1>3. Filling'
  BY DEF Inv, RestInv, Filling, Live, working, history
<1>4. UNCHANGED <<run, loop, made, told, hit>>
  BY DEF history
<1>5. Row' /\ Told' /\ Accounts'
  BY <1>4, RowStays DEF Inv, RestInv
<1>6. QED
  BY <1>1, <1>2, <1>3, <1>5, Together DEF RestInv

LEMMA EditingKeeps ==
  ASSUME Inv, Editing
  PROVE  Inv'
<1>1. RestType
  BY TypeParts DEF Inv
<1>2. ASSUME NEW v \in Variant, EditScene(v) PROVE Inv'
  <2>1. [by |-> "edit", source |-> content[v], schema |-> config.schema]
          \in [by : {"hand", "auto", "run", "edit"}, source : Nat, schema : Schema]
    BY <1>1 DEF RestType
  <2>2. record' \in [Variant -> {NoRecord}
                   \cup [by : {"hand", "auto", "run", "edit"}, source : Nat, schema : Schema]]
    BY <1>1, <1>2, <2>1 DEF RestType, EditScene
  <2>3. RestType'
    BY <1>1, <1>2, <2>2 DEF EditScene, RestType, Act, texts, history
  <2>4. QED
    BY <1>2, <2>3, WorkStays DEF EditScene
<1>3. ASSUME NEW v \in Variant, DeleteScene(v) PROVE Inv'
  <2>1. RestType'
    BY <1>1, <1>3 DEF DeleteScene, RestType, Act, texts, history
  <2>2. QED
    BY <1>3, <2>1, WorkStays DEF DeleteScene
<1>4. ASSUME NEW v \in Variant, EditMessage(v) PROVE Inv'
  <2>1. RestType'
    BY <1>1, <1>4 DEF EditMessage, RestType, Act, history
  <2>2. QED
    BY <1>4, <2>1, WorkStays DEF EditMessage
<1>5. ASSUME NEW v \in Variant, DeleteMessage(v) PROVE Inv'
  <2>1. RestType'
    BY <1>1, <1>5 DEF DeleteMessage, RestType, Act, history
  <2>2. QED
    BY <1>5, <2>1, WorkStays DEF DeleteMessage
<1>6. ASSUME NEW s \in Schema, SaveConfig(s) PROVE Inv'
  <2>1. RestType'
    BY <1>1, <1>6 DEF SaveConfig, RestType, Act, history
  <2>2. QED
    BY <1>6, <2>1, WorkStays DEF SaveConfig
<1>7. QED
  BY <1>2, <1>3, <1>4, <1>5, <1>6 DEF Editing

-----------------------------------------------------------------------------
(* The history run.                                                        *)

LEMMA IdleLoop ==
  ASSUME Inv, UNCHANGED working, loop.at # "waiting", loop'.at # "waiting"
  PROVE  LaneType' /\ LaneInv' /\ Filling'
<1>1. LaneType'
  BY DEF Inv, TypeOK, LaneType, working
<1>2. LaneInv'
  BY DEF Inv, LaneInv, Lanes, Leading, Leads, Controlled, Joinable, working
<1>3. Filling'
  BY DEF Inv, RestInv, Filling, Live, working
<1>4. QED
  BY <1>1, <1>2, <1>3

LEMMA Kicked ==
  ASSUME NEW todo \in SUBSET Variant, Kick(todo)
  PROVE  /\ loop' \in Loop /\ loop'.at = "begin" /\ loop'.todo = todo
         /\ ~loop'.aborted /\ ~told' /\ told' \in BOOLEAN /\ loop' # Off
BY LoopShapes DEF Kick, Loop

LEMMA StartBackfillKeeps ==
  ASSUME Inv, NEW fill \in BOOLEAN, StartBackfill(fill)
  PROVE  Inv'
<1> DEFINE items == {v \in Variant : content[v] # 0 /\ (fill => record[v] = NoRecord)}
<1>1. /\ run' = [status |-> IF items = {} THEN "completed" ELSE "pending", fill |-> fill,
                 items |-> items, source |-> content, revision |-> config.revision,
                 cursor |-> 0, errors |-> {}, cancel |-> FALSE]
      /\ IF items = {} THEN UNCHANGED <<loop, told>> ELSE Kick(items)
      /\ made' = {} /\ hit' = FALSE /\ loop = Off
      /\ UNCHANGED <<texts, record, working, faults>>
  BY DEF StartBackfill
<1>2. items \subseteq Variant
  OBVIOUS
<1> HIDE DEF items
<1>3. RestType
  BY TypeParts DEF Inv
<1>4. /\ run' \in Run /\ run' # NoRun /\ run'.items = items /\ run'.cursor = 0
      /\ run'.errors = {} /\ run'.status = (IF items = {} THEN "completed" ELSE "pending")
  <2>1. run' \in Run
    BY <1>1, <1>2, <1>3 DEF Run, RestType, Active, Terminal
  <2>2. QED
    BY <1>1, <2>1, LoopShapes
<1>5. (items # {} => loop' \in Loop /\ loop'.at = "begin" /\ loop'.todo = items /\ ~loop'.aborted
                     /\ ~told' /\ told' \in BOOLEAN)
      /\ (items = {} => loop' = Off /\ told' = told)
  BY <1>1, <1>2, Kicked
<1>6. LaneType' /\ LaneInv' /\ Filling'
  BY <1>1, <1>5, IdleLoop, LoopShapes
<1>7. Row'
  <2>1. CASE items = {}
    BY <2>1, <1>4, <1>5, LoopShapes DEF Row, Pending, Endings, Rest
  <2>2. CASE items # {}
    BY <2>2, <1>4, <1>5, LoopShapes DEF Row, Pending, Endings, Rest
  <2>3. QED
    BY <2>1, <2>2
<1>8. Told'
  BY <1>5 DEF Told
<1>9. Accounts'
  <2>1. Passed' = {}
    <3>1. SUFFICES ASSUME NEW v \in items, v <= 0 PROVE FALSE
      BY <1>4 DEF Passed
    <3>2. v \in Nat /\ v # 0
      BY <1>2, <3>1, Numbers
    <3>3. QED
      BY <3>1, <3>2
  <2>2. run'.status = "completed" => Rest' = {}
    BY <1>4 DEF Rest
  <2>3. QED
    BY <2>1, <2>2, <1>4 DEF Accounts
<1>10. RestType'
  <2>1. loop' \in {Off} \cup Loop /\ told' \in BOOLEAN
    BY <1>3, <1>5 DEF RestType
  <2>2. acts' \in Nat
    BY <1>3 DEF StartBackfill, Act, RestType
  <2>3. QED
    BY <1>1, <1>3, <1>4, <2>1, <2>2 DEF RestType, texts
<1>11. QED
  BY <1>6, <1>7, <1>8, <1>9, <1>10, Together DEF RestInv

LEMMA FinalStatus == Finalized \in {"cancelled", "completed"} /\ (Finalized = "completed" => ~run.cancel)
BY DEF Finalized

LEMMA Ended ==
  ASSUME NEW x \in Run, NEW y, NEW status \in Active \cup Terminal,
         y = [x EXCEPT !.status = status]
  PROVE  /\ y \in Run /\ y.status = status /\ y.items = x.items /\ y.cursor = x.cursor
         /\ y.errors = x.errors /\ y.cancel = x.cancel
BY DEF Run

\* What there is of an active run is not the run that is not there.
LEMMA HasRun ==
  ASSUME RestType, run # NoRun
  PROVE  /\ run \in Run /\ run.items \subseteq Variant /\ run.errors \subseteq Variant
         /\ run.cursor \in Nat /\ run.cancel \in BOOLEAN
         /\ Rest \subseteq run.items /\ Passed \subseteq run.items
BY DEF RestType, Run, Rest, Passed

LEMMA PollKeeps ==
  ASSUME Inv, Poll
  PROVE  Inv'
<1>1. /\ run.status \in Active /\ loop = Off
      /\ UNCHANGED <<texts, record, working, acts, faults, made, hit>>
      /\ RestType
  BY TypeParts DEF Poll, Inv
<1>2. run # NoRun
  BY <1>1, LoopShapes DEF Active
<1>3. Pending /\ Endings
  BY <1>2 DEF Inv, RestInv, Row
<1>4. CASE Rest = {}
  <2>1. run' = [run EXCEPT !.status = Finalized] /\ UNCHANGED <<loop, told>>
    BY <1>4 DEF Poll
  <2>2. /\ run' \in Run /\ run' # NoRun /\ run'.items = run.items /\ run'.cursor = run.cursor
        /\ run'.errors = run.errors /\ run'.cancel = run.cancel
    BY <2>1, <1>1, <1>2, HasRun, Ended, FinalStatus, LoopShapes DEF Terminal
  <2>3. LaneType' /\ LaneInv' /\ Filling'
    BY <1>1, <2>1, IdleLoop, LoopShapes
  <2>4. Row'
    BY <1>1, <1>3, <2>1, <2>2, LoopShapes DEF Row, Pending, Endings, Rest
  <2>5. Told' /\ Accounts'
    BY <1>1, <1>2, <1>4, <2>1, <2>2 DEF Inv, RestInv, Told, Accounts, Passed, Rest
  <2>6. RestType'
    BY <1>1, <2>1, <2>2 DEF RestType, texts
  <2>7. QED
    BY <2>3, <2>4, <2>5, <2>6, Together DEF RestInv
<1>5. CASE Rest # {}
  <2>1. Kick(Rest) /\ UNCHANGED run
    BY <1>5 DEF Poll
  <2>2. Rest \subseteq Variant /\ Rest \subseteq run.items
    BY <1>1, <1>2, HasRun
  <2>3. /\ loop' \in Loop /\ loop'.at = "begin" /\ loop'.todo = Rest
        /\ ~loop'.aborted /\ ~told' /\ told' \in BOOLEAN
    BY <2>1, <2>2, Kicked
  <2>4. LaneType' /\ LaneInv' /\ Filling'
    BY <1>1, <2>3, IdleLoop, LoopShapes
  <2>5. Row'
    BY <1>2, <1>3, <2>1, <2>2, <2>3, LoopShapes DEF Row, Pending, Endings, Rest
  <2>6. Told' /\ Accounts'
    BY <1>1, <2>1, <2>3 DEF Inv, RestInv, Told, Accounts, Passed, Rest
  <2>7. RestType'
    BY <1>1, <2>1, <2>3 DEF RestType, texts
  <2>8. QED
    BY <2>4, <2>5, <2>6, <2>7, Together DEF RestInv
<1>6. QED
  BY <1>4, <1>5

LEMMA RetryKeeps ==
  ASSUME Inv, RetryBackfill
  PROVE  Inv'
<1>1. /\ run.status \in Terminal /\ loop = Off /\ Kick(run.errors \cup Rest)
      /\ UNCHANGED <<texts, record, working, run, faults, made, hit>>
      /\ RestType
  BY TypeParts DEF RetryBackfill, Inv
<1>2. run # NoRun
  BY <1>1, LoopShapes DEF Terminal
<1>3. Pending /\ Endings
  BY <1>2 DEF Inv, RestInv, Row
<1>4. run.errors \cup Rest \subseteq Variant /\ run.errors \cup Rest \subseteq run.items
  BY <1>1, <1>2, <1>3, HasRun DEF Pending
<1>5. /\ loop' \in Loop /\ loop'.at = "begin" /\ loop'.todo = run.errors \cup Rest
      /\ ~loop'.aborted /\ ~told' /\ told' \in BOOLEAN
  BY <1>1, <1>4, Kicked
<1>6. LaneType' /\ LaneInv' /\ Filling'
  BY <1>1, <1>5, IdleLoop, LoopShapes
<1>7. Row'
  BY <1>1, <1>2, <1>3, <1>4, <1>5, LoopShapes DEF Row, Pending, Endings, Rest
<1>8. Told' /\ Accounts'
  BY <1>1, <1>5 DEF Inv, RestInv, Told, Accounts, Passed, Rest
<1>9. RestType'
  BY <1>1, <1>5, BoundAssumption DEF RetryBackfill, Act, RestType, texts
<1>10. QED
  BY <1>6, <1>7, <1>8, <1>9, Together DEF RestInv

LEMMA CancelBackfillKeeps ==
  ASSUME Inv, CancelBackfill
  PROVE  Inv'
<1>1. /\ run # NoRun /\ run' = [run EXCEPT !.cancel = TRUE]
      /\ UNCHANGED <<texts, record, lane, controllers, jobs, faults, made, hit>>
      /\ LaneType /\ LaneInv /\ RestType
  BY TypeParts DEF CancelBackfill, Inv
<1>2. Pending /\ Endings /\ run \in Run
  BY <1>1, HasRun DEF Inv, RestInv, Row
<1>3. /\ run' \in Run /\ run' # NoRun /\ run'.items = run.items /\ run'.cursor = run.cursor
      /\ run'.errors = run.errors /\ run'.status = run.status /\ run'.cancel
  BY <1>1, <1>2, LoopShapes DEF Run
<1>4. Accounts'
  BY <1>1, <1>3 DEF Inv, RestInv, Accounts, Passed, Rest
<1>5. acts' \in Nat
  BY <1>1 DEF CancelBackfill, Act, RestType
<1>6. CASE loop = Off
  <2>1. UNCHANGED <<loop, gens, told>>
    BY <1>6 DEF CancelBackfill
  <2>2. LaneType' /\ LaneInv' /\ Filling'
    BY <1>1, <1>6, <2>1, IdleLoop, LoopShapes DEF working
  <2>3. Row' /\ Told'
    BY <1>1, <1>2, <1>3, <1>6, <2>1, LoopShapes DEF Inv, RestInv, Row, Told, Pending, Endings, Rest
  <2>4. RestType'
    BY <1>1, <1>3, <1>5, <2>1 DEF RestType, texts
  <2>5. QED
    BY <1>4, <2>2, <2>3, <2>4, Together DEF RestInv
<1>7. CASE loop # Off
  <2>1. /\ loop' = [loop EXCEPT !.aborted = TRUE] /\ told'
        /\ gens' = IF Live(Filler) THEN [gens EXCEPT ![Filler].aborted = TRUE] ELSE gens
        /\ told' = TRUE /\ loop.at \in {"off", "waiting"}
    BY <1>7 DEF CancelBackfill, Act, Quiet
  <2>2. loop \in Loop /\ loop.at = "waiting"
    BY <1>1, <1>7, <2>1, LoopShapes DEF RestType
  <2>3. /\ loop' \in Loop /\ loop'.at = "waiting" /\ loop'.todo = loop.todo
        /\ loop'.item = loop.item /\ loop'.aborted
    BY <2>1, <2>2 DEF Loop
  <2>4. Live(Filler) /\ Filling /\ Filler \in Gen
    BY <2>2, Slots DEF Inv, RestInv, Filling
  <2>5. gens' = [gens EXCEPT ![Filler].aborted = TRUE] /\ UNCHANGED <<lane, controllers, jobs>>
    BY <1>1, <2>1, <2>4
  <2>6. /\ LaneType' /\ LaneInv'
        /\ \A h \in Gen : h # Filler => gens'[h] = gens[h]
        /\ gens'[Filler].aborted /\ gens'[Filler].variant = gens[Filler].variant
        /\ gens'[Filler].by = gens[Filler].by /\ gens'[Filler] # Free
    BY <1>1, <2>4, <2>5, AbortStep
  <2>7. Filling'
    <3>1. Live(Filler)' /\ \A h \in Request : gens'[h] = gens[h]
      BY <2>6, Slots DEF Live
    <3>2. QED
      BY <2>3, <2>4, <2>6, <3>1, <2>2 DEF Filling, Live
  <2>8. Pending'
    BY <1>2, <1>3, <2>2, <2>3, LoopShapes DEF Pending, Rest
  <2>9. Endings'
    BY <1>3, <2>3, LoopShapes DEF Endings
  <2>10. Row' /\ Told'
    BY <1>3, <2>3, <2>8, <2>9 DEF Row, Told
  <2>11. RestType'
    BY <1>1, <1>3, <1>5, <2>1, <2>3 DEF RestType, texts
  <2>12. QED
    BY <1>4, <2>6, <2>7, <2>10, <2>11, Together DEF RestInv
<1>8. QED
  BY <1>6, <1>7

\* A step of the loop finds its run.
LEMMA InLoop ==
  ASSUME Inv, loop.at # "off"
  PROVE  /\ loop \in Loop /\ run # NoRun /\ run \in Run /\ Pending /\ Endings /\ RestType
         /\ run.items \subseteq Variant /\ Rest \subseteq run.items /\ loop # Off
BY TypeParts, HasRun, LoopShapes DEF Inv, RestInv, Row, RestType

LEMMA LoopBeginsKeeps ==
  ASSUME Inv, LoopBegins
  PROVE  Inv'
<1>1. /\ loop.at = "begin" /\ hit' = FALSE
      /\ run' = [run EXCEPT !.status = "running", !.cancel = FALSE]
      /\ loop' = [loop EXCEPT !.at = "next"]
      /\ UNCHANGED <<texts, record, working, acts, faults, made, told>>
  BY DEF LoopBegins
<1>2. /\ loop \in Loop /\ run # NoRun /\ run \in Run /\ Pending /\ Endings /\ RestType
      /\ Rest \subseteq run.items /\ ~loop.aborted
  BY <1>1, InLoop DEF Endings
<1>3. /\ loop' \in Loop /\ loop'.at = "next" /\ loop'.todo = loop.todo /\ loop'.item = loop.item
      /\ loop'.aborted = loop.aborted
  BY <1>1, <1>2, LoopMoves
<1>4. /\ run' \in Run /\ run' # NoRun /\ run'.items = run.items /\ run'.cursor = run.cursor
      /\ run'.errors = run.errors /\ run'.status = "running"
  BY <1>1, <1>2, LoopShapes DEF Run, Active
<1>5. LaneType' /\ LaneInv' /\ Filling'
  BY <1>1, <1>3, IdleLoop
<1>6. Row'
  BY <1>1, <1>2, <1>3, <1>4, LoopShapes DEF Row, Pending, Endings, Rest
<1>7. Told' /\ Accounts'
  BY <1>1, <1>2, <1>3, <1>4, LoopShapes DEF Inv, RestInv, Told, Accounts, Passed, Rest
<1>8. RestType'
  BY <1>1, <1>2, <1>3, <1>4 DEF RestType, texts
<1>9. QED
  BY <1>5, <1>6, <1>7, <1>8, Together DEF RestInv

\* The item that is taken is the first of those that are left.
LEMMA Taken ==
  ASSUME Inv, NEW v \in Variant, LoopGoesOn(v)
  PROVE  /\ loop.at = "next" /\ ~loop.aborted /\ v \in run.items
         /\ \A w \in loop.todo \ {v} : v < w
         /\ Rest \subseteq (loop.todo \ {v}) \cup {v}
<1>1. /\ loop.at = "next" /\ v \in loop.todo /\ ~loop.aborted
      /\ \A w \in loop.todo : v <= w
  BY DEF LoopGoesOn
<1>2. /\ loop \in Loop /\ Pending
      /\ run.items \subseteq Variant /\ loop # Off
  BY <1>1, InLoop
<1>3. loop.todo \subseteq run.items /\ Rest \subseteq loop.todo
  BY <1>1, <1>2 DEF Pending
<1>4. \A w \in loop.todo \ {v} : v < w
  <2>1. SUFFICES ASSUME NEW w \in loop.todo, w # v PROVE v < w
    OBVIOUS
  <2>2. v <= w /\ v \in Nat /\ w \in Nat
    BY <1>1, <1>2, <1>3, Numbers
  <2>3. QED
    BY <2>1, <2>2
<1>5. QED
  BY <1>1, <1>3, <1>4

LEMMA LoopPassesKeeps ==
  ASSUME Inv, NEW v \in Variant, LoopPasses(v)
  PROVE  Inv'
<1>1. /\ LoopGoesOn(v)
      /\ loop' = [loop EXCEPT !.at = IF Changed(v) THEN "failed" ELSE "ok",
                              !.todo = loop.todo \ {v}, !.item = v]
      /\ made' = IF Changed(v) THEN made ELSE made \cup {v}
      /\ UNCHANGED <<texts, record, working, run, acts, faults, told, hit>>
  BY DEF LoopPasses
<1>2. /\ loop.at = "next" /\ ~loop.aborted /\ v \in run.items
      /\ \A w \in loop.todo \ {v} : v < w
      /\ Rest \subseteq (loop.todo \ {v}) \cup {v}
  BY <1>1, Taken
<1>3. /\ loop \in Loop /\ run # NoRun /\ run \in Run /\ Pending /\ Endings /\ RestType
      /\ loop # Off
  BY <1>2, InLoop
<1> DEFINE at == IF Changed(v) THEN "failed" ELSE "ok"
<1>4. /\ loop' \in Loop /\ loop'.at = at /\ loop'.todo = loop.todo \ {v} /\ loop'.item = v
      /\ loop'.aborted = loop.aborted
  BY <1>1, <1>3 DEF Loop
<1>5. at \in {"ok", "failed"} /\ (at = "ok" => v \in made') /\ made \subseteq made' /\ made' \subseteq Variant
  BY <1>1, <1>3 DEF RestType
<1> HIDE DEF at
<1>6. LaneType' /\ LaneInv' /\ Filling'
  BY <1>1, <1>2, <1>4, <1>5, IdleLoop
<1>7. Pending'
  BY <1>1, <1>2, <1>3, <1>4, <1>5, LoopShapes DEF Pending, Rest
<1>8. Endings'
  BY <1>2, <1>4, <1>5, LoopShapes DEF Endings
<1>9. Row' /\ Told'
  BY <1>1, <1>2, <1>3, <1>4, <1>7, <1>8 DEF Inv, RestInv, Row, Told
<1>10. Accounts'
  BY <1>1, <1>3, <1>5 DEF Inv, RestInv, Accounts, Passed, Rest
<1>11. RestType'
  BY <1>1, <1>3, <1>4, <1>5 DEF RestType, texts
<1>12. QED
  BY <1>6, <1>9, <1>10, <1>11, Together DEF RestInv

LEMMA LoopGeneratesKeeps ==
  ASSUME Inv, NEW v \in Variant, LoopGenerates(v)
  PROVE  Inv'
<1>1. /\ LoopGoesOn(v) /\ Begin(Filler, v, "run")
      /\ loop' = [loop EXCEPT !.at = "waiting", !.todo = loop.todo \ {v}, !.item = v]
      /\ UNCHANGED <<texts, record, lane, controllers, jobs, run, acts, faults, made, told, hit>>
  BY DEF LoopGenerates, history
<1>2. /\ loop.at = "next" /\ ~loop.aborted /\ v \in run.items
      /\ \A w \in loop.todo \ {v} : v < w
      /\ Rest \subseteq (loop.todo \ {v}) \cup {v}
  BY <1>1, Taken
<1>3. /\ loop \in Loop /\ run # NoRun /\ run \in Run /\ Pending /\ Endings /\ RestType
      /\ loop # Off
  BY <1>2, InLoop
<1>4. /\ loop' \in Loop /\ loop'.at = "waiting" /\ loop'.todo = loop.todo \ {v} /\ loop'.item = v
      /\ loop'.aborted = loop.aborted
  BY <1>1, <1>3 DEF Loop
<1>5. /\ LaneType' /\ LaneInv'
      /\ \A h \in Gen : h # Filler => gens'[h] = gens[h]
      /\ gens'[Filler].variant = v /\ gens'[Filler].by = "run" /\ ~gens'[Filler].aborted
      /\ gens'[Filler] # Free
  <2>1. /\ jobs' \in [Variant -> Gen \cup {NoGen, Settled}]
        /\ \A w \in Variant : lane[w] # <<>> => jobs'[w] = jobs[w]
        /\ "run" \in {"hand", "auto", "run"} /\ Filler \in Gen
    BY <1>1, Slots DEF Inv, TypeOK
  <2>2. QED
    BY <1>1, <2>1, BeginStep
<1>6. Filling'
  <2>1. \A h \in Request : gens'[h] = gens[h]
    BY <1>5, Slots
  <2>2. QED
    BY <1>2, <1>4, <1>5, <2>1 DEF Inv, RestInv, Filling, Live
<1>7. Pending'
  BY <1>1, <1>2, <1>3, <1>4, LoopShapes DEF Pending, Rest
<1>8. Endings'
  BY <1>2, <1>4, LoopShapes DEF Endings
<1>9. Row' /\ Told'
  BY <1>1, <1>2, <1>3, <1>4, <1>7, <1>8 DEF Inv, RestInv, Row, Told
<1>10. Accounts'
  BY <1>1, <1>3 DEF Inv, RestInv, Accounts, Passed, Rest
<1>11. RestType'
  BY <1>1, <1>3, <1>4 DEF RestType, texts
<1>12. QED
  BY <1>5, <1>6, <1>9, <1>10, <1>11, Together DEF RestInv

\* The cursor jumps over nothing: what lies between it and the item was passed.
LEMMA LoopRecordsKeeps ==
  ASSUME Inv, LoopRecords
  PROVE  Inv'
<1> DEFINE c == IF run.cursor < loop.item THEN loop.item ELSE run.cursor
<1> DEFINE e == IF loop.at = "failed" THEN run.errors \cup {loop.item} ELSE run.errors \ {loop.item}
<1>1. /\ loop.at \in {"ok", "failed"}
      /\ run' = [run EXCEPT !.cursor = c, !.errors = e]
      /\ loop' = [loop EXCEPT !.at = "next"]
      /\ UNCHANGED <<texts, record, working, acts, faults, made, told, hit>>
  BY DEF LoopRecords, history
<1>2. /\ loop \in Loop /\ run # NoRun /\ run \in Run /\ Pending /\ Endings /\ RestType
      /\ run.items \subseteq Variant /\ loop # Off
  BY <1>1, InLoop
<1>3. /\ loop.item \in run.items /\ Rest \subseteq loop.todo \cup {loop.item}
      /\ (\A w \in loop.todo : loop.item < w) /\ loop.todo \subseteq run.items
      /\ run.errors \subseteq run.items
      /\ loop.at = "ok" => loop.item \in made
  BY <1>1, <1>2 DEF Pending, Endings
<1>4. /\ loop.item \in Nat /\ run.cursor \in Nat /\ c \in Nat
      /\ loop.item <= c /\ run.cursor <= c /\ (c = run.cursor \/ c = loop.item)
  <2>1. loop.item \in Nat
    BY <1>2, <1>3, Numbers
  <2>2. run.cursor \in Nat
    BY <1>2 DEF Run
  <2>3. QED
    BY <2>1, <2>2
<1>5. e \subseteq run.items /\ e \subseteq run.errors \cup {loop.item}
  BY <1>3
<1>6. loop.item \notin e => loop.item \in made
  BY <1>1, <1>3
<1>7. \A w \in run.errors : w \in e \/ w = loop.item
  BY <1>1
<1> HIDE DEF c, e
<1>8. /\ loop' \in Loop /\ loop'.at = "next" /\ loop'.todo = loop.todo
      /\ loop'.aborted = loop.aborted
  BY <1>1, <1>2, LoopMoves
<1>9. /\ run' \in Run /\ run' # NoRun /\ run'.items = run.items /\ run'.cursor = c
      /\ run'.errors = e /\ run'.status = run.status /\ run'.cancel = run.cancel
  BY <1>1, <1>2, <1>4, <1>5, LoopShapes DEF Run
<1>10. LaneType' /\ LaneInv' /\ Filling'
  BY <1>1, <1>8, IdleLoop
<1>11. Rest' \subseteq Rest /\ loop.item \notin Rest'
  <2>1. SUFFICES ASSUME NEW w \in Rest' PROVE w \in Rest /\ w # loop.item
    OBVIOUS
  <2>2. w \in run.items /\ w > c /\ w \in Nat
    BY <2>1, <1>2, <1>9, Numbers DEF Rest
  <2>3. w > run.cursor /\ w # loop.item
    BY <2>2, <1>4
  <2>4. QED
    BY <2>2, <2>3 DEF Rest
<1>12. Pending'
  BY <1>1, <1>3, <1>5, <1>8, <1>9, <1>11, LoopShapes DEF Pending
<1>13. Endings'
  BY <1>2, <1>8, <1>9, LoopShapes DEF Endings
<1>14. Row' /\ Told'
  BY <1>1, <1>2, <1>8, <1>9, <1>12, <1>13 DEF Inv, RestInv, Row, Told
<1>15. \A w \in Passed' : w \in Passed \/ w = loop.item
  <2>1. SUFFICES ASSUME NEW w \in Passed', w # loop.item PROVE w \in Passed
    OBVIOUS
  <2>2. w \in run.items /\ w <= c /\ w \in Nat
    BY <2>1, <1>2, <1>9, Numbers DEF Passed
  <2>3. SUFFICES ASSUME ~(w <= run.cursor) PROVE FALSE
    BY <2>2 DEF Passed
  <2>4. w \in Rest
    BY <2>2, <2>3, <1>4 DEF Rest
  <2>5. loop.item < w /\ w <= loop.item
    BY <2>1, <2>2, <2>3, <2>4, <1>3, <1>4
  <2>6. QED
    BY <2>2, <2>5, <1>4
<1>16. Passed \subseteq Passed' /\ loop.item \in Passed'
  <2>1. \A w \in run.items : w \in Nat
    BY <1>2, Numbers
  <2>2. QED
    BY <2>1, <1>3, <1>4, <1>9 DEF Passed
<1>17. Accounts'
  <2>1. /\ run.errors \subseteq Passed /\ Passed \ run.errors \subseteq made
        /\ run.status = "completed" /\ ~hit => Rest = {}
    BY <1>2 DEF Inv, RestInv, Accounts
  <2>2. run'.errors \subseteq Passed'
    BY <2>1, <1>5, <1>9, <1>16
  <2>3. Passed' \ run'.errors \subseteq made'
    BY <2>1, <1>1, <1>6, <1>7, <1>9, <1>15
  <2>4. run'.status = "completed" /\ ~hit' => Rest' = {}
    BY <2>1, <1>1, <1>9, <1>11
  <2>5. QED
    BY <2>2, <2>3, <2>4 DEF Accounts
<1>18. RestType'
  BY <1>1, <1>2, <1>8, <1>9 DEF RestType, texts
<1>19. QED
  BY <1>10, <1>14, <1>17, <1>18, Together DEF RestInv

LEMMA LoopClosesKeeps ==
  ASSUME Inv, LoopCloses
  PROVE  Inv'
<1>1. /\ \/ loop.at = "cancelled"
         \/ loop.at = "next" /\ (loop.todo = {} \/ loop.aborted \/ run.cancel)
      /\ run' = [run EXCEPT !.status = Finalized] /\ loop' = Off
      /\ UNCHANGED <<texts, record, working, acts, faults, made, told, hit>>
  BY DEF LoopCloses, history
<1>2. /\ loop \in Loop /\ run # NoRun /\ run \in Run /\ Pending /\ Endings /\ RestType
      /\ loop # Off
  BY <1>1, InLoop
<1>3. /\ run' \in Run /\ run' # NoRun /\ run'.items = run.items /\ run'.cursor = run.cursor
      /\ run'.errors = run.errors /\ run'.status = Finalized /\ run'.cancel = run.cancel
  BY <1>1, <1>2, Ended, FinalStatus, LoopShapes DEF Terminal
<1>4. LaneType' /\ LaneInv' /\ Filling'
  BY <1>1, IdleLoop, LoopShapes
<1>5. Row' /\ Told'
  BY <1>1, <1>2, <1>3, LoopShapes DEF Row, Told, Pending, Endings, Rest
<1>6. Finalized = "completed" /\ ~hit => Rest = {}
  BY <1>1, <1>2, FinalStatus DEF Pending, Endings
<1>7. Accounts'
  BY <1>1, <1>2, <1>3, <1>6 DEF Inv, RestInv, Accounts, Passed, Rest
<1>8. RestType'
  BY <1>1, <1>2, <1>3 DEF RestType, texts
<1>9. QED
  BY <1>4, <1>5, <1>7, <1>8, Together DEF RestInv

-----------------------------------------------------------------------------
(* Faults.                                                                 *)

LEMMA LoopBreaksKeeps ==
  ASSUME Inv, LoopBreaks
  PROVE  Inv'
<1>1. /\ loop.at \notin {"off", "waiting"} /\ loop' = Off /\ faults' = faults + 1
      /\ UNCHANGED <<texts, record, working, acts, made, told, hit>>
  BY DEF LoopBreaks, Fault, history
<1>2. /\ loop \in Loop /\ run # NoRun /\ run \in Run /\ Pending /\ Endings /\ RestType
  BY <1>1, InLoop
<1>3. PICK status \in {"failed", run.status} : run' = [run EXCEPT !.status = status]
  BY DEF LoopBreaks
<1>4. status \in Active \cup Terminal
  BY <1>2, LoopShapes DEF Terminal
<1>5. /\ run' \in Run /\ run' # NoRun /\ run'.items = run.items /\ run'.cursor = run.cursor
      /\ run'.errors = run.errors /\ run'.status = status /\ run'.cancel = run.cancel
  BY <1>2, <1>3, <1>4, Ended, LoopShapes
<1>6. LaneType' /\ LaneInv' /\ Filling'
  BY <1>1, IdleLoop, LoopShapes
<1>7. Row' /\ Told'
  BY <1>1, <1>2, <1>5, LoopShapes DEF Row, Told, Pending, Endings, Rest
<1>8. Accounts'
  BY <1>1, <1>2, <1>3, <1>5 DEF Inv, RestInv, Accounts, Passed, Rest
<1>9. RestType'
  BY <1>1, <1>2, <1>5, BoundAssumption DEF RestType, texts
<1>10. QED
  BY <1>6, <1>7, <1>8, <1>9, Together DEF RestInv

\* Nothing is under way.
LEMMA Emptied ==
  ASSUME gens = [g \in Gen |-> Free], lane = [v \in Variant |-> <<>>],
         controllers = [v \in Variant |-> NoGen], jobs = [v \in Variant |-> NoGen],
         loop = Off
  PROVE  LaneType /\ LaneInv /\ Filling
<1>1. LaneType
  BY DEF LaneType
<1>2. \A g \in Gen : gens[g] = Free /\ gens[g].at = "free"
  BY Shapes
<1>3. Lanes /\ Joinable /\ Controlled
  BY DEF Lanes, Joinable, Controlled
<1>4. Leading
  BY <1>2 DEF Leading
<1>5. Filling
  BY <1>2, Slots, LoopShapes DEF Filling, Live
<1>6. QED
  BY <1>1, <1>3, <1>4, <1>5 DEF LaneInv

LEMMA CrashKeeps ==
  ASSUME Inv, Crash
  PROVE  Inv'
<1>1. /\ loop' = Off /\ faults' = faults + 1
      /\ gens' = [g \in Gen |-> Free] /\ lane' = [v \in Variant |-> <<>>]
      /\ controllers' = [v \in Variant |-> NoGen] /\ jobs' = [v \in Variant |-> NoGen]
      /\ UNCHANGED <<texts, record, run, acts, made, told, hit>>
      /\ RestType
  BY TypeParts DEF Crash, Fault, history, Inv
<1>2. LaneType' /\ LaneInv' /\ Filling'
  <2>1. LaneType'
    BY <1>1 DEF LaneType
  <2>2. \A g \in Gen : gens'[g] = Free /\ gens'[g].at = "free"
    BY <1>1, Shapes
  <2>3. Lanes' /\ Joinable' /\ Controlled'
    BY <1>1 DEF Lanes, Joinable, Controlled
  <2>4. Leading'
    BY <2>2 DEF Leading
  <2>5. Filling'
    BY <1>1, <2>2, Slots, LoopShapes DEF Filling, Live
  <2>6. QED
    BY <2>1, <2>3, <2>4, <2>5 DEF LaneInv
<1>3. Row' /\ Told'
  <2>1. run # NoRun => Pending
    BY DEF Inv, RestInv, Row
  <2>2. QED
    BY <1>1, <2>1, LoopShapes DEF Row, Told, Pending, Endings, Rest
<1>4. Accounts'
  BY <1>1 DEF Inv, RestInv, Accounts, Passed, Rest
<1>5. RestType'
  BY <1>1, BoundAssumption DEF RestType, texts
<1>6. QED
  BY <1>2, <1>3, <1>4, <1>5, Together DEF RestInv

-----------------------------------------------------------------------------
(* The invariant.                                                          *)

LEMMA Starts == Init => Inv
<1> SUFFICES ASSUME Init PROVE Inv
  OBVIOUS
<1>1. LaneType /\ LaneInv /\ Filling
  BY Emptied DEF Init
<1>2. RestType
  <2>1. config \in [schema : Schema, revision : Nat]
    BY DEF Init
  <2>2. content \in [Variant -> Nat] /\ acts \in Nat /\ faults \in Nat
    BY DEF Init
  <2>3. QED
    BY <2>1, <2>2 DEF Init, RestType
<1>3. Row /\ Told /\ Accounts
  BY DEF Init, Row, Told, Accounts
<1>4. QED
  BY <1>1, <1>2, <1>3, TypeParts DEF Inv, RestInv

LEMMA Preserves == Inv /\ [Next]_vars => Inv'
<1> SUFFICES ASSUME Inv, [Next]_vars PROVE Inv'
  OBVIOUS
<1>1. CASE UNCHANGED vars
  <2>1. RestType'
    BY <1>1, TypeParts DEF Inv, RestType, vars, texts, history
  <2>2. UNCHANGED <<working, run, loop, history>>
    BY <1>1 DEF vars
  <2>3. QED
    BY <2>1, <2>2, WorkStays
<1>2. CASE Targets
  <2>1. ASSUME NEW g \in Gen, Asking(g) PROVE Inv'
    BY <2>1, PreparedKeeps, PrepareFailsKeeps, TurnKeeps, AnswerKeeps, AnswerFailsKeeps DEF Asking
  <2>2. QED
    BY <1>2, <2>1, GenerateStep, EnsureStep, DisconnectKeeps, CancelTargetKeeps DEF Targets
<1>3. CASE Editing
  BY <1>3, EditingKeeps
<1>4. CASE Backfilling
  <2>1. CASE Looping
    BY <2>1, LoopBeginsKeeps, LoopRecordsKeeps, LoopClosesKeeps, LoopPassesKeeps, LoopGeneratesKeeps
    DEF Looping
  <2>2. QED
    BY <1>4, <2>1, StartBackfillKeeps, PollKeeps, CancelBackfillKeeps, RetryKeeps DEF Backfilling
<1>5. CASE LoopBreaks
  BY <1>5, LoopBreaksKeeps
<1>6. CASE Crash
  BY <1>6, CrashKeeps
<1>7. QED
  BY <1>1, <1>2, <1>3, <1>4, <1>5, <1>6 DEF Next

LEMMA Always == Spec => []Inv
<1>1. QED
  BY Starts, Preserves, PTL DEF Spec

\* The tracker's state keeps its types, whatever fails, dies or is edited
\* (services/api/src/domain/insights/tracker-service.ts).
THEOREM TypeCorrect == Spec => []TypeOK
<1>1. Inv => TypeOK
  BY DEF Inv
<1>2. QED
  BY <1>1, Always, PTL

\* Whoever waits for a variant joins the last generation of its lane, however many
\* generations overlap (tracker-service.ts:325-345).
THEOREM WaitersJoinTheLast == Spec => []Joinable
<1>1. Inv => Joinable
  BY DEF Inv, LaneInv
<1>2. QED
  BY <1>1, Always, PTL

\* The row of a history run tells the truth about every item behind its cursor and
\* about its own end, through resumes, retries, cancellations, deaths and failing
\* store calls (tracker-service.ts:970-1024, 1112-1127).
THEOREM RunAccounts == Spec => []Accounts
<1>1. Inv => Accounts
  BY DEF Inv, RestInv
<1>2. QED
  BY <1>1, Always, PTL

-----------------------------------------------------------------------------
(* What a step may write.                                                  *)

LEMMA OnlyAnswersWrite ==
  ASSUME Inv, [Next]_vars, NEW v \in Variant, record'[v] # record[v],
         record'[v] # NoRecord, record'[v].by # "edit"
  PROVE  \E g \in Gen : Answer(g) /\ gens[g].variant = v
<1>1. RestType /\ LaneType
  BY TypeParts DEF Inv
<1>2. ASSUME NEW w \in Variant, EditScene(w) PROVE FALSE
  BY <1>1, <1>2 DEF EditScene, RestType
<1>3. ASSUME NEW w \in Variant, DeleteScene(w) PROVE FALSE
  BY <1>1, <1>3 DEF DeleteScene, RestType
<1>4. ASSUME NEW w \in Variant, DeleteMessage(w) PROVE FALSE
  BY <1>1, <1>4 DEF DeleteMessage, RestType
<1>5. ASSUME NEW w \in Variant, EditMessage(w) PROVE FALSE
  BY <1>5 DEF EditMessage
<1>6. ASSUME NEW s \in Schema, SaveConfig(s) PROVE FALSE
  BY <1>6 DEF SaveConfig
<1>7. ASSUME Backfilling PROVE FALSE
  <2>1. Looping => UNCHANGED record
    <3>1. LoopBegins \/ LoopRecords \/ LoopCloses => UNCHANGED record
      BY DEF LoopBegins, LoopRecords, LoopCloses
    <3>2. \A w \in Variant : LoopPasses(w) \/ LoopGenerates(w) => UNCHANGED record
      BY DEF LoopPasses, LoopGenerates
    <3>3. QED
      BY <3>1, <3>2 DEF Looping
  <2>2. Poll \/ CancelBackfill \/ RetryBackfill => UNCHANGED record
    BY DEF Poll, CancelBackfill, RetryBackfill
  <2>3. \A fill \in BOOLEAN : StartBackfill(fill) => UNCHANGED record
    BY DEF StartBackfill
  <2>4. QED
    BY <1>7, <2>1, <2>2, <2>3 DEF Backfilling
<1>8. ASSUME LoopBreaks \/ Crash \/ UNCHANGED vars PROVE FALSE
  BY <1>8 DEF LoopBreaks, Crash, vars
<1>9. ASSUME NEW g \in Gen, NEW w \in Variant, Generate(g, w) \/ EnsureTargetJob(g, w) PROVE FALSE
  BY <1>9 DEF Generate, EnsureTargetJob
<1>10. ASSUME NEW g \in Gen,
              Prepared(g) \/ PrepareFails(g) \/ Turn(g) \/ AnswerFails(g) \/ Disconnect(g)
       PROVE FALSE
  BY <1>10 DEF Prepared, PrepareFails, Turn, AnswerFails, Disconnect
<1>11. ASSUME NEW w \in Variant, CancelTarget(w) PROVE FALSE
  BY <1>11 DEF CancelTarget
<1>12. PICK g \in Gen : Answer(g)
  BY <1>2, <1>3, <1>4, <1>5, <1>6, <1>7, <1>8, <1>9, <1>10, <1>11
  DEF Next, Targets, Asking, Editing
<1>13. gens[g].variant = v
  BY <1>1, <1>12 DEF Answer, RestType
<1>14. QED
  BY <1>12, <1>13

LEMMA FreshStep ==
  ASSUME Inv, [Next]_vars, NEW v \in Variant, record'[v] # record[v],
         record'[v] # NoRecord, record'[v].by # "edit"
  PROVE  /\ record'[v].source = content[v]
         /\ \E g \in Gen : Live(g) /\ Leads(g) /\ gens[g].variant = v /\ ~gens[g].aborted
<1>1. PICK g \in Gen : Answer(g) /\ gens[g].variant = v
  BY OnlyAnswersWrite
<1>2. gens[g].at = "asking" /\ ~gens[g].aborted /\ content[v] = gens[g].source
  BY <1>1 DEF Answer, Fits
<1>3. Live(g) /\ Leads(g)
  BY <1>2, Shapes DEF Inv, LaneInv, Leading, Live
<1>4. record'[v] = [by |-> gens[g].by, source |-> gens[g].source, schema |-> gens[g].schema]
  BY <1>1 DEF Answer, Inv, TypeOK
<1>5. QED
  BY <1>1, <1>2, <1>3, <1>4

LEMMA ToldStep ==
  ASSUME Inv, [Next]_vars, told, NEW v \in Variant, record'[v] # record[v],
         record'[v] # NoRecord, record'[v].by = "run"
  PROVE  FALSE
<1>1. PICK g \in Gen : Answer(g) /\ gens[g].variant = v
  BY OnlyAnswersWrite
<1>2. gens[g].at = "asking" /\ ~gens[g].aborted /\ Live(g)
  BY <1>1, Shapes DEF Answer, Live
<1>3. record'[v] = [by |-> gens[g].by, source |-> gens[g].source, schema |-> gens[g].schema]
  BY <1>1 DEF Answer, Inv, TypeOK
<1>4. gens[g].by = "run"
  BY <1>3
<1>5. g = Filler
  BY <1>2, <1>4 DEF Gen, Inv, RestInv, Filling
<1>6. loop.at = "waiting" /\ (loop.aborted => gens[g].aborted)
  BY <1>2, <1>5 DEF Inv, RestInv, Filling
<1>7. loop.aborted
  BY <1>6, LoopShapes DEF Inv, RestInv, Told
<1>8. QED
  BY <1>2, <1>6, <1>7

\* A generated record is written by the generation whose turn it is, unaborted, and
\* tells of the text the variant has (tracker-service.ts:392-431).
THEOREM CommitsFresh == Spec => CommitsAreFresh
<1>1. Inv /\ [Next]_vars =>
        [\A v \in Variant :
           record'[v] # record[v] /\ record'[v] # NoRecord /\ record'[v].by # "edit"
             => /\ record'[v].source = content[v]
                /\ \E g \in Gen : Live(g) /\ Leads(g) /\ gens[g].variant = v /\ ~gens[g].aborted]_vars
  BY FreshStep
<1>2. QED
  BY <1>1, Always, PTL DEF Spec, CommitsAreFresh

\* A run that was cancelled writes nothing more, in the same process, until it is
\* set going again (tracker-service.ts:912-924).
THEOREM CancelledStops == Spec => StopsWhenTold
<1>1. Inv /\ [Next]_vars =>
        [told => \A v \in Variant : record'[v] # record[v] =>
                   record'[v] = NoRecord \/ record'[v].by # "run"]_vars
  BY ToldStep
<1>2. QED
  BY <1>1, Always, PTL DEF Spec, StopsWhenTold
=============================================================================
