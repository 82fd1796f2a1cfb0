------------------------- MODULE QuotaPollerProofs -------------------------
(***************************************************************************)
(* The type invariant and four promises of the quota poller, for every     *)
(* number of polls in flight, of edits and shutdowns, and every set of     *)
(* adapters and readings, and for any number of crashes.                   *)
(*                                                                         *)
(* None is inductive as it stands, because a poll passes through steps in  *)
(* which it is neither scheduled nor out: an edit may be about to be acted *)
(* upon, or notices about to be sent.  Attended, Gone, Warned and Mindful  *)
(* add these.                                                              *)
(***************************************************************************)
EXTENDS QuotaPoller, TLAPS

\* Most steps leave the history alone.
USE DEF history

\* What the other two need to know of the shape of a record that is updated.
Shaped ==
  /\ DOMAIN profile = {"exists", "key", "adapter"}
  /\ DOMAIN outbox = {"open", "notices"}
  /\ profile.exists \in BOOLEAN
  /\ ~outbox.open => outbox.notices = <<>>

\* Between two events the continuation that is running will schedule.
Attended ==
  phase = "up" /\ Pollable =>
    timer \/ polls # <<>> \/ resync.due \/ outbox.open

\* Once the profile is deleted no continuation is left to write anything.
Gone ==
  ~profile.exists => /\ ~timer /\ snapshot = NoSnapshot /\ ledger = {}
                     /\ ~resync.due /\ ~outbox.open

\* The shape holds from the start and survives every step.
LEMMA ShapedInit == Init => Shaped
<1> SUFFICES ASSUME Init PROVE Shaped
  OBVIOUS
<1>1. DOMAIN profile = {"exists", "key", "adapter"} /\ profile.exists \in BOOLEAN
  BY DEF Init
<1>2. outbox = [open |-> FALSE, notices |-> <<>>]
  BY DEF Init, NoOutbox
<1>3. DOMAIN outbox = {"open", "notices"}
  BY <1>2
<1>4. outbox.notices = <<>>
  BY <1>2
<1> QED
  BY <1>1, <1>3, <1>4 DEF Shaped

LEMMA ShapedStep ==
  ASSUME Shaped, [Next]_vars
  PROVE  Shaped'
<1>1. CASE UNCHANGED vars
  BY <1>1 DEF Shaped, vars
<1>2. ASSUME NEW k, NEW a, NEW moved, EditProfile(k, a, moved)
     PROVE  Shaped'
  BY <1>2 DEF Shaped, EditProfile
<1>3. ASSUME NEW c, ChangeConfig(c)
     PROVE  Shaped'
  BY <1>3 DEF Shaped, ChangeConfig
<1>4. CASE DeleteProfile
  BY <1>4 DEF Shaped, DeleteProfile
<1>5. CASE TickIdle
  BY <1>5 DEF Shaped, TickIdle
<1>6. CASE TickUnsupported
  BY <1>6 DEF Shaped, TickUnsupported
<1>7. CASE TickNoKey
  BY <1>7 DEF Shaped, TickNoKey, vars
<1>8. CASE PollBegins
  BY <1>8 DEF Shaped, PollBegins
<1>9. CASE TickFails
  BY <1>9 DEF Shaped, TickFails
<1>10. CASE Resync
  BY <1>10 DEF Shaped, Resync
<1>11. CASE ResyncFails
  BY <1>11 DEF Shaped, ResyncFails, Vanish, NoOutbox
<1>12. CASE Publish
  BY <1>12 DEF Shaped, Publish
<1>23. CASE PublishFails
  BY <1>23 DEF Shaped, PublishFails, NoOutbox
<1>13. CASE Settle
  BY <1>13 DEF Shaped, Settle, NoOutbox
<1>14. ASSUME NEW i, RequestAnswers(i) PROVE Shaped'
  BY <1>14 DEF Shaped, RequestAnswers
<1>15. ASSUME NEW i, PollFails(i) PROVE Shaped'
  BY <1>15 DEF Shaped, PollFails
<1>16. ASSUME NEW i, PollFailsUnrecorded(i) PROVE Shaped'
  BY <1>16 DEF Shaped, PollFailsUnrecorded
<1>17. ASSUME NEW i, NEW r, PollSucceeds(i, r) PROVE Shaped'
  <2>1. profile' = profile
    BY <1>17 DEF PollSucceeds
  <2>2. outbox'.open /\ DOMAIN outbox' = {"open", "notices"}
    BY <1>17 DEF PollSucceeds
  <2> QED
    BY <2>1, <2>2 DEF Shaped
<1>18. CASE Start
  BY <1>18 DEF Shaped, Start
<1>19. CASE Stop
  BY <1>19 DEF Shaped, Stop
<1>20. CASE Exit
  BY <1>20 DEF Shaped, Exit, Vanish, NoOutbox
<1>21. CASE Crash
  BY <1>21 DEF Shaped, Crash, Vanish, NoOutbox
<1>22. CASE Clock
  BY <1>22 DEF Shaped, Clock
<1> QED
  BY <1>1, <1>2, <1>3, <1>4, <1>5, <1>6, <1>7, <1>8, <1>9, <1>10, <1>11, <1>12, <1>13,
     <1>14, <1>15, <1>16, <1>17, <1>18, <1>19, <1>20, <1>21, <1>22, <1>23
  DEF Next, User, Timer, Continuation, Poll, Process

\* No path ends without a new poll, unless the store rejects.
LEMMA AttendedStep ==
  ASSUME StoreMayFail = FALSE, Shaped, Attended, [Next]_vars
  PROVE  Attended'
<1>1. CASE UNCHANGED vars
  BY <1>1 DEF Attended, vars, Pollable
<1>2. ASSUME NEW k, NEW a, NEW moved, EditProfile(k, a, moved)
     PROVE  Attended'
  BY <1>2 DEF Attended, EditProfile, Pollable, Shaped
<1>3. ASSUME NEW c, ChangeConfig(c)
     PROVE  Attended'
  BY <1>3 DEF Attended, ChangeConfig, Pollable, NoResync
<1>4. CASE DeleteProfile
  BY <1>4 DEF Attended, DeleteProfile, Pollable, Shaped
<1>5. CASE TickIdle
  BY <1>5 DEF Attended, TickIdle, Pollable
<1>6. CASE TickUnsupported
  BY <1>6 DEF Attended, TickUnsupported, Pollable
<1>7. CASE TickNoKey
  BY <1>7 DEF Attended, TickNoKey, vars, Pollable
<1>8. CASE PollBegins
  BY <1>8 DEF Attended, PollBegins
<1>9. CASE TickFails
  BY <1>9 DEF Attended, TickFails, Pollable
<1>10. CASE Resync
  BY <1>10 DEF Attended, Resync, Pollable
<1>11. CASE ResyncFails
  BY <1>11 DEF Attended, ResyncFails, Pollable, Vanish
<1>12. CASE Publish
  BY <1>12 DEF Attended, Publish, Pollable, Shaped
<1>23. CASE PublishFails
  BY <1>23 DEF PublishFails
<1>13. CASE Settle
  BY <1>13 DEF Attended, Settle, Schedule
<1>14. ASSUME NEW i, RequestAnswers(i) PROVE Attended'
  BY <1>14 DEF Attended, RequestAnswers, Pollable, Answered
<1>15. ASSUME NEW i, PollFails(i) PROVE Attended'
  BY <1>15 DEF Attended, PollFails, Pollable, Schedule
<1>16. ASSUME NEW i, PollFailsUnrecorded(i) PROVE Attended'
  BY <1>16 DEF Attended, PollFailsUnrecorded, Pollable
<1>17. ASSUME NEW i, NEW r, PollSucceeds(i, r) PROVE Attended'
  BY <1>17 DEF Attended, PollSucceeds, Pollable
<1>18. CASE Start
  BY <1>18 DEF Attended, Start, Pollable
<1>19. CASE Stop
  BY <1>19 DEF Attended, Stop, Pollable
<1>20. CASE Exit
  BY <1>20 DEF Attended, Exit, Vanish
<1>21. CASE Crash
  BY <1>21 DEF Attended, Crash, Vanish
<1>22. CASE Clock
  BY <1>22 DEF Attended, Clock, Pollable
<1> QED
  BY <1>1, <1>2, <1>3, <1>4, <1>5, <1>6, <1>7, <1>8, <1>9, <1>10, <1>11, <1>12, <1>13,
     <1>14, <1>15, <1>16, <1>17, <1>18, <1>19, <1>20, <1>21, <1>22, <1>23
  DEF Next, User, Timer, Continuation, Poll, Process

\* pollProfile()'s promise that every path reschedules: as long as the store
\* does not reject, a profile the user follows has a poll scheduled or out.
THEOREM PollingNeverStops ==
  ASSUME StoreMayFail = FALSE
  PROVE  Spec => []KeepsPolling
<1>1. Init => Shaped /\ Attended
  BY ShapedInit DEF Init, Attended
<1>2. Shaped /\ Attended /\ [Next]_vars => (Shaped /\ Attended)'
  BY ShapedStep, AttendedStep
<1>3. Attended => KeepsPolling
  BY DEF Attended, KeepsPolling, Event, Quiet
<1> QED
  BY <1>1, <1>2, <1>3, PTL DEF Spec

\* Whatever was out when the profile was deleted writes nothing.
LEMMA GoneStep ==
  ASSUME Shaped, Gone, [Next]_vars
  PROVE  Gone'
<1>1. CASE UNCHANGED vars
  BY <1>1 DEF Gone, vars, stored
<1>2. ASSUME NEW k, NEW a, NEW moved, EditProfile(k, a, moved)
     PROVE  Gone'
  BY <1>2 DEF Gone, EditProfile, stored, Shaped, Edit
<1>3. ASSUME NEW c, ChangeConfig(c)
     PROVE  Gone'
  BY <1>3 DEF Gone, ChangeConfig, stored, Edit
<1>4. CASE DeleteProfile
  BY <1>4 DEF Gone, DeleteProfile, Edit, Event, Quiet, Shaped
<1>5. CASE TickIdle
  BY <1>5 DEF Gone, TickIdle, stored, Tick, Event
<1>6. CASE TickUnsupported
  BY <1>6 DEF Gone, TickUnsupported
<1>7. CASE TickNoKey
  BY <1>7 DEF Gone, TickNoKey, vars, stored
<1>8. CASE PollBegins
  BY <1>8 DEF Gone, PollBegins, stored, Tick, Event
<1>9. CASE TickFails
  BY <1>9 DEF Gone, TickFails, stored, Tick, Event
<1>10. CASE Resync
  BY <1>10 DEF Gone, Resync, stored
<1>11. CASE ResyncFails
  BY <1>11 DEF Gone, ResyncFails, stored, Vanish
<1>12. CASE Publish
  BY <1>12 DEF Gone, Publish, Shaped
<1>23. CASE PublishFails
  BY <1>23 DEF Gone, PublishFails, Shaped
<1>13. CASE Settle
  BY <1>13 DEF Gone, Settle, stored, NoOutbox
<1>14. ASSUME NEW i, RequestAnswers(i) PROVE Gone'
  BY <1>14 DEF Gone, RequestAnswers, stored
<1>15. ASSUME NEW i, PollFails(i) PROVE Gone'
  BY <1>15 DEF Gone, PollFails, stored
<1>16. ASSUME NEW i, PollFailsUnrecorded(i) PROVE Gone'
  BY <1>16 DEF Gone, PollFailsUnrecorded, stored
<1>17. ASSUME NEW i, NEW r, PollSucceeds(i, r) PROVE Gone'
  BY <1>17 DEF Gone, PollSucceeds, stored
<1>18. CASE Start
  BY <1>18 DEF Gone, Start, stored
<1>19. CASE Stop
  BY <1>19 DEF Gone, Stop, stored
<1>20. CASE Exit
  BY <1>20 DEF Gone, Exit, stored, Vanish, NoResync, NoOutbox
<1>21. CASE Crash
  BY <1>21 DEF Gone, Crash, stored, Vanish, NoResync, NoOutbox
<1>22. CASE Clock
  BY <1>22 DEF Gone, Clock, stored
<1> QED
  BY <1>1, <1>2, <1>3, <1>4, <1>5, <1>6, <1>7, <1>8, <1>9, <1>10, <1>11, <1>12, <1>13,
     <1>14, <1>15, <1>16, <1>17, <1>18, <1>19, <1>20, <1>21, <1>22, <1>23
  DEF Next, User, Timer, Continuation, Poll, Process

\* A deleted profile is never polled again and nothing is written for it, also
\* when the store rejects and whatever was out when it was deleted.
THEOREM DeletionIsFinal == Spec => []DeletedStaysQuiet
<1>1. Init => Shaped /\ Gone
  BY ShapedInit DEF Init, Gone
<1>2. Shaped /\ Gone /\ [Next]_vars => (Shaped /\ Gone)'
  BY ShapedStep, GoneStep
<1>3. Gone => DeletedStaysQuiet
  BY DEF Gone, DeletedStaysQuiet
<1> QED
  BY <1>1, <1>2, <1>3, PTL DEF Spec
-----------------------------------------------------------------------------
(***************************************************************************)
(* Types.  A poll carries the configuration it began with, which TypeOK    *)
(* does not mention and the notices it leads to depend on.                 *)
(***************************************************************************)
PollType == [key : Key, adapter : Adapter, config : ConfigType, left : 1..2]

MemoryOK(m) ==
  \/ m = NoMemory
  \/ /\ m.adapter \in Windowed /\ m.at \in 0..MaxTime
     /\ m.window.used \in Used /\ m.window.rearms \in 0..MaxRearms
     /\ m.window.latched \in BOOLEAN /\ m.window.resetsAt \in Boundary \cup {NoReset}

\* The rows, the polls, and what the process remembers.
RowsTyped ==
  /\ profile \in [exists : BOOLEAN, key : Key \cup {NoKey}, adapter : Adapter \cup {NoAdapter}]
  /\ settings \in ConfigType
  /\ \/ snapshot = NoSnapshot
     \/ snapshot \in [adapter : Adapter \cup {NoAdapter}, key : Key \cup {NoKey},
                      at : 0..MaxTime]
  /\ MemoryOK(memory)
  /\ ledger \subseteq NoticeType

PollsTyped == polls \in Seq(PollType) /\ Len(polls) <= MaxInFlight

ProcessTyped ==
  /\ phase \in {"down", "up", "stopping"} /\ timer \in BOOLEAN
  /\ resync \in [due : BOOLEAN, edited : BOOLEAN, identity : BOOLEAN, account : BOOLEAN]
  /\ outbox.open \in BOOLEAN /\ outbox.notices \in Seq(NoticeType)
  /\ clock \in 0..MaxTime
  /\ edits \in 0..MaxEdits /\ crashes \in 0..MaxCrashes /\ stops \in 0..MaxStops

Typed == RowsTyped /\ PollsTyped /\ ProcessTyped

DueTyped == due \in NoticeId \cup {NoDue}

\* What TypeOK says of each poll follows from the type of the list.
LEMMA TypedIsTypeOK == Typed /\ DueTyped => TypeOK
<1>. SUFFICES ASSUME Typed, DueTyped PROVE TypeOK
  OBVIOUS
<1>1. ASSUME NEW i \in DOMAIN polls
      PROVE  polls[i].key \in Key /\ polls[i].adapter \in Adapter /\ polls[i].left \in 1..2
  <2>1. polls[i] \in PollType
    BY DEF Typed, PollsTyped
  <2>. QED
    BY <2>1 DEF PollType
<1>. QED
  BY <1>1 DEF Typed, RowsTyped, PollsTyped, ProcessTyped, DueTyped, MemoryOK, TypeOK

\* What resets a configuration is a configuration.
LEMMA Defaults ==
  ASSUME NEW kind \in {"windowed", "balance"}, NEW d \in BOOLEAN
  PROVE  /\ Default("none") \in ConfigType
         /\ [Default(kind) EXCEPT !.display = d] \in ConfigType
BY DEF ConfigType

\* A configuration is typed, and says whether the quota is displayed.
LEMMA ConfigFacts ==
  ASSUME NEW c \in ConfigType
  PROVE  c.display \in BOOLEAN
<1>1. CASE c \in Config
  BY <1>1, ConfigAssumption
<1>2. CASE \E kind \in {"windowed", "balance"}, d \in BOOLEAN :
             c = [Default(kind) EXCEPT !.display = d]
  BY <1>2 DEF Default
<1>3. CASE c = Default("none")
  BY <1>3 DEF Default
<1>. QED
  BY <1>1, <1>2, <1>3 DEF ConfigType

\* A configuration is rebased to a configuration.
LEMMA RebaseTyped ==
  ASSUME NEW c \in ConfigType, NEW kind \in {"windowed", "balance", "none"}
  PROVE  RebaseConfig(c, kind) \in ConfigType
<1>1. CASE kind = "none" \/ c.kind = "none"
  <2>1. Default("none") \in ConfigType
    BY Defaults
  <2>2. ASSUME kind # "none" PROVE Default(kind) = [Default(kind) EXCEPT !.display = FALSE]
    <3>. DEFINE D == Default(kind)
    <3>1. /\ D \in [kind : {kind}, display : BOOLEAN, low : BOOLEAN, reset : BOOLEAN,
                   threshold : Nat]
          /\ D.display = FALSE
      BY DEF Default
    <3>. HIDE DEF D
    <3>2. D = [D EXCEPT !.display = FALSE]
      BY <3>1
    <3>. QED
      BY <3>2 DEF D
  <2>3. Default(kind) \in ConfigType
    BY <2>1, <2>2, Defaults
  <2>. QED
    BY <1>1, <2>3 DEF RebaseConfig
<1>2. CASE ~(kind = "none" \/ c.kind = "none")
  BY <1>2, ConfigFacts, Defaults DEF RebaseConfig
<1>. QED
  BY <1>1, <1>2

\* So is whatever the user may choose.
LEMMA ConfigsTyped ==
  ASSUME NEW a \in Adapter \cup {NoAdapter}, NEW c \in ConfigsOf(a)
  PROVE  c \in ConfigType
<1>1. CASE a \in Windowed
  BY <1>1 DEF ConfigsOf, ConfigType
<1>2. CASE a \in Balance
  <2>1. c \in {[Default("balance") EXCEPT !.display = d] : d \in BOOLEAN}
    BY <1>2, AdapterAssumption DEF ConfigsOf
  <2>. QED
    BY <2>1, Defaults
<1>3. CASE a = NoAdapter
  <2>1. c = Default("none")
    BY <1>3, AdapterAssumption DEF ConfigsOf
  <2>. QED
    BY <2>1, Defaults
<1>. QED
  BY <1>1, <1>2, <1>3 DEF Adapter

\* A notice about a reading is a notice.
LEMMA NoticeTyped ==
  ASSUME NEW kind \in {"low", "reset"}, NEW a \in Windowed, NEW r \in Reading,
         NEW k \in 0..MaxRearms, NEW c \in ConfigType
  PROVE  Notice(kind, a, r, k, c) \in NoticeType
<1>1. (IF r.resetsAt # NoReset THEN <<"at", r.resetsAt>> ELSE <<"noreset", k>>)
        \in ({"at"} \X Boundary) \cup ({"noreset"} \X (0..MaxRearms))
  BY DEF Reading
<1>2. (IF kind = "low" THEN c.threshold ELSE 0) \in {0} \cup {d.threshold : d \in ConfigType}
  OBVIOUS
<1>. QED
  BY <1>1, <1>2 DEF Notice, NoticeType, NoticeId

\* The notices of one verdict: news of a reset, a warning, both or neither.
LEMMA NoticesTyped ==
  ASSUME NEW a \in Windowed, NEW r \in Reading, NEW k \in 0..MaxRearms, NEW c \in ConfigType,
         NEW p \in BOOLEAN, NEW q \in BOOLEAN
  PROVE  (IF p THEN <<Notice("reset", a, r, k, c)>> ELSE <<>>)
           \o (IF q THEN Warning(a, r, k, c) ELSE <<>>) \in Seq(NoticeType)
<1>. DEFINE N == Notice("reset", a, r, k, c)
            L == Notice("low", a, r, k, c)
            s == IF p THEN <<N>> ELSE <<>>
            t == IF q THEN Warning(a, r, k, c) ELSE <<>>
<1>1. N \in NoticeType /\ L \in NoticeType
  BY NoticeTyped
<1>2. t = IF q /\ c.low THEN <<L>> ELSE <<>>
  BY DEF Warning
<1>. HIDE DEF N, L
<1>3. <<N>> \in Seq(NoticeType) /\ <<L>> \in Seq(NoticeType) /\ <<>> \in Seq(NoticeType)
  BY <1>1
<1>4. s \in Seq(NoticeType) /\ t \in Seq(NoticeType)
  BY <1>2, <1>3
<1>. HIDE DEF s, t
<1>5. s \o t \in Seq(NoticeType)
  BY <1>4
<1>. QED
  BY <1>5 DEF s, t, N

\* A warning is at most one notice.
LEMMA WarningTyped ==
  ASSUME NEW a \in Windowed, NEW r \in Reading, NEW k \in 0..MaxRearms, NEW c \in ConfigType
  PROVE  Warning(a, r, k, c) \in Seq(NoticeType)
<1>1. Notice("low", a, r, k, c) \in NoticeType
  BY NoticeTyped
<1>. QED
  BY <1>1 DEF Warning

\* What is remembered after a poll, and what is sent.
LEMMA VerdictTyped ==
  ASSUME NEW a \in Windowed, NEW r \in Reading, NEW c \in ConfigType,
         NEW m, MemoryOK(m), NEW now \in 0..MaxTime,
         NEW v, v = Evaluate(a, r, c, m, now), v.memory.window.rearms <= MaxRearms
  PROVE  MemoryOK(v.memory) /\ v.notices \in Seq(NoticeType)
<1>1. CASE m # NoMemory /\ now <= m.at
  <2>1. v.memory = m /\ v.notices = <<>>
    BY <1>1 DEF Evaluate
  <2>2. <<>> \in Seq(NoticeType)
    OBVIOUS
  <2>. QED
    BY <2>1, <2>2
<1>2. CASE ~(m # NoMemory /\ now <= m.at)
  <2>. DEFINE w == IF ~SameQuestion(m, a, c) THEN Baseline(a, r, c)
                   ELSE IF IsReset(r, m.window, now)
                        THEN AfterReset(a, r, m.window, c)
                        ELSE Watch(a, r, m.window, c)
  <2>1. /\ v.notices = w.notices /\ v.memory.adapter = a /\ v.memory.at = now
        /\ v.memory.window = w.window
    BY <1>2 DEF Evaluate
  <2>2. /\ r.used \in Used /\ r.resetsAt \in Boundary \cup {NoReset}
        /\ IsLow(r, c) \in BOOLEAN /\ 0 \in 0..MaxRearms
    BY LimitAssumption DEF Reading, IsLow
  <2>3. <<>> \in Seq(NoticeType)
    OBVIOUS
  <2>4. /\ w.window.used \in Used /\ w.window.rearms \in 0..MaxRearms
        /\ w.window.latched \in BOOLEAN /\ w.notices \in Seq(NoticeType)
        /\ w.window.resetsAt \in Boundary \cup {NoReset}
    <3>1. CASE ~SameQuestion(m, a, c)
      BY <2>2, <2>3, <3>1, WarningTyped DEF Baseline, Window
    <3>2. CASE SameQuestion(m, a, c)
      <4>1. m.window.rearms \in 0..MaxRearms
        BY <3>2 DEF SameQuestion, MemoryOK
      <4>2. CASE IsReset(r, m.window, now)
        <5>1. /\ w.window.used \in Used /\ w.window.rearms \in 0..MaxRearms
              /\ w.window.latched \in BOOLEAN /\ w.window.resetsAt = r.resetsAt
          BY <2>2, <3>2, <4>1, <4>2 DEF AfterReset, Window
        <5>2. w.notices \in Seq(NoticeType)
          <6>1. w.notices = (IF c.reset THEN <<Notice("reset", a, r, m.window.rearms, c)>> ELSE <<>>)
                              \o (IF IsLow(r, c) THEN Warning(a, r, m.window.rearms, c) ELSE <<>>)
            BY <3>2, <4>2 DEF AfterReset
          <6>2. PICK p \in BOOLEAN : p <=> c.reset
            OBVIOUS
          <6>3. w.notices = (IF p THEN <<Notice("reset", a, r, m.window.rearms, c)>> ELSE <<>>)
                              \o (IF IsLow(r, c) THEN Warning(a, r, m.window.rearms, c) ELSE <<>>)
            BY <6>1, <6>2
          <6>. QED
            BY ZenonT(60), <2>2, <4>1, <6>3, NoticesTyped
        <5>. QED
          BY <2>2, <5>1, <5>2
      <4>3. CASE ~IsReset(r, m.window, now)
        <5>. DEFINE k == IF Recovered(r, m.window, c) THEN m.window.rearms + 1
                                                      ELSE m.window.rearms
        <5>1. w = Watch(a, r, m.window, c)
          BY <3>2, <4>3
        <5>2. /\ w.window.rearms = k /\ w.window.used = r.used /\ w.window.latched \in BOOLEAN
              /\ w.window.resetsAt = r.resetsAt
          <6>. HIDE DEF w
          <6>. QED
            BY <5>1 DEF Watch, Window
        <5>3. k \in 0..MaxRearms
          BY <2>1, <4>1, <5>2, LimitAssumption
        <5>4. w.notices \in {<<>>, Warning(a, r, k, c)}
          BY <5>1 DEF Watch
        <5>5. Warning(a, r, k, c) \in Seq(NoticeType)
          BY <5>3, WarningTyped
        <5>. HIDE DEF k, w
        <5>. QED
          BY <2>2, <2>3, <5>2, <5>3, <5>4, <5>5
      <4>. QED
        BY <4>2, <4>3
    <3>. QED
      BY <3>1, <3>2
  <2>. QED
    BY <2>1, <2>4 DEF MemoryOK
<1>. QED
  BY <1>1, <1>2

\* The types hold at the start.
LEMMA TypedInit == Init => Typed
<1>. SUFFICES ASSUME Init PROVE Typed
  OBVIOUS
<1>1. /\ profile \in [exists : BOOLEAN, key : Key \cup {NoKey}, adapter : Adapter \cup {NoAdapter}]
      /\ profile.adapter \in Adapter \cup {NoAdapter}
  BY DEF Init
<1>2. settings \in ConfigType
  BY <1>1, ConfigsTyped DEF Init
<1>3. PollsTyped
  BY LimitAssumption DEF Init, PollsTyped
<1>4. outbox.open \in BOOLEAN /\ outbox.notices \in Seq(NoticeType)
  BY DEF Init, NoOutbox
<1>5. RowsTyped
  BY <1>1, <1>2 DEF Init, RowsTyped, MemoryOK
<1>6. ProcessTyped
  <2>1. /\ phase = "down" /\ timer = FALSE /\ resync = NoResync
        /\ clock = 0 /\ edits = 0 /\ crashes = 0 /\ stops = 0
    BY DEF Init
  <2>2. resync \in [due : BOOLEAN, edited : BOOLEAN, identity : BOOLEAN, account : BOOLEAN]
    BY <2>1 DEF NoResync
  <2>3. 0 \in 0..MaxTime /\ 0 \in 0..MaxEdits /\ 0 \in 0..MaxCrashes /\ 0 \in 0..MaxStops
    BY LimitAssumption
  <2>. QED
    BY <1>4, <2>1, <2>2, <2>3 DEF ProcessTyped
<1>. QED
  BY <1>3, <1>5, <1>6 DEF Typed

\* A poll is taken out of the list.
LEMMA Dropped ==
  ASSUME Typed, NEW i \in DOMAIN polls
  PROVE  RemoveAt(polls, i) \in Seq(PollType) /\ Len(RemoveAt(polls, i)) <= MaxInFlight
<1>1. /\ polls \in Seq(PollType) /\ i \in 1..Len(polls) /\ Len(polls) \in Nat
      /\ Len(polls) <= MaxInFlight
  BY DEF Typed, RowsTyped, MemoryOK, PollsTyped, ProcessTyped
<1>2. SubSeq(polls, 1, i - 1) \in Seq(PollType) /\ Len(SubSeq(polls, 1, i - 1)) = i - 1
  BY <1>1
<1>3. /\ SubSeq(polls, i + 1, Len(polls)) \in Seq(PollType)
      /\ Len(SubSeq(polls, i + 1, Len(polls))) = Len(polls) - i
  BY <1>1
<1>. QED
  BY <1>1, <1>2, <1>3, LimitAssumption DEF RemoveAt

\* Every step keeps the types.
LEMMA TypedStep ==
  ASSUME Shaped, Typed, [Next]_vars
  PROVE  Typed'
<1>1. CASE UNCHANGED vars
  BY <1>1 DEF Typed, RowsTyped, MemoryOK, PollsTyped, ProcessTyped, vars, stored, counters
<1>2. ASSUME NEW k \in Key \cup {NoKey}, NEW a \in Adapter \cup {NoAdapter}, NEW moved \in BOOLEAN,
             EditProfile(k, a, moved)
      PROVE  Typed'
  <2>1. RowsTyped'
    BY <1>2, LimitAssumption DEF Typed, RowsTyped, MemoryOK, EditProfile, Edit, stored
  <2>2. PollsTyped'
    BY <1>2, LimitAssumption DEF Typed, PollsTyped, EditProfile, Edit, stored
  <2>3. ProcessTyped'
    BY <1>2, LimitAssumption DEF Typed, ProcessTyped, EditProfile, Edit, stored
  <2>. QED
    BY <2>1, <2>2, <2>3 DEF Typed
<1>3. ASSUME NEW c \in ConfigsOf(profile.adapter),
             ChangeConfig(c)
      PROVE  Typed'
  <2>1. settings' \in ConfigType
    BY <1>3, ConfigsTyped DEF ChangeConfig, Typed, RowsTyped, MemoryOK, PollsTyped,
       ProcessTyped
  <2>2. resync' \in [due : BOOLEAN, edited : BOOLEAN, identity : BOOLEAN, account : BOOLEAN]
    BY <1>3 DEF ChangeConfig, NoResync
  <2>. QED
    BY <1>3, <2>1, <2>2, LimitAssumption DEF Typed, RowsTyped, MemoryOK, PollsTyped,
       ProcessTyped, ChangeConfig, Edit, stored
<1>4. CASE DeleteProfile
  <2>1. settings' \in ConfigType
    BY <1>4, Defaults DEF DeleteProfile
  <2>2. /\ snapshot' = NoSnapshot /\ memory' = NoMemory /\ ledger' = {} /\ timer' = FALSE
        /\ profile' = [profile EXCEPT !.exists = FALSE] /\ edits' \in 0..MaxEdits
        /\ UNCHANGED <<phase, polls, resync, outbox, clock, crashes, stops>>
    BY <1>4, LimitAssumption DEF DeleteProfile, Edit, Typed, RowsTyped, MemoryOK,
       PollsTyped, ProcessTyped
  <2>3. profile' \in [exists : BOOLEAN, key : Key \cup {NoKey}, adapter : Adapter \cup {NoAdapter}]
    BY <2>2 DEF Typed, RowsTyped, MemoryOK, PollsTyped, ProcessTyped
  <2>. QED
    BY <2>1, <2>2, <2>3 DEF Typed, RowsTyped, MemoryOK, PollsTyped, ProcessTyped
<1>5. CASE TickIdle
  <2>1. RowsTyped'
    BY <1>5 DEF Typed, RowsTyped, MemoryOK, TickIdle, stored, counters
  <2>2. PollsTyped'
    BY <1>5 DEF Typed, PollsTyped, TickIdle, stored, counters
  <2>3. ProcessTyped'
    BY <1>5 DEF Typed, ProcessTyped, TickIdle, stored, counters
  <2>. QED
    BY <2>1, <2>2, <2>3 DEF Typed
<1>6. CASE TickUnsupported
  <2>1. snapshot' \in [adapter : Adapter \cup {NoAdapter}, key : Key \cup {NoKey}, at : 0..MaxTime]
    BY <1>6, LimitAssumption DEF TickUnsupported, Typed, RowsTyped, MemoryOK,
       PollsTyped, ProcessTyped
  <2>2. /\ memory' = NoMemory /\ timer' = FALSE
        /\ UNCHANGED <<profile, settings, ledger, phase, polls, resync, outbox, clock, counters>>
    BY <1>6 DEF TickUnsupported
  <2>. QED
    BY <2>1, <2>2 DEF Typed, RowsTyped, MemoryOK, PollsTyped, ProcessTyped, counters
<1>7. CASE TickNoKey
  BY <1>7 DEF Typed, RowsTyped, MemoryOK, PollsTyped, ProcessTyped, TickNoKey, vars,
     stored, counters
<1>8. CASE PollBegins
  <2>. DEFINE p == [key |-> profile.key, adapter |-> profile.adapter, config |-> settings,
                    left |-> IF profile.adapter \in TwoStep THEN 2 ELSE 1]
  <2>1. p \in PollType
    BY <1>8 DEF PollBegins, Pollable, Typed, RowsTyped, MemoryOK, PollsTyped,
       ProcessTyped, PollType
  <2>2. polls' = Append(polls, p) /\ Len(polls) < MaxInFlight /\ timer' = FALSE
        /\ UNCHANGED <<profile, settings, stored, phase, resync, outbox, clock, counters>>
    BY <1>8 DEF PollBegins
  <2>. HIDE DEF p
  <2>3. polls' \in Seq(PollType) /\ Len(polls') <= MaxInFlight
    BY <2>1, <2>2, LimitAssumption DEF Typed, PollsTyped
  <2>. QED
    <3>1. RowsTyped'
      BY <2>2, <2>3 DEF Typed, RowsTyped, MemoryOK, stored, counters
    <3>2. PollsTyped'
      BY <2>2, <2>3 DEF Typed, PollsTyped, stored, counters
    <3>3. ProcessTyped'
      BY <2>2, <2>3 DEF Typed, ProcessTyped, stored, counters
    <3>. QED
      BY <3>1, <3>2, <3>3 DEF Typed
<1>9. CASE TickFails
  <2>1. RowsTyped'
    BY <1>9 DEF Typed, RowsTyped, MemoryOK, TickFails, stored, counters
  <2>2. PollsTyped'
    BY <1>9 DEF Typed, PollsTyped, TickFails, stored, counters
  <2>3. ProcessTyped'
    BY <1>9 DEF Typed, ProcessTyped, TickFails, stored, counters
  <2>. QED
    BY <2>1, <2>2, <2>3 DEF Typed
<1>10. CASE Resync
  <2>1. settings' \in ConfigType
    <3>1. KindOf(profile.adapter) \in {"windowed", "balance", "none"}
      BY DEF KindOf
    <3>. QED
      BY <1>10, <3>1, RebaseTyped DEF Resync, Typed, RowsTyped, MemoryOK, PollsTyped,
         ProcessTyped
  <2>2. /\ resync' = NoResync /\ timer' \in BOOLEAN
        /\ \/ snapshot' = NoSnapshot /\ memory' = NoMemory
           \/ UNCHANGED <<snapshot, memory>>
        /\ ledger' \subseteq ledger
        /\ UNCHANGED <<profile, phase, polls, outbox, clock, counters>>
    <3>1. timer' \in BOOLEAN
      <4>1. settings'.display \in BOOLEAN
        BY <2>1, ConfigFacts
      <4>. QED
        BY <1>10 DEF Resync, PollingEnabled
    <3>. QED
      BY <1>10, <3>1 DEF Resync
  <2>. QED
    BY <2>1, <2>2 DEF Typed, RowsTyped, MemoryOK, PollsTyped, ProcessTyped, NoResync,
       counters
<1>11. CASE ResyncFails
  <2>1. CASE resync.edited
    <3>1. /\ phase' = "down" /\ timer' = FALSE /\ polls' = <<>> /\ resync' = NoResync
          /\ outbox'.open = FALSE /\ outbox'.notices = <<>>
          /\ UNCHANGED <<profile, settings, stored, clock, edits, stops>>
          /\ crashes' \in 0..MaxCrashes
      BY <1>11, <2>1, LimitAssumption DEF ResyncFails, Vanish, NoOutbox, Typed,
         RowsTyped, MemoryOK, PollsTyped, ProcessTyped
    <3>2. /\ outbox'.notices \in Seq(NoticeType) /\ polls' \in Seq(PollType)
          /\ Len(polls') <= MaxInFlight /\ DOMAIN polls' = {}
      BY <3>1, LimitAssumption
    <3>. QED
      <4>1. RowsTyped'
        BY <3>1, <3>2 DEF Typed, RowsTyped, MemoryOK, NoResync, stored
      <4>2. PollsTyped'
        BY <3>1, <3>2 DEF Typed, PollsTyped, NoResync, stored
      <4>3. ProcessTyped'
        BY <3>1, <3>2 DEF Typed, ProcessTyped, NoResync, stored
      <4>. QED
        BY <4>1, <4>2, <4>3 DEF Typed
  <2>2. CASE ~resync.edited
    <3>1. /\ resync' = NoResync /\ timer' = FALSE
          /\ UNCHANGED <<profile, settings, stored, phase, polls, outbox, clock, counters>>
      BY <1>11, <2>2 DEF ResyncFails
    <3>2. RowsTyped' /\ PollsTyped'
      BY <3>1 DEF Typed, RowsTyped, MemoryOK, PollsTyped, stored
    <3>3. resync' \in [due : BOOLEAN, edited : BOOLEAN, identity : BOOLEAN, account : BOOLEAN]
      BY <3>1 DEF NoResync
    <3>. QED
      BY <3>1, <3>2, <3>3 DEF Typed, ProcessTyped, counters
  <2>. QED
    BY <2>1, <2>2
<1>12. CASE Publish
  <2>1. /\ outbox.notices \in Seq(NoticeType) /\ outbox.notices # <<>>
        /\ DOMAIN outbox = {"open", "notices"}
        /\ outbox' = [outbox EXCEPT !.notices = Tail(outbox.notices)]
    BY <1>12 DEF Publish, Typed, RowsTyped, MemoryOK, PollsTyped, ProcessTyped, Shaped
  <2>2. Tail(outbox.notices) \in Seq(NoticeType) /\ Head(outbox.notices) \in NoticeType
    BY <2>1
  <2>3. outbox'.notices \in Seq(NoticeType) /\ outbox'.open \in BOOLEAN
    BY <2>1, <2>2 DEF Typed, RowsTyped, MemoryOK, PollsTyped, ProcessTyped
  <2>4. ledger' \subseteq NoticeType
    BY <1>12, <2>2 DEF Publish, Typed, RowsTyped, MemoryOK, PollsTyped, ProcessTyped
  <2>. QED
    BY <1>12, <2>3, <2>4 DEF Typed, RowsTyped, MemoryOK, PollsTyped, ProcessTyped,
       Publish, counters
<1>23. CASE PublishFails
  <2>1. outbox'.open = FALSE /\ outbox'.notices \in Seq(NoticeType)
    BY <1>23 DEF PublishFails, NoOutbox
  <2>2. timer' \in BOOLEAN /\ UNCHANGED <<profile, settings, stored, phase, polls, resync, clock, counters>>
    BY <1>23 DEF PublishFails, Schedule, Typed, ProcessTyped
  <2>3. RowsTyped' /\ PollsTyped'
    BY <2>2 DEF Typed, RowsTyped, MemoryOK, PollsTyped, stored
  <2>. QED
    BY <2>1, <2>2, <2>3 DEF Typed, ProcessTyped, counters
<1>13. CASE Settle
  <2>1. outbox'.open = FALSE /\ outbox'.notices \in Seq(NoticeType)
    BY <1>13 DEF Settle, NoOutbox
  <2>. QED
    <3>1. RowsTyped'
      BY <1>13, <2>1 DEF Typed, RowsTyped, MemoryOK, Settle, Schedule, stored, counters
    <3>2. PollsTyped'
      BY <1>13, <2>1 DEF Typed, PollsTyped, Settle, Schedule, stored, counters
    <3>3. ProcessTyped'
      BY <1>13, <2>1 DEF Typed, ProcessTyped, Settle, Schedule, stored, counters
    <3>. QED
      BY <3>1, <3>2, <3>3 DEF Typed
<1>14. ASSUME NEW i \in 1..MaxInFlight,
             RequestAnswers(i)
      PROVE  Typed'
  <2>. DEFINE p == [polls[i] EXCEPT !.left = 1]
  <2>1. polls[i] \in PollType /\ p \in PollType
    <3>1. polls[i] \in PollType
      BY <1>14 DEF RequestAnswers, Answered, Typed, PollsTyped
    <3>. QED
      BY <3>1 DEF PollType
  <2>2. polls' = [polls EXCEPT ![i] = p]
    BY <1>14, <2>1 DEF RequestAnswers
  <2>. HIDE DEF p
  <2>3. i \in DOMAIN polls /\ polls \in Seq(PollType)
    BY <1>14 DEF RequestAnswers, Answered, Typed, PollsTyped
  <2>4. polls' \in Seq(PollType) /\ Len(polls') = Len(polls)
    BY <2>1, <2>2, <2>3
  <2>. QED
    BY <1>14, <2>4 DEF Typed, RowsTyped, MemoryOK, PollsTyped, ProcessTyped,
       RequestAnswers, stored, counters
<1>15. ASSUME NEW i \in 1..MaxInFlight,
             PollFails(i)
      PROVE  Typed'
  <2>1. polls' \in Seq(PollType) /\ Len(polls') <= MaxInFlight
    BY <1>15, Dropped DEF PollFails, Answered
  <2>. QED
    BY <1>15, <2>1 DEF Typed, RowsTyped, MemoryOK, PollsTyped, ProcessTyped, PollFails,
       Schedule, stored, counters
<1>16. ASSUME NEW i \in 1..MaxInFlight,
             PollFailsUnrecorded(i)
      PROVE  Typed'
  <2>1. polls' \in Seq(PollType) /\ Len(polls') <= MaxInFlight
    BY <1>16, Dropped DEF PollFailsUnrecorded, Answered
  <2>. QED
    BY <1>16, <2>1 DEF Typed, RowsTyped, MemoryOK, PollsTyped, ProcessTyped,
       PollFailsUnrecorded, Schedule, stored, counters
<1>17. ASSUME NEW i \in 1..MaxInFlight, NEW r \in Reading,
             PollSucceeds(i, r)
      PROVE  Typed'
  <2>1. polls' \in Seq(PollType) /\ Len(polls') <= MaxInFlight
    BY <1>17, Dropped DEF PollSucceeds, Answered
  <2>2. polls[i] \in PollType
    BY <1>17 DEF PollSucceeds, Answered, Typed, PollsTyped
  <2>. DEFINE p == polls[i]
              v == Evaluate(p.adapter, r, AsWindowed(p.config), memory, clock)
              reading == [adapter |-> p.adapter, key |-> p.key, at |-> clock]
  <2>3. reading \in [adapter : Adapter \cup {NoAdapter}, key : Key \cup {NoKey}, at : 0..MaxTime]
    BY <2>2 DEF PollType, Typed, RowsTyped, MemoryOK, PollsTyped, ProcessTyped
  <2>4. AsWindowed(p.config) \in ConfigType
    BY <2>2, RebaseTyped DEF AsWindowed, PollType
  <2>5. MemoryOK(memory) /\ clock \in 0..MaxTime /\ <<>> \in Seq(NoticeType)
    BY DEF Typed, RowsTyped, MemoryOK, PollsTyped, ProcessTyped, MemoryOK
  <2>6. ASSUME p.adapter \in Windowed, v.memory.window.rearms <= MaxRearms
        PROVE  MemoryOK(v.memory) /\ v.notices \in Seq(NoticeType)
    BY <2>4, <2>5, <2>6, VerdictTyped
  <2>7. \/ /\ snapshot' = reading /\ memory' = NoMemory
           /\ outbox' = [open |-> TRUE, notices |-> <<>>]
        \/ /\ UNCHANGED <<snapshot, memory>>
           /\ outbox' = [open |-> TRUE, notices |-> <<>>]
        \/ /\ p.adapter \in Windowed /\ v.memory.window.rearms <= MaxRearms
           /\ snapshot' = reading /\ memory' = v.memory
           /\ outbox' = [open |-> TRUE, notices |-> v.notices]
    BY <1>17 DEF PollSucceeds
  <2>. HIDE DEF v, reading
  <2>8. outbox'.open = TRUE /\ outbox'.notices \in Seq(NoticeType) /\ MemoryOK(memory')
    <3>1. MemoryOK(NoMemory)
      BY DEF MemoryOK
    <3>2. CASE memory' = NoMemory /\ outbox' = [open |-> TRUE, notices |-> <<>>]
      BY <2>5, <3>1, <3>2
    <3>3. CASE memory' = memory /\ outbox' = [open |-> TRUE, notices |-> <<>>]
      BY <2>5, <3>3
    <3>4. CASE /\ p.adapter \in Windowed /\ v.memory.window.rearms <= MaxRearms
               /\ memory' = v.memory /\ outbox' = [open |-> TRUE, notices |-> v.notices]
      BY <2>6, <3>4
    <3>. QED
      BY <2>7, <3>2, <3>3, <3>4
  <2>9. \/ snapshot' = snapshot
        \/ snapshot' \in [adapter : Adapter \cup {NoAdapter}, key : Key \cup {NoKey},
                         at : 0..MaxTime]
    BY <2>3, <2>7
  <2>10. UNCHANGED <<profile, settings, ledger, phase, timer, resync, clock, counters>>
    BY <1>17 DEF PollSucceeds
  <2>. QED
    <3>1. RowsTyped'
      BY <2>1, <2>8, <2>9, <2>10 DEF Typed, RowsTyped, MemoryOK, counters
    <3>2. PollsTyped'
      BY <2>1, <2>8, <2>9, <2>10 DEF Typed, PollsTyped, counters
    <3>3. ProcessTyped'
      BY <2>1, <2>8, <2>9, <2>10 DEF Typed, ProcessTyped, counters
    <3>. QED
      BY <3>1, <3>2, <3>3 DEF Typed
<1>18. CASE Start
  <2>1. timer' \in BOOLEAN
    BY <1>18 DEF Start, PollingEnabled
  <2>. QED
    BY <1>18, <2>1 DEF Typed, RowsTyped, MemoryOK, PollsTyped, ProcessTyped, Start,
       stored, counters
<1>19. CASE Stop
  <2>1. RowsTyped' /\ PollsTyped'
    BY <1>19 DEF Typed, RowsTyped, MemoryOK, PollsTyped, Stop, stored
  <2>2. stops' \in 0..MaxStops
    BY <1>19, LimitAssumption DEF Stop, Typed, ProcessTyped
  <2>. QED
    BY <1>19, <2>1, <2>2 DEF Typed, ProcessTyped, Stop, Event
<1>20. CASE Exit
  <2>1. /\ phase' = "down" /\ timer' = FALSE /\ polls' = <<>> /\ resync' = NoResync
        /\ outbox'.open = FALSE /\ outbox'.notices = <<>>
        /\ UNCHANGED <<profile, settings, stored, clock, edits, stops>>
        /\ crashes' \in 0..MaxCrashes
    BY <1>20 DEF Exit, Vanish, NoOutbox, Typed, RowsTyped, MemoryOK, PollsTyped,
       ProcessTyped
  <2>2. /\ outbox'.notices \in Seq(NoticeType) /\ polls' \in Seq(PollType)
        /\ Len(polls') <= MaxInFlight /\ DOMAIN polls' = {}
    BY <2>1, LimitAssumption
  <2>. QED
    BY <2>1, <2>2 DEF Typed, RowsTyped, MemoryOK, PollsTyped, ProcessTyped, NoResync, stored
<1>21. CASE Crash
  <2>1. /\ phase' = "down" /\ timer' = FALSE /\ polls' = <<>> /\ resync' = NoResync
        /\ outbox'.open = FALSE /\ outbox'.notices = <<>>
        /\ UNCHANGED <<profile, settings, stored, clock, edits, stops>>
        /\ crashes' \in 0..MaxCrashes
    BY <1>21, LimitAssumption DEF Crash, Vanish, NoOutbox, Typed, RowsTyped, MemoryOK,
       PollsTyped, ProcessTyped
  <2>2. /\ outbox'.notices \in Seq(NoticeType) /\ polls' \in Seq(PollType)
        /\ Len(polls') <= MaxInFlight /\ DOMAIN polls' = {}
    BY <2>1, LimitAssumption
  <2>. QED
    BY <2>1, <2>2 DEF Typed, RowsTyped, MemoryOK, PollsTyped, ProcessTyped, NoResync, stored
<1>22. CASE Clock
  BY <1>22, LimitAssumption DEF Typed, RowsTyped, MemoryOK, PollsTyped, ProcessTyped,
     Clock, stored, counters
<1>. QED
  BY <1>1, <1>2, <1>3, <1>4, <1>5, <1>6, <1>7, <1>8, <1>9, <1>10, <1>11,
     <1>12, <1>13, <1>14, <1>15, <1>16, <1>17, <1>18, <1>19, <1>20, <1>21, <1>22, <1>23
  DEF Next, User, Timer, Continuation, Poll, Process

\* What the latch stands for is forgotten or, by a reading, made anew.
LEMMA DueMoves ==
  ASSUME [Next]_vars
  PROVE  \/ due' \in {due, NoDue}
         \/ \E i, r : PollSucceeds(i, r) /\ due' = DueAfter(memory')
  BY DEF Next, User, EditProfile, ChangeConfig, DeleteProfile, Timer, TickIdle, TickUnsupported,
     TickNoKey, PollBegins, TickFails, Continuation, Resync, ResyncFails, Publish, PublishFails,
     Settle, Poll, RequestAnswers, PollFails, PollFailsUnrecorded, PollSucceeds, Process, Start,
     Stop, Exit, Crash, Vanish, Forgotten, Clock, vars

LEMMA DueStep ==
  ASSUME Typed, Typed', DueTyped, [Next]_vars
  PROVE  DueTyped'
<1>1. CASE due' \in {due, NoDue}
  BY <1>1 DEF DueTyped
<1>2. CASE due' = DueAfter(memory')
  <2>1. MemoryOK(memory')
    BY DEF Typed, RowsTyped, MemoryOK
  <2>2. Latched(memory') => WarningOf(memory') \in NoticeId
    BY <2>1 DEF MemoryOK, Latched, WarningOf, NoticeId
  <2>. QED
    BY <1>2, <2>2 DEF DueAfter, DueTyped
<1>. QED
  BY <1>1, <1>2, DueMoves

\* Profile, configuration, reading, memory, notices and polls keep their types
\* and their bounds.
THEOREM TypeCorrect == Spec => []TypeOK
<1>1. Init => Shaped /\ Typed /\ DueTyped
  BY ShapedInit, TypedInit DEF Init, DueTyped
<1>2. Shaped /\ Typed /\ DueTyped /\ [Next]_vars => (Shaped /\ Typed /\ DueTyped)'
  BY ShapedStep, TypedStep, DueStep
<1>. QED
  BY <1>1, <1>2, TypedIsTypeOK, PTL DEF Spec
-----------------------------------------------------------------------------
(***************************************************************************)
(* A latch stands for a warning that has been given.  Latch and warning are*)
(* two commits, and what lies between them is in the outbox; if it is lost *)
(* there, none is due.                                                     *)
(***************************************************************************)
Owed == Latched(memory) /\ due # NoDue

\* The warning is in the ledger or applyReading() is about to send it, and a
\* changed account is a changed identity.
Warned ==
  /\ Owed => \/ \E n \in ledger : n.id = due
             \/ \E i \in DOMAIN outbox.notices : outbox.notices[i].id = due
  /\ resync.account => resync.identity

\* The end of a window, if it has one, is a number.
LEMMA Boundaries == \A x \in Boundary \cup {NoReset} : x \in Nat
  BY BoundaryAssumption DEF NoReset

LEMMA MemoryBoundary ==
  ASSUME NEW m, MemoryOK(m), m # NoMemory
  PROVE  m.window.resetsAt \in Nat
<1>1. m.window.resetsAt \in Boundary \cup {NoReset}
  BY DEF MemoryOK
<1>. QED
  BY <1>1, Boundaries

\* A reading that leaves the latch set either goes on with it or warns.
LEMMA EvaluateWarns ==
  ASSUME NEW a, NEW r \in Reading, NEW c, NEW m, MemoryOK(m), NEW now, NEW v,
         v = Evaluate(a, r, c, m, now), Latched(v.memory)
  PROVE  \/ GoesOn(m, v.memory)
         \/ \E i \in DOMAIN v.notices : v.notices[i].id = WarningOf(v.memory)
<1>1. r.resetsAt \in Nat /\ (m # NoMemory => m.window.resetsAt \in Nat)
  BY Boundaries, MemoryBoundary DEF Reading
<1>2. CASE m # NoMemory /\ now <= m.at
  <2>1. v.memory = m
    BY <1>2 DEF Evaluate
  <2>. QED
    BY <1>1, <1>2, <2>1 DEF GoesOn
<1>3. CASE ~(m # NoMemory /\ now <= m.at)
  <2>. DEFINE w == IF ~SameQuestion(m, a, c) THEN Baseline(a, r, c)
                   ELSE IF IsReset(r, m.window, now)
                        THEN AfterReset(a, r, m.window, c)
                        ELSE Watch(a, r, m.window, c)
  <2>1. /\ v.notices = w.notices /\ v.memory.adapter = a /\ v.memory.low = c.low
        /\ v.memory.threshold = c.threshold /\ v.memory.window = w.window
    BY <1>3 DEF Evaluate
  <2>2. c.low /\ w.window.latched
    BY <2>1 DEF Latched
  <2>. HIDE DEF w
  <2>3. ASSUME NEW k, v.memory.window.resetsAt = r.resetsAt, v.memory.window.rearms = k
        PROVE  /\ Warning(a, r, k, c) = <<Notice("low", a, r, k, c)>>
               /\ Notice("low", a, r, k, c).id = WarningOf(v.memory)
    BY <2>1, <2>2, <2>3 DEF Warning, Notice, WarningOf
  <2>4. CASE ~SameQuestion(m, a, c)
    <3>1. w = Baseline(a, r, c)
      BY <2>4 DEF w
    <3>2. /\ v.notices = Warning(a, r, 0, c)
          /\ v.memory.window.resetsAt = r.resetsAt /\ v.memory.window.rearms = 0
      BY <2>1, <2>2, <3>1 DEF Baseline, Window
    <3>. QED
      BY <2>3, <3>2
  <2>5. CASE SameQuestion(m, a, c) /\ IsReset(r, m.window, now)
    <3>. DEFINE k == m.window.rearms
                N == Notice("reset", a, r, k, c)
                L == Notice("low", a, r, k, c)
                p == IF c.reset THEN <<N>> ELSE <<>>
    <3>1. w = AfterReset(a, r, m.window, c)
      BY <2>5 DEF w
    <3>2. /\ v.notices = p \o Warning(a, r, k, c)
          /\ v.memory.window.resetsAt = r.resetsAt /\ v.memory.window.rearms = k
      <4>1. w.notices = p \o Warning(a, r, k, c) \/ ~w.window.latched
        BY <3>1 DEF AfterReset, Window
      <4>2. w.window.resetsAt = r.resetsAt /\ w.window.rearms = k
        BY <3>1 DEF AfterReset, Window
      <4>. QED
        BY <2>1, <2>2, <4>1, <4>2
    <3>3. v.notices = p \o <<L>> /\ L.id = WarningOf(v.memory)
      BY <2>3, <3>2
    <3>. HIDE DEF N, L
    <3>4. p \in Seq({N, L}) /\ <<L>> \in Seq({N, L})
      <4>1. <<N>> \in Seq({N, L}) /\ <<L>> \in Seq({N, L}) /\ <<>> \in Seq({N, L})
        OBVIOUS
      <4>. QED
        BY <4>1
    <3>. HIDE DEF p
    <3>5. Len(p) + 1 \in DOMAIN (p \o <<L>>) /\ (p \o <<L>>)[Len(p) + 1] = L
      BY <3>4
    <3>. QED
      BY <3>3, <3>5
  <2>6. CASE SameQuestion(m, a, c) /\ ~IsReset(r, m.window, now)
    <3>1. w = Watch(a, r, m.window, c)
      BY <2>6 DEF w
    <3>2. CASE m.window.latched /\ ~Recovered(r, m.window, c)
      <4>1. r.resetsAt <= m.window.resetsAt
        BY <1>1, <2>6 DEF IsReset, SameQuestion, NoReset
      <4>2. v.memory.window.resetsAt = r.resetsAt /\ v.memory.window.rearms = m.window.rearms
        BY <2>1, <3>1, <3>2 DEF Watch, Window
      <4>. QED
        BY <2>1, <2>2, <2>6, <3>2, <4>1, <4>2 DEF GoesOn, SameQuestion, Latched
    <3>3. CASE ~(m.window.latched /\ ~Recovered(r, m.window, c))
      <4>. DEFINE k == IF Recovered(r, m.window, c) THEN m.window.rearms + 1
                                                    ELSE m.window.rearms
      <4>1. v.memory.window.resetsAt = r.resetsAt /\ v.memory.window.rearms = k
        BY <2>1, <3>1 DEF Watch, Window
      <4>2. v.notices = Warning(a, r, k, c)
        BY <2>1, <2>2, <3>1, <3>3 DEF Watch, Window
      <4>. HIDE DEF k
      <4>. QED
        BY <2>3, <4>1, <4>2
    <3>. QED
      BY <3>2, <3>3
  <2>. QED
    BY <2>4, <2>5, <2>6
<1>. QED
  BY <1>2, <1>3

\* Outside a continuation nothing is waiting to be sent.
LEMMA NothingWaits ==
  ASSUME Shaped, Warned, Quiet
  PROVE  Owed => \E n \in ledger : n.id = due
<1>1. outbox.notices = <<>>
  BY DEF Shaped, Quiet
<1>. QED
  BY <1>1 DEF Warned

\* What is forgotten was not recorded.
LEMMA ForgottenWarned ==
  ASSUME Warned, UNCHANGED <<memory, ledger>>, due' = Forgotten, resync' \in {resync, NoResync}
  PROVE  Warned'
  BY DEF Warned, Forgotten, Owed, Latched, NoResync

\* No step latches without a warning, nor drops one that is due.
LEMMA WarnedStep ==
  ASSUME Shaped, Typed, Warned, [Next]_vars
  PROVE  Warned'
<1>. USE DEF Owed, Latched
<1>1. CASE UNCHANGED vars
  BY <1>1 DEF Warned, vars, stored
<1>2. ASSUME NEW k, NEW a, NEW moved, EditProfile(k, a, moved) PROVE Warned'
  BY <1>2 DEF Warned, EditProfile, stored
<1>3. ASSUME NEW c, ChangeConfig(c) PROVE Warned'
  BY <1>3 DEF Warned, ChangeConfig, stored, NoResync
<1>4. CASE DeleteProfile
  BY <1>4 DEF Warned, DeleteProfile
<1>5. CASE TickIdle
  BY <1>5 DEF Warned, TickIdle, stored
<1>6. CASE TickUnsupported
  BY <1>6 DEF Warned, TickUnsupported
<1>7. CASE TickNoKey
  BY <1>7 DEF Warned, TickNoKey, vars, stored
<1>8. CASE PollBegins
  BY <1>8 DEF Warned, PollBegins, stored
<1>9. CASE TickFails
  BY <1>9 DEF Warned, TickFails, stored
<1>10. CASE Resync
  BY <1>10 DEF Warned, Resync, NoResync
<1>11. CASE ResyncFails
  <2>1. CASE resync.edited
    BY <1>11, <2>1, ForgottenWarned DEF ResyncFails, Vanish, stored
  <2>2. CASE ~resync.edited
    BY <1>11, <2>2 DEF Warned, ResyncFails, stored, NoResync
  <2>. QED
    BY <2>1, <2>2
<1>12. CASE Publish
  <2>. DEFINE s == outbox.notices
  <2>1. s \in Seq(NoticeType)
    BY DEF Typed, ProcessTyped
  <2>2. /\ s # <<>> /\ outbox'.notices = Tail(s) /\ ledger \subseteq ledger'
        /\ UNCHANGED <<memory, due, resync>>
    BY <1>12 DEF Publish, Shaped
  <2>3. \E n \in ledger' : n.id = s[1].id
    BY <1>12, <2>1 DEF Publish, Sent
  <2>4. ASSUME NEW k \in DOMAIN s, k # 1 PROVE k - 1 \in DOMAIN Tail(s) /\ Tail(s)[k - 1] = s[k]
    BY <2>1, <2>2, <2>4
  <2>. QED
    BY <2>2, <2>3, <2>4 DEF Warned
<1>13. CASE Settle
  BY <1>13 DEF Warned, Settle, stored
<1>14. ASSUME NEW i, RequestAnswers(i) PROVE Warned'
  BY <1>14 DEF Warned, RequestAnswers, stored
<1>15. ASSUME NEW i, PollFails(i) PROVE Warned'
  BY <1>15 DEF Warned, PollFails, stored
<1>16. ASSUME NEW i, PollFailsUnrecorded(i) PROVE Warned'
  BY <1>16 DEF Warned, PollFailsUnrecorded, stored
<1>17. ASSUME NEW i, NEW r \in Reading, PollSucceeds(i, r) PROVE Warned'
  <2>1. Owed => \E n \in ledger : n.id = due
    BY <1>17, NothingWaits DEF PollSucceeds, Answered
  <2>2. ledger' = ledger /\ resync' = resync /\ due' = DueAfter(memory')
    BY <1>17 DEF PollSucceeds
  <2>3. MemoryOK(memory)
    BY DEF Typed, RowsTyped
  <2>4. ASSUME GoesOn(memory, memory') PROVE Warned'
    BY <2>1, <2>2, <2>4 DEF Warned, DueAfter, GoesOn
  <2>5. CASE memory' = NoMemory
    BY <2>2, <2>5 DEF Warned
  <2>6. CASE memory' = memory
    <3>1. Latched(memory) => GoesOn(memory, memory')
      BY <2>3, <2>6, MemoryBoundary DEF GoesOn
    <3>. QED
      BY <2>2, <2>4, <2>6, <3>1 DEF Warned
  <2>7. ASSUME NEW a, NEW c, memory' = Evaluate(a, r, c, memory, clock).memory,
               outbox'.notices = Evaluate(a, r, c, memory, clock).notices
        PROVE  Warned'
    <3>. DEFINE v == Evaluate(a, r, c, memory, clock)
    <3>1. memory' = v.memory /\ outbox'.notices = v.notices
      BY <2>7
    <3>2. Latched(v.memory) => \/ GoesOn(memory, v.memory)
                               \/ \E j \in DOMAIN v.notices : v.notices[j].id = WarningOf(v.memory)
      BY <2>3, EvaluateWarns
    <3>. HIDE DEF v
    <3>3. CASE ~Latched(v.memory)
      BY <2>2, <3>1, <3>3 DEF Warned
    <3>4. CASE ~GoesOn(memory, v.memory) /\ Latched(v.memory)
      <4>1. due' = WarningOf(v.memory)
        BY <2>2, <3>1, <3>4 DEF DueAfter
      <4>. QED
        BY <2>2, <3>1, <3>2, <3>4, <4>1 DEF Warned
    <3>. QED
      BY <2>4, <3>1, <3>3, <3>4
  <2>8. \/ memory' = NoMemory \/ memory' = memory
        \/ \E a, c : /\ memory' = Evaluate(a, r, c, memory, clock).memory
                     /\ outbox'.notices = Evaluate(a, r, c, memory, clock).notices
    BY <1>17 DEF PollSucceeds
  <2>. QED
    BY <2>5, <2>6, <2>7, <2>8
<1>18. CASE Start
  BY <1>18 DEF Warned, Start, stored
<1>19. CASE Stop
  BY <1>19 DEF Warned, Stop, stored
<1>20. CASE Exit
  BY <1>20, ForgottenWarned DEF Exit, Vanish, stored
<1>21. CASE Crash
  BY <1>21, ForgottenWarned DEF Crash, Vanish, stored
<1>22. CASE Clock
  BY <1>22 DEF Warned, Clock, stored
<1>23. CASE PublishFails
  BY <1>23, ForgottenWarned DEF PublishFails, stored
<1>. QED
  BY <1>1, <1>2, <1>3, <1>4, <1>5, <1>6, <1>7, <1>8, <1>9, <1>10, <1>11,
     <1>12, <1>13, <1>14, <1>15, <1>16, <1>17, <1>18, <1>19, <1>20, <1>21, <1>22, <1>23
  DEF Next, User, Timer, Continuation, Poll, Process

\* A latch stands for a warning given, that of the reading which set it, through edits,
\* restarts, deaths of the process, a store that rejects and polls that overlap; save
\* for one that was lost between its two commits (quota-service.ts, l. 330 and 339).
THEOREM LatchesAreTold == Spec => []LatchedMeansTold
<1>1. Init => Shaped /\ Typed /\ Warned
  BY ShapedInit, TypedInit DEF Init, NoResync, Warned, Owed, Latched
<1>2. Shaped /\ Typed /\ Warned /\ [Next]_vars => (Shaped /\ Typed /\ Warned)'
  BY ShapedStep, TypedStep, WarnedStep
<1>3. Shaped /\ Warned => LatchedMeansTold
  BY NothingWaits DEF LatchedMeansTold, Event, Owed
<1>. QED
  BY <1>1, <1>2, <1>3, PTL DEF Spec
-----------------------------------------------------------------------------
(***************************************************************************)
(* No warning is repeated.  A window with a boundary is told by the id of  *)
(* its notice, which the ledger keeps; one without a boundary by the latch *)
(* alone.  The proof takes any number of crashes and overlapping polls.    *)
(***************************************************************************)
WarningId(a, boundary) == [kind |-> "low", adapter |-> a, boundary |-> boundary]

\* The latch of the window without a boundary that was warned about last.
HeldBy(m) ==
  /\ Latched(m) /\ m.window.resetsAt = NoReset
  /\ m.adapter = hush.adapter /\ m.threshold = hush.threshold

\* The last warning, while nothing has changed since, is in the ledger or latched.
Remembered ==
  hush # NoHush =>
    /\ hush.resetsAt # NoReset =>
         \E n \in ledger : n.id = WarningId(hush.adapter, <<"at", hush.resetsAt>>)
    /\ hush.resetsAt = NoReset => HeldBy(memory)

\* A warning that is about to be sent is the last notice, and that of the memory
\* stored with it; if one was sent before and nothing has changed, it is about the
\* same boundary.
DueWarning(n) ==
  /\ Latched(memory) /\ n.id.adapter = memory.adapter /\ n.threshold = memory.threshold
  /\ memory.window.resetsAt # NoReset =>
       n.id = WarningId(n.id.adapter, <<"at", memory.window.resetsAt>>)
  /\ hush # NoHush => hush.resetsAt # NoReset /\ hush.resetsAt = memory.window.resetsAt

Pending ==
  \A i \in DOMAIN outbox.notices :
    outbox.notices[i].id.kind = "low" =>
      i = Len(outbox.notices) /\ DueWarning(outbox.notices[i])

\* An edit has just ended the last warning's time, and is acted upon before
\* anything is sent; what no adapter supports is neither polled nor warned about.
Still ==
  /\ resync.edited => resync.due
  /\ resync.due => hush = NoHush /\ ~outbox.open
  /\ profile.adapter = NoAdapter /\ PollingEnabled(settings) /\ ~resync.edited =>
       polls = <<>> /\ outbox.notices = <<>> /\ hush = NoHush

Mindful == Remembered /\ Pending /\ Still

\* A configuration of no kind asks for nothing.
LEMMA NothingAsked ==
  /\ \A c \in ConfigType : c.kind = "none" => ~PollingEnabled(c)
  /\ ~PollingEnabled(Default("none"))
<1>1. ~PollingEnabled(Default("none"))
  BY DEF PollingEnabled, Default
<1>2. ASSUME NEW c \in ConfigType, c.kind = "none" PROVE c = Default("none")
  <2>1. c \notin Config
    BY <1>2, ConfigAssumption
  <2>2. ASSUME NEW kind \in {"windowed", "balance"}, NEW d \in BOOLEAN
        PROVE  c # [Default(kind) EXCEPT !.display = d]
    BY <1>2, <2>2 DEF Default
  <2>. QED
    BY <2>1, <2>2 DEF ConfigType
<1>. QED
  BY <1>1, <1>2

\* A warning in a verdict is its last notice, and says what the memory kept says.
LEMMA EvaluateLow ==
  ASSUME NEW a, NEW r, NEW c, NEW m, NEW now, NEW v, v = Evaluate(a, r, c, m, now),
         NEW i \in DOMAIN v.notices, v.notices[i].id.kind = "low"
  PROVE  /\ i = Len(v.notices) /\ Latched(v.memory)
         /\ v.memory.window.resetsAt = r.resetsAt
         /\ v.notices[i].id.adapter = v.memory.adapter
         /\ v.notices[i].threshold = v.memory.threshold
         /\ r.resetsAt # NoReset =>
              v.notices[i].id = WarningId(v.notices[i].id.adapter, <<"at", r.resetsAt>>)
<1>1. ~(m # NoMemory /\ now <= m.at)
  BY DEF Evaluate
<1>. DEFINE w == IF ~SameQuestion(m, a, c) THEN Baseline(a, r, c)
                 ELSE IF IsReset(r, m.window, now)
                      THEN AfterReset(a, r, m.window, c)
                      ELSE Watch(a, r, m.window, c)
<1>2. /\ v.notices = w.notices
      /\ v.memory = [adapter |-> a, threshold |-> c.threshold, low |-> c.low, at |-> now,
                     window |-> w.window]
  BY <1>1 DEF Evaluate
<1>3. v.memory # NoMemory
  <2>1. DOMAIN v.memory # DOMAIN NoMemory
    BY <1>2 DEF NoMemory
  <2>. QED
    BY <2>1
<1>4. ASSUME NEW k, v.notices = Warning(a, r, k, c)
      PROVE  v.notices[i] = Notice("low", a, r, k, c) /\ i = Len(v.notices) /\ c.low
  <2>1. v.notices = <<Notice("low", a, r, k, c)>> /\ c.low
    BY <1>4 DEF Warning
  <2>. QED
    BY <2>1
<1>5. SUFFICES /\ \E k : v.notices[i] = Notice("low", a, r, k, c)
               /\ i = Len(v.notices) /\ c.low /\ w.window.latched /\ w.window.resetsAt = r.resetsAt
  BY <1>2, <1>3 DEF Latched, Notice, WarningId
<1>6. CASE ~SameQuestion(m, a, c)
  <2>1. w = Baseline(a, r, c)
    BY <1>6
  <2>2. IsLow(r, c) /\ v.notices = Warning(a, r, 0, c)
    BY <1>2, <2>1 DEF Baseline
  <2>3. w.window.latched /\ w.window.resetsAt = r.resetsAt
    BY <2>1, <2>2 DEF Baseline, Window
  <2>. HIDE DEF w
  <2>. QED
    BY <1>4, <2>2, <2>3
<1>7. CASE SameQuestion(m, a, c) /\ IsReset(r, m.window, now)
  <2>. DEFINE k == m.window.rearms
              N == Notice("reset", a, r, k, c)
              L == Notice("low", a, r, k, c)
              p == IF c.reset THEN <<N>> ELSE <<>>
              q == IF IsLow(r, c) /\ c.low THEN <<L>> ELSE <<>>
  <2>1. w = AfterReset(a, r, m.window, c)
    BY <1>7
  <2>2. v.notices = p \o q
    BY <1>2, <2>1 DEF AfterReset, Warning
  <2>3. N.id.kind = "reset" /\ w.window.resetsAt = r.resetsAt /\ w.window.latched = IsLow(r, c)
    BY <2>1 DEF Notice, AfterReset, Window
  <2>. HIDE DEF N, L, w
  <2>4. <<N>> \in Seq({N, L}) /\ <<L>> \in Seq({N, L}) /\ <<>> \in Seq({N, L})
    OBVIOUS
  <2>5. p \in Seq({N, L}) /\ Len(p) \in 0..1 /\ \A j \in DOMAIN p : p[j] = N
    <3>1. CASE c.reset
      <4>1. p = <<N>>
        BY <3>1
      <4>. HIDE DEF p
      <4>. QED
        BY <2>4, <4>1
    <3>2. CASE ~c.reset
      <4>1. p = <<>>
        BY <3>2
      <4>. HIDE DEF p
      <4>. QED
        BY <2>4, <4>1
    <3>. QED
      BY <3>1, <3>2
  <2>6. CASE ~(IsLow(r, c) /\ c.low)
    <3>1. v.notices = p
      BY <2>2, <2>5, <2>6
    <3>. QED
      BY <2>3, <2>5, <3>1
  <2>7. CASE IsLow(r, c) /\ c.low
    <3>1. v.notices = p \o <<L>>
      BY <2>2, <2>7
    <3>. HIDE DEF p, q
    <3>2. /\ Len(v.notices) = Len(p) + 1 /\ v.notices[Len(p) + 1] = L
          /\ \A j \in 1 .. Len(p) : v.notices[j] = p[j]
          /\ DOMAIN v.notices = 1 .. Len(p) + 1
      BY <2>4, <2>5, <3>1
    <3>3. i \notin 1 .. Len(p)
      BY <2>3, <2>5, <3>2
    <3>4. i = Len(p) + 1
      BY <2>5, <3>2, <3>3
    <3>. QED
      BY <2>3, <2>7, <3>2, <3>4 DEF L
  <2>. QED
    BY <2>6, <2>7
<1>8. CASE SameQuestion(m, a, c) /\ ~IsReset(r, m.window, now)
  <2>. DEFINE k == IF Recovered(r, m.window, c) THEN m.window.rearms + 1 ELSE m.window.rearms
              crossed == Remaining(m.window.used) > c.threshold /\ IsLow(r, c)
              latched == m.window.latched /\ ~Recovered(r, m.window, c)
  <2>1. w = Watch(a, r, m.window, c)
    BY <1>8
  <2>2. ~latched /\ crossed /\ v.notices = Warning(a, r, k, c)
    BY <1>2, <2>1 DEF Watch
  <2>3. w.window.latched = (latched \/ crossed) /\ w.window.resetsAt = r.resetsAt
    BY <2>1 DEF Watch, Window
  <2>. HIDE DEF k, crossed, latched, w
  <2>4. w.window.latched
    BY <2>2, <2>3
  <2>. QED
    BY <1>4, <2>2, <2>3, <2>4
<1>. QED
  BY <1>6, <1>7, <1>8

\* While the question stays the same, a window without a boundary stays latched,
\* and nothing is sent, until a reading recovers beyond the band.
LEMMA EvaluateHolds ==
  ASSUME NEW a, NEW r, NEW c, NEW m, NEW now, NEW v, v = Evaluate(a, r, c, m, now),
         Latched(m), m.window.resetsAt = NoReset, r.resetsAt = NoReset,
         Latched(v.memory) \/ v.memory.low, 
         v.memory.adapter = m.adapter, v.memory.threshold = m.threshold,
         ~(Remaining(r.used) >= m.threshold + Hysteresis)
  PROVE  Latched(v.memory) /\ v.memory.window.resetsAt = NoReset /\ v.notices = <<>>
<1>1. CASE m # NoMemory /\ now <= m.at
  BY <1>1 DEF Evaluate
<1>2. CASE ~(m # NoMemory /\ now <= m.at)
  <2>1. v.memory.adapter = a /\ v.memory.threshold = c.threshold /\ v.memory.low = c.low
    BY <1>2 DEF Evaluate
  <2>2. SameQuestion(m, a, c)
    BY <2>1 DEF Latched, SameQuestion
  <2>3. ~IsReset(r, m.window, now) /\ ~Recovered(r, m.window, c)
    BY <2>1 DEF IsReset, Recovered
  <2>. DEFINE w == Watch(a, r, m.window, c)
  <2>4. /\ v.notices = w.notices
        /\ v.memory = [adapter |-> a, threshold |-> c.threshold, low |-> c.low, at |-> now,
                       window |-> w.window]
    BY <1>2, <2>2, <2>3 DEF Evaluate
  <2>5. w.notices = <<>> /\ w.window.latched /\ w.window.resetsAt = NoReset
    BY <2>3 DEF Watch, Window, Latched
  <2>. HIDE DEF w
  <2>6. v.memory # NoMemory
    <3>1. DOMAIN v.memory # DOMAIN NoMemory
      BY <2>4 DEF NoMemory
    <3>. QED
      BY <3>1
  <2>. QED
    BY <2>1, <2>4, <2>5, <2>6 DEF Latched
<1>. QED
  BY <1>1, <1>2

\* Memory and ledger stay, and nothing is left or begun to be sent.
LEMMA RestMindful ==
  ASSUME Remembered, UNCHANGED <<memory, ledger>>, hush' \in {hush, NoHush},
         outbox'.notices = <<>> \/ (Pending /\ outbox' = outbox)
  PROVE  Remembered' /\ Pending'
<1>1. Remembered'
  BY DEF Remembered, HeldBy
<1>2. CASE outbox'.notices = <<>>
  <2>1. DOMAIN outbox'.notices = {}
    BY <1>2
  <2>. QED
    BY <1>1, <2>1 DEF Pending
<1>3. CASE Pending /\ outbox' = outbox
  <2>1. \A n : DueWarning(n) => DueWarning(n)'
    BY DEF DueWarning, Latched
  <2>. QED
    BY <1>1, <1>3, <2>1 DEF Pending
<1>. QED
  BY <1>1, <1>2, <1>3

\* One notice of the outbox is sent or known already.
LEMMA PublishMindful ==
  ASSUME Shaped, Typed, Remembered, Pending, Publish
  PROVE  Remembered' /\ Pending'
<1>. DEFINE s == outbox.notices
            n == Head(s)
<1>1. /\ s \in Seq(NoticeType) /\ s # <<>> /\ memory' = memory
      /\ outbox'.notices = Tail(s)
  BY DEF Publish, Typed, ProcessTyped, Shaped
<1>2. /\ n = s[1] /\ 1 \in DOMAIN s /\ Len(s) \in Nat /\ Len(s) > 0
      /\ Len(Tail(s)) = Len(s) - 1 /\ DOMAIN Tail(s) = 1 .. Len(s) - 1
      /\ \A i \in 1 .. Len(s) - 1 : i + 1 \in DOMAIN s /\ Tail(s)[i] = s[i + 1]
  BY <1>1
<1>3. \/ UNCHANGED <<ledger, hush>>
      \/ ledger' = ledger \cup {n} /\ n.id.kind # "low" /\ hush' = hush
      \/ /\ ledger' = ledger \cup {n} /\ n.id.kind = "low"
         /\ hush' = [adapter |-> n.id.adapter, threshold |-> n.threshold,
                     resetsAt |-> memory.window.resetsAt]
  BY DEF Publish
<1>. HIDE DEF n, s
<1>4. CASE UNCHANGED hush /\ ledger \subseteq ledger'
  <2>1. Remembered'
    BY <1>1, <1>4 DEF Remembered, HeldBy
  <2>2. Pending'
    <3>1. ASSUME NEW i \in DOMAIN Tail(s), NEW x, x = Tail(s)[i], x.id.kind = "low"
          PROVE  i = Len(Tail(s)) /\ DueWarning(x)
      <4>1. i + 1 \in DOMAIN s /\ x = s[i + 1] /\ i \in Nat
        BY <1>2, <3>1
      <4>2. i + 1 = Len(s) /\ DueWarning(x)
        BY <3>1, <4>1 DEF Pending, s
      <4>. QED
        BY <1>2, <4>1, <4>2
    <3>2. ASSUME NEW x, DueWarning(x) PROVE DueWarning(x)'
      BY <1>1, <1>4, <3>2 DEF DueWarning, Latched
    <3>. QED
      BY <1>1, <3>1, <3>2 DEF Pending
  <2>. QED
    BY <2>1, <2>2
<1>5. CASE /\ ledger' = ledger \cup {n} /\ n.id.kind = "low"
           /\ hush' = [adapter |-> n.id.adapter, threshold |-> n.threshold,
                       resetsAt |-> memory.window.resetsAt]
  <2>1. 1 = Len(s) /\ DueWarning(n)
    BY <1>2, <1>5 DEF Pending, s
  <2>2. Pending'
    BY <1>1, <1>2, <2>1 DEF Pending
  <2>3. Remembered'
    BY <1>1, <1>5, <2>1 DEF Remembered, HeldBy, DueWarning
  <2>. QED
    BY <2>2, <2>3
<1>. QED
  BY <1>3, <1>4, <1>5

\* A reading keeps the last warning's time only if it tells of the same situation.
LEMMA SucceedsMindful ==
  ASSUME Shaped, Remembered, Pending, NEW i, NEW r, PollSucceeds(i, r)
  PROVE  Remembered' /\ Pending'
<1>0. Quiet /\ ledger' = ledger /\ outbox.notices = <<>>
  BY DEF PollSucceeds, Answered, Quiet, Shaped
<1>1. ASSUME memory' \in {memory, NoMemory}, outbox'.notices = <<>>,
             hush' = NoHush \/ (hush' = hush /\ ~Unlatched(memory'))
      PROVE  Remembered' /\ Pending'
  <2>1. Pending'
    BY <1>1 DEF Pending
  <2>2. CASE hush' = NoHush
    BY <2>1, <2>2 DEF Remembered
  <2>3. CASE hush' = hush /\ hush # NoHush
    <3>1. hush.resetsAt = NoReset => memory' = memory
      BY <1>1, <2>3 DEF Unlatched
    <3>. QED
      BY <1>0, <2>1, <2>3, <3>1 DEF Remembered, HeldBy
  <2>. QED
    BY <1>1, <2>1, <2>2, <2>3
<1>2. ASSUME NEW a, NEW c, memory' = Evaluate(a, r, c, memory, clock).memory,
             outbox'.notices = Evaluate(a, r, c, memory, clock).notices,
             hush' = IF Changed(r) THEN NoHush ELSE Hushed(memory')
      PROVE  Remembered' /\ Pending'
  <2>. DEFINE v == Evaluate(a, r, c, memory, clock)
  <2>1. v = Evaluate(a, r, c, memory, clock) /\ memory' = v.memory /\ outbox'.notices = v.notices
    BY <1>2
  <2>. HIDE DEF v
  <2>2. ASSUME NEW j \in DOMAIN v.notices, v.notices[j].id.kind = "low"
        PROVE  /\ j = Len(v.notices) /\ Latched(v.memory)
               /\ v.memory.window.resetsAt = r.resetsAt
               /\ v.notices[j].id.adapter = v.memory.adapter
               /\ v.notices[j].threshold = v.memory.threshold
               /\ r.resetsAt # NoReset =>
                    v.notices[j].id = WarningId(v.notices[j].id.adapter, <<"at", r.resetsAt>>)
    BY <2>1, <2>2, EvaluateLow
  <2>3. CASE hush' = NoHush
    BY <2>1, <2>2, <2>3 DEF Remembered, Pending, DueWarning
  <2>4. CASE hush' = hush /\ hush # NoHush
    <3>1. ~Changed(r) /\ ~Unlatched(v.memory)
      BY <1>2, <2>1, <2>4 DEF Hushed
    <3>2. r.resetsAt = hush.resetsAt /\ ~(Remaining(r.used) >= hush.threshold + Hysteresis)
      BY <2>4, <3>1 DEF Changed
    <3>3. CASE hush.resetsAt # NoReset
      <4>1. Remembered'
        BY <1>0, <2>4, <3>3 DEF Remembered
      <4>2. Pending'
        BY <2>1, <2>2, <2>4, <3>2, <3>3 DEF Pending, DueWarning
      <4>. QED
        BY <4>1, <4>2
    <3>4. CASE hush.resetsAt = NoReset
      <4>1. HeldBy(memory)
        BY <2>4, <3>4 DEF Remembered
      <4>2. /\ v.memory.low /\ v.memory.adapter = memory.adapter
            /\ v.memory.threshold = memory.threshold
        BY <2>4, <3>1, <3>4, <4>1 DEF Unlatched, HeldBy
      <4>3. Latched(v.memory) /\ v.memory.window.resetsAt = NoReset /\ v.notices = <<>>
        BY <2>1, <3>2, <3>4, <4>1, <4>2, EvaluateHolds DEF HeldBy
      <4>4. Pending'
        BY <2>1, <4>3 DEF Pending
      <4>5. Remembered'
        BY <2>1, <2>4, <3>4, <4>1, <4>2, <4>3 DEF Remembered, HeldBy
      <4>. QED
        BY <4>4, <4>5
    <3>. QED
      BY <3>3, <3>4
  <2>. QED
    BY <1>2, <2>3, <2>4 DEF Hushed
<1>3. \/ /\ memory' \in {memory, NoMemory} /\ outbox'.notices = <<>>
         /\ hush' = NoHush \/ (hush' = hush /\ ~Unlatched(memory'))
      \/ \E a, c : /\ memory' = Evaluate(a, r, c, memory, clock).memory
                   /\ outbox'.notices = Evaluate(a, r, c, memory, clock).notices
                   /\ hush' = IF Changed(r) THEN NoHush ELSE Hushed(memory')
  BY DEF PollSucceeds, Hushed
<1>. QED
  BY <1>1, <1>2, <1>3

LEMMA MindfulStep ==
  ASSUME Shaped, Typed, Mindful, [Next]_vars
  PROVE  Mindful'
<1>. USE DEF Mindful
<1>1. CASE UNCHANGED vars
  BY <1>1, RestMindful DEF Still, vars, stored
<1>2. ASSUME NEW k, NEW a, NEW moved, EditProfile(k, a, moved) PROVE Mindful'
  BY <1>2, RestMindful DEF Still, EditProfile, Edit, Event, Quiet, stored
<1>3. ASSUME NEW c, ChangeConfig(c) PROVE Mindful'
  <2>1. profile.adapter = NoAdapter => ~PollingEnabled(settings')
    BY <1>3, AdapterAssumption, NothingAsked DEF ChangeConfig, ConfigsOf
  <2>. QED
    BY <1>3, <2>1, RestMindful DEF Still, ChangeConfig, Edit, Event, Quiet, stored, NoResync
<1>4. CASE DeleteProfile
  <2>1. Still'
    BY <1>4, NothingAsked DEF Still, DeleteProfile, Edit, Event, Quiet
  <2>2. hush' = NoHush /\ outbox'.notices = <<>>
    BY <1>4 DEF DeleteProfile, Edit, Event, Quiet, Shaped
  <2>. QED
    BY <2>1, <2>2 DEF Remembered, Pending
<1>5. CASE TickIdle
  BY <1>5, RestMindful DEF Still, TickIdle, stored
<1>6. CASE TickUnsupported
  <2>1. hush = NoHush /\ hush' = NoHush /\ outbox'.notices = <<>>
    BY <1>6 DEF TickUnsupported, Still, Tick, Event, Quiet
  <2>2. Still'
    BY <1>6 DEF Still, TickUnsupported
  <2>. QED
    BY <2>1, <2>2 DEF Remembered, Pending
<1>7. CASE TickNoKey
  BY <1>7, RestMindful DEF Still, TickNoKey, vars, stored
<1>8. CASE PollBegins
  BY <1>8, RestMindful DEF Still, PollBegins, Pollable, stored
<1>9. CASE TickFails
  BY <1>9, RestMindful DEF Still, TickFails, stored
<1>10. CASE Resync
  <2>1. hush' = NoHush /\ outbox'.notices = <<>> /\ ~resync'.due /\ ~resync'.edited
    BY <1>10 DEF Resync, Still, Shaped, NoResync
  <2>2. ASSUME profile.adapter = NoAdapter PROVE ~PollingEnabled(settings')
    <3>1. KindOf(NoAdapter) = "none" /\ settings \in ConfigType
      BY AdapterAssumption DEF KindOf, Typed, RowsTyped
    <3>. QED
      BY <1>10, <2>2, <3>1, NothingAsked DEF Resync, RebaseConfig
  <2>. QED
    BY <1>10, <2>1, <2>2 DEF Remembered, Pending, Still, Resync
<1>11. CASE ResyncFails
  <2>1. /\ hush = NoHush /\ hush' = NoHush /\ outbox'.notices = <<>>
        /\ ~resync'.due /\ ~resync'.edited
        /\ UNCHANGED <<memory, ledger, profile, settings>>
    BY <1>11 DEF ResyncFails, Vanish, Still, Shaped, NoResync, NoOutbox, stored
  <2>2. Remembered' /\ Pending'
    BY <2>1, RestMindful
  <2>3. CASE resync.edited
    BY <1>11, <2>1, <2>2, <2>3 DEF ResyncFails, Vanish, Still
  <2>4. CASE ~resync.edited
    BY <1>11, <2>1, <2>2, <2>4 DEF ResyncFails, Still
  <2>. QED
    BY <2>3, <2>4
<1>12. CASE Publish
  <2>1. ~resync.due /\ outbox.notices # <<>> /\ UNCHANGED <<profile, settings, resync, polls>>
    BY <1>12 DEF Publish, Still, Shaped
  <2>2. Still'
    BY <2>1 DEF Still
  <2>. QED
    BY <1>12, <2>2, PublishMindful
<1>13. CASE Settle
  BY <1>13, RestMindful DEF Still, Settle, stored, NoOutbox
<1>23. CASE PublishFails
  BY <1>23, RestMindful DEF Still, PublishFails, stored, NoOutbox
<1>14. ASSUME NEW i, RequestAnswers(i) PROVE Mindful'
  BY <1>14, RestMindful DEF Still, RequestAnswers, Answered, stored
<1>15. ASSUME NEW i, PollFails(i) PROVE Mindful'
  BY <1>15, RestMindful DEF Still, PollFails, Answered, stored
<1>16. ASSUME NEW i, PollFailsUnrecorded(i) PROVE Mindful'
  BY <1>16, RestMindful DEF Still, PollFailsUnrecorded, Answered, stored
<1>17. ASSUME NEW i, NEW r, PollSucceeds(i, r) PROVE Mindful'
  <2>1. ~resync.due /\ polls # <<>> /\ UNCHANGED <<profile, settings, resync>>
    BY <1>17 DEF PollSucceeds, Answered, Quiet
  <2>2. Still'
    BY <2>1 DEF Still
  <2>. QED
    BY <1>17, <2>2, SucceedsMindful
<1>18. CASE Start
  BY <1>18, RestMindful DEF Still, Start, stored
<1>19. CASE Stop
  BY <1>19, RestMindful DEF Still, Stop, stored
<1>20. CASE Exit
  BY <1>20, RestMindful DEF Still, Exit, Vanish, NoResync, NoOutbox, stored
<1>21. CASE Crash
  BY <1>21, RestMindful DEF Still, Crash, Vanish, NoResync, NoOutbox, stored
<1>22. CASE Clock
  BY <1>22, RestMindful DEF Still, Clock, stored
<1>. QED
  BY <1>1, <1>2, <1>3, <1>4, <1>5, <1>6, <1>7, <1>8, <1>9, <1>10, <1>11,
     <1>12, <1>13, <1>14, <1>15, <1>16, <1>17, <1>18, <1>19, <1>20, <1>21, <1>22, <1>23
  DEF Next, User, Timer, Continuation, Poll, Process

\* A warning is not repeated while the situation is the one warned about, however
\* often the process dies between two commits, whatever polls overlap and however
\* the provider moves the boundaries (quota-transitions.ts:6-15).
THEOREM WarnsOnce == Spec => NoNagging
<1>. DEFINE Fresh ==
       \A n \in ledger' \ ledger :
         n.id.kind = "low" =>
           \/ hush = NoHush
           \/ hush.adapter # n.id.adapter \/ hush.threshold # n.threshold
<1>1. Init => Shaped /\ Typed /\ Mindful
  <2>. SUFFICES ASSUME Init PROVE Mindful
    BY ShapedInit, TypedInit
  <2>1. /\ outbox.notices = <<>> /\ hush = NoHush /\ ~resync.due /\ ~resync.edited
        /\ profile.adapter # NoAdapter
    BY AdapterAssumption DEF Init, NoOutbox, NoResync, Adapter
  <2>. QED
    BY <2>1 DEF Mindful, Remembered, Pending, Still
<1>2. Shaped /\ Typed /\ Mindful /\ [Next]_vars => (Shaped /\ Typed /\ Mindful)'
  BY ShapedStep, TypedStep, MindfulStep
<1>3. Shaped /\ Typed /\ Mindful /\ [Next]_vars => [Fresh]_vars
  <2>. SUFFICES ASSUME Shaped, Typed, Mindful, [Next]_vars PROVE Fresh
    OBVIOUS
  <2>1. Publish \/ ledger' \subseteq ledger
    BY DEF Next, User, EditProfile, ChangeConfig, DeleteProfile, Timer, TickIdle, TickUnsupported,
       TickNoKey, PollBegins, TickFails, Continuation, Resync, ResyncFails, PublishFails, Settle, Poll,
       RequestAnswers, PollFails, PollFailsUnrecorded, PollSucceeds, Process, Start, Stop, Exit,
       Crash, Vanish, Clock, vars, stored
  <2>2. CASE Publish
    <3>. DEFINE s == outbox.notices
    <3>1. s \in Seq(NoticeType) /\ s # <<>>
      BY <2>2 DEF Publish, Typed, ProcessTyped
    <3>2. Head(s) = s[1] /\ 1 \in DOMAIN s
      BY <3>1
    <3>. SUFFICES ASSUME NEW n \in ledger' \ ledger, n.id.kind = "low", hush # NoHush,
                         hush.adapter = n.id.adapter
                  PROVE  FALSE
      OBVIOUS
    <3>3. n = s[1] /\ ~\E old \in ledger : old.id = n.id
      BY <2>2, <3>2 DEF Publish, Sent
    <3>4. DueWarning(n)
      BY <3>2, <3>3 DEF Mindful, Pending
    <3>. QED
      BY <3>3, <3>4 DEF Mindful, Remembered, DueWarning
  <2>. QED
    BY <2>1, <2>2
<1>. QED
  BY <1>1, <1>2, <1>3, PTL DEF Spec, NoNagging
=============================================================================
