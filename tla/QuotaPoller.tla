---------------------------- MODULE QuotaPoller ----------------------------
(***************************************************************************)
(* services/api/src/domain/quota/quota-service.ts: the poller that reads   *)
(* the quota of a provider profile while the user wants to see it or to be *)
(* warned, keeps the last reading with the memory of QuotaTransitions, and *)
(* sends each notice once.  Profiles share nothing; this is one of them,   *)
(* with its edits, its deletion and the restarts of the server.            *)
(*                                                                         *)
(* The requests to the provider are the only real waits.  What follows an  *)
(* answer, an edit or a timer runs through microtasks to its end before    *)
(* another event is served ("Quiet"), but it commits to SQLite several     *)
(* times on its way, and the process may die between two commits.          *)
(* How long a scheduled poll waits (period, jitter, backoff) is left out:  *)
(* it may come at any time.                                                *)
(***************************************************************************)
EXTENDS QuotaTransitions, SequencesExt

CONSTANTS
  Windowed, Balance,  \* adapters: of providers with windows, with a balance
  NoAdapter,          \* the capability of a provider that reports nothing
  TwoStep,            \* adapters that ask with two requests, one after another
  Key, NoKey,         \* API keys; each stands for an account
  Config,             \* windowed configurations the user may choose
  Used, Boundary,     \* what a reading may say: percents used, ends of windows
  MaxTime,            \* bound: the clock
  MaxRearms,          \* bound: recoveries of a window without boundary
  MaxInFlight,        \* bound: polls in flight
  MaxEdits,           \* bound: edits of the profile or its configuration
  MaxCrashes,         \* bound: crashes
  MaxStops,           \* bound: shutdowns
  StoreMayFail        \* the store may reject (SQLITE_BUSY)

ASSUME AdapterAssumption ==
  /\ NoAdapter \notin Windowed \cup Balance
  /\ Windowed \cap Balance = {}
  /\ TwoStep \subseteq Windowed \cup Balance
ASSUME KeyAssumption == NoKey \notin Key
ASSUME BoundaryAssumption == Boundary \subseteq Nat \ {0}
ASSUME ConfigAssumption ==
  Config \subseteq [kind : {"windowed"}, display : BOOLEAN, low : BOOLEAN, reset : BOOLEAN,
                   threshold : Nat]
ASSUME LimitAssumption ==
  /\ MaxTime \in Nat /\ MaxRearms \in Nat /\ MaxInFlight \in Nat
  /\ MaxEdits \in Nat /\ MaxCrashes \in Nat /\ MaxStops \in Nat
  /\ StoreMayFail \in BOOLEAN

VARIABLES
  profile,    \* the provider profile: exists, key, adapter
  settings,   \* its quota configuration
  snapshot,   \* the stored reading: of which account, by which adapter, when
  memory,     \* the memory of QuotaTransitions, stored with it
  ledger,     \* the notices that have been sent
  phase,      \* of the process: down, up, stopping
  timer,      \* a poll is scheduled
  polls,      \* the polls in flight, in the order in which they began
  resync,     \* resyncProfile() is about to act on an edit
  outbox,     \* applyReading() is sending its notices
  clock,
  hush,       \* history: the last warning, while nothing has changed since
  due,        \* history: the warning the latch stands for, unless it was lost
  edits, crashes, stops

stored   == <<snapshot, memory, ledger>>
counters == <<edits, crashes, stops>>
history  == <<hush, due>>
vars == <<profile, settings, stored, phase, timer, polls, resync, outbox, clock, history, counters>>

-----------------------------------------------------------------------------
Adapter == Windowed \cup Balance
KindOf(a) == IF a \in Windowed THEN "windowed" ELSE IF a \in Balance THEN "balance" ELSE "none"

Default(kind) ==
  [kind |-> kind, display |-> FALSE, low |-> FALSE, reset |-> FALSE, threshold |-> 1]

\* Every configuration the profile may have while it has this adapter.
ConfigsOf(a) ==
  CASE a \in Windowed -> Config
    [] a \in Balance  -> {[Default("balance") EXCEPT !.display = d] : d \in BOOLEAN}
    [] OTHER          -> {Default("none")}

\* isQuotaPollingEnabled(): any of the three toggles.
PollingEnabled(c) == c.display \/ c.low \/ c.reset

\* Notification settings belong to the old kind, the display toggle to the user.
RebaseConfig(c, kind) ==
  IF kind = "none" \/ c.kind = "none" THEN Default(kind)
                                      ELSE [Default(kind) EXCEPT !.display = c.display]

AsWindowed(c) == IF c.kind = "windowed" THEN c ELSE RebaseConfig(c, "windowed")

NoSnapshot == [adapter |-> "none"]
NoResync   == [due |-> FALSE, edited |-> FALSE, identity |-> FALSE, account |-> FALSE]
NoOutbox   == [open |-> FALSE, notices |-> <<>>]
NoHush     == [adapter |-> "none"]
NoDue      == [kind |-> "none"]

NoticeId == [kind : {"low", "reset"}, adapter : Windowed,
             boundary : ({"at"} \X Boundary) \cup ({"noreset"} \X (0..MaxRearms))]
ConfigType ==
  Config \cup {[Default(kind) EXCEPT !.display = d] : kind \in {"windowed", "balance"}, d \in BOOLEAN}
         \cup {Default("none")}
NoticeType == [id : NoticeId, threshold : {0} \cup {c.threshold : c \in ConfigType}]

TypeOK ==
  /\ profile \in [exists : BOOLEAN, key : Key \cup {NoKey}, adapter : Adapter \cup {NoAdapter}]
  /\ settings \in ConfigType
  /\ \/ snapshot = NoSnapshot
     \/ snapshot \in [adapter : Adapter \cup {NoAdapter}, key : Key \cup {NoKey},
                      at : 0..MaxTime]
  /\ \/ memory = NoMemory
     \/ /\ memory.adapter \in Windowed /\ memory.at \in 0..MaxTime
        /\ memory.window.used \in Used /\ memory.window.rearms \in 0..MaxRearms
        /\ memory.window.resetsAt \in Boundary \cup {NoReset}
        /\ memory.window.latched \in BOOLEAN
  /\ ledger \subseteq NoticeType
  /\ phase \in {"down", "up", "stopping"}
  /\ timer \in BOOLEAN
  /\ Len(polls) <= MaxInFlight
  /\ \A i \in DOMAIN polls : /\ polls[i].key \in Key /\ polls[i].adapter \in Adapter
                             /\ polls[i].left \in 1..2
  /\ resync \in [due : BOOLEAN, edited : BOOLEAN, identity : BOOLEAN, account : BOOLEAN]
  /\ outbox.open \in BOOLEAN /\ outbox.notices \in Seq(NoticeType)
  /\ clock \in 0..MaxTime
  /\ due \in NoticeId \cup {NoDue}
  /\ edits \in 0..MaxEdits /\ crashes \in 0..MaxCrashes /\ stops \in 0..MaxStops

Init ==
  /\ profile \in [exists : {TRUE}, key : Key, adapter : Adapter]
  /\ settings \in ConfigsOf(profile.adapter)
  /\ snapshot = NoSnapshot /\ memory = NoMemory /\ ledger = {}
  /\ phase = "down" /\ timer = FALSE /\ polls = <<>>
  /\ resync = NoResync /\ outbox = NoOutbox
  /\ clock = 0 /\ hush = NoHush /\ due = NoDue
  /\ edits = 0 /\ crashes = 0 /\ stops = 0

\* The microtask queue is empty: an event of another kind may be served.
Quiet == ~resync.due /\ ~outbox.open
Event == phase = "up" /\ Quiet
Edit  == Event /\ profile.exists /\ edits < MaxEdits /\ edits' = edits + 1

-----------------------------------------------------------------------------
(* Edits by the user, and resyncProfile().                                 *)

\* The profile is saved and the poller hears of it.  An endpoint may move
\* without a change of adapter.
EditProfile(k, a, moved) ==
  /\ Edit
  /\ profile' = [profile EXCEPT !.key = k, !.adapter = a]
  /\ resync' = [due |-> TRUE, edited |-> TRUE,
                identity |-> moved \/ k # profile.key \/ a # profile.adapter,
                account  |-> k # profile.key]
  /\ hush' = NoHush
  /\ UNCHANGED <<settings, stored, phase, timer, polls, outbox, clock, due, crashes, stops>>

\* The route that saves the toggles calls the poller itself.
ChangeConfig(c) ==
  /\ Edit
  /\ c \in ConfigsOf(profile.adapter)
  /\ settings' = c
  /\ resync' = [NoResync EXCEPT !.due = TRUE]
  /\ hush' = NoHush
  /\ UNCHANGED <<profile, stored, phase, timer, polls, outbox, clock, due, crashes, stops>>

\* The rows of a deleted profile go with it (ON DELETE CASCADE).
DeleteProfile ==
  /\ Edit
  /\ profile' = [profile EXCEPT !.exists = FALSE]
  /\ settings' = Default("none")
  /\ snapshot' = NoSnapshot /\ memory' = NoMemory /\ ledger' = {}
  /\ timer' = FALSE
  /\ hush' = NoHush
  /\ UNCHANGED <<phase, polls, resync, outbox, clock, due, crashes, stops>>

\* Mutant: a changed configuration does not wake a poller that has stopped.
Resync_Passive ==
  /\ resync.due
  /\ resync' = NoResync
  /\ settings' = IF settings.kind # KindOf(profile.adapter)
                 THEN RebaseConfig(settings, KindOf(profile.adapter)) ELSE settings
  /\ IF resync.identity THEN snapshot' = NoSnapshot /\ memory' = NoMemory
                        ELSE UNCHANGED <<snapshot, memory>>
  /\ ledger' = IF resync.account THEN {} ELSE ledger
  /\ timer' = (timer /\ PollingEnabled(settings'))
  /\ UNCHANGED <<profile, phase, polls, outbox, clock, history, counters>>

\* The schedule is cancelled, what no longer holds is deleted, and a new poll
\* is due at once.
Resync ==
  /\ resync.due
  /\ resync' = NoResync
  /\ settings' = IF settings.kind # KindOf(profile.adapter)
                 THEN RebaseConfig(settings, KindOf(profile.adapter)) ELSE settings
  /\ IF resync.identity THEN snapshot' = NoSnapshot /\ memory' = NoMemory
                        ELSE UNCHANGED <<snapshot, memory>>
  /\ ledger' = IF resync.account THEN {} ELSE ledger
  /\ timer' = PollingEnabled(settings')
  /\ UNCHANGED <<profile, phase, polls, outbox, clock, history, counters>>

\* Notices that have not been recorded are never computed again.
Forgotten == IF \E i \in DOMAIN outbox.notices : outbox.notices[i].id = due THEN NoDue ELSE due

\* Whatever is not in the database is lost.
Vanish ==
  /\ phase' = "down" /\ timer' = FALSE /\ polls' = <<>>
  /\ resync' = NoResync /\ outbox' = NoOutbox
  /\ due' = Forgotten
  /\ UNCHANGED <<profile, settings, stored, clock, hush, edits>>

\* Its first read is rejected: the schedule has been cancelled already.  A
\* request reports the error; nobody catches it on the way from the event
\* bus, and an unhandled rejection ends the process.
ResyncFails ==
  /\ StoreMayFail
  /\ resync.due
  /\ IF resync.edited
     THEN crashes < MaxCrashes /\ crashes' = crashes + 1 /\ Vanish /\ UNCHANGED stops
     ELSE /\ resync' = NoResync
          /\ timer' = FALSE
          /\ UNCHANGED <<profile, settings, stored, phase, polls, outbox, clock, history, counters>>

-----------------------------------------------------------------------------
(* pollProfile().  The timer has fired.                                    *)

Tick ==
  /\ Event
  /\ timer

\* There is nothing to poll any more: cancel().
TickIdle ==
  /\ Tick
  /\ ~profile.exists \/ ~PollingEnabled(settings)
  /\ timer' = FALSE
  /\ UNCHANGED <<profile, settings, stored, phase, polls, resync, outbox, clock, history, counters>>

\* The provider has no adapter: that is recorded, and cancel().
TickUnsupported ==
  /\ Tick
  /\ profile.exists /\ PollingEnabled(settings)
  /\ profile.adapter = NoAdapter
  /\ snapshot' = [adapter |-> NoAdapter, key |-> profile.key, at |-> 0]
  /\ memory' = NoMemory
  /\ timer' = FALSE
  /\ UNCHANGED <<profile, settings, ledger, phase, polls, resync, outbox, clock, history, counters>>

Pollable == profile.exists /\ PollingEnabled(settings) /\ profile.adapter # NoAdapter

\* Without a key there is a failure to record and a retry to schedule.
TickNoKey ==
  /\ Tick
  /\ Pollable /\ profile.key = NoKey
  /\ UNCHANGED vars

\* The first request goes out, with what is true now.
PollBegins ==
  /\ Tick
  /\ Pollable /\ profile.key # NoKey
  /\ Len(polls) < MaxInFlight
  /\ timer' = FALSE
  /\ polls' = Append(polls, [key |-> profile.key, adapter |-> profile.adapter,
                             config |-> settings,
                             left |-> IF profile.adapter \in TwoStep THEN 2 ELSE 1])
  /\ UNCHANGED <<profile, settings, stored, phase, resync, outbox, clock, history, counters>>

\* The store rejects one of the reads: logged, and that is all.
TickFails ==
  /\ StoreMayFail
  /\ Tick
  /\ timer' = FALSE
  /\ UNCHANGED <<profile, settings, stored, phase, polls, resync, outbox, clock, history, counters>>

Answered(i) == phase # "down" /\ Quiet /\ i \in DOMAIN polls

\* An answer came and there is one more question.
RequestAnswers(i) ==
  /\ Answered(i)
  /\ polls[i].left = 2
  /\ polls' = [polls EXCEPT ![i].left = 1]
  /\ UNCHANGED <<profile, settings, stored, phase, timer, resync, outbox, clock, history, counters>>

\* schedule(), which a stopped service refuses.
Schedule == timer' = (timer \/ phase = "up")

\* Mutant: the retry is scheduled before the failure is recorded.
PollFails_ScheduleFirst(i) ==
  /\ Answered(i)
  /\ polls' = RemoveAt(polls, i)
  /\ Schedule
  /\ UNCHANGED <<profile, settings, stored, phase, resync, outbox, clock, history, counters>>

\* A request fails or its answer makes no sense: the failure is recorded next
\* to the old reading and a retry is scheduled.  Whatever the answer, the
\* write fails if the profile is gone, and so does the recording of that.
PollFails(i) ==
  /\ Answered(i)
  /\ polls' = RemoveAt(polls, i)
  /\ IF profile.exists THEN Schedule ELSE UNCHANGED timer
  /\ UNCHANGED <<profile, settings, stored, phase, resync, outbox, clock, history, counters>>

\* The recording itself is rejected by the store.
PollFailsUnrecorded(i) ==
  /\ StoreMayFail
  /\ Answered(i)
  /\ polls' = RemoveAt(polls, i)
  /\ UNCHANGED <<profile, settings, stored, phase, timer, resync, outbox, clock, history, counters>>

\* The reading shows that what was warned about has changed.
Changed(r) ==
  /\ hush # NoHush
  /\ \/ r.resetsAt # hush.resetsAt
     \/ Remaining(r.used) >= hush.threshold + Hysteresis

\* A window without a boundary is known by its latch alone, and the memory kept is
\* not the one that holds it: an answer to a poll of before an edit came late.
Unlatched(m) ==
  /\ hush # NoHush /\ hush.resetsAt = NoReset
  /\ ~(m # NoMemory /\ m.low /\ m.adapter = hush.adapter /\ m.threshold = hush.threshold)

Hushed(m) == IF Unlatched(m) THEN NoHush ELSE hush

\* The warning that a latch stands for: the one of the reading that set it.  A latch
\* goes on while the question is the same and its window has neither a later end nor
\* recovered.
Latched(m) == m # NoMemory /\ m.low /\ m.window.latched

GoesOn(m, later) ==
  /\ Latched(m)
  /\ m.adapter = later.adapter /\ m.threshold = later.threshold
  /\ later.window.resetsAt <= m.window.resetsAt
  /\ later.window.rearms = m.window.rearms

WarningOf(m) ==
  [kind |-> "low", adapter |-> m.adapter,
   boundary |-> IF m.window.resetsAt = NoReset THEN <<"noreset", m.window.rearms>>
                                               ELSE <<"at", m.window.resetsAt>>]

DueAfter(m) ==
  IF ~Latched(m) THEN NoDue ELSE IF GoesOn(memory, m) THEN due ELSE WarningOf(m)

\* applyReading(): store the reading with the new memory, then send notices.
PollSucceeds(i, r) ==
  /\ Answered(i)
  /\ profile.exists
  /\ polls[i].left = 1
  /\ polls' = RemoveAt(polls, i)
  /\ LET p       == polls[i]
         verdict == Evaluate(p.adapter, r, AsWindowed(p.config), memory, clock)
         reading == [adapter |-> p.adapter, key |-> p.key, at |-> clock]
     IN \/ /\ p.adapter \in Balance
           /\ snapshot' = reading /\ memory' = NoMemory
           /\ outbox' = [open |-> TRUE, notices |-> <<>>]
           /\ hush' = Hushed(NoMemory)
        \/ /\ p.adapter \in Windowed
           /\ verdict.memory.window.rearms <= MaxRearms
           /\ IF snapshot.adapter = p.adapter /\ snapshot.at > clock
              THEN UNCHANGED <<snapshot, memory>> /\ outbox' = [open |-> TRUE, notices |-> <<>>]
              ELSE /\ snapshot' = reading /\ memory' = verdict.memory
                   /\ outbox' = [open |-> TRUE, notices |-> verdict.notices]
           /\ hush' = IF Changed(r) THEN NoHush ELSE Hushed(memory')
  /\ due' = DueAfter(memory')
  /\ UNCHANGED <<profile, settings, ledger, phase, timer, resync, clock, counters>>

Sent(n) == \E old \in ledger : old.id = n.id

\* A notice is sent if the ledger has not seen its id.
Publish ==
  /\ outbox.notices # <<>>
  /\ LET n == Head(outbox.notices)
     IN IF Sent(n)
        THEN UNCHANGED <<ledger, hush>>
        ELSE /\ ledger' = ledger \cup {n}
             /\ hush' = IF n.id.kind = "low"
                        THEN [adapter |-> n.id.adapter, threshold |-> n.threshold,
                              resetsAt |-> memory.window.resetsAt]
                        ELSE hush
  /\ outbox' = [outbox EXCEPT !.notices = Tail(@)]
  /\ UNCHANGED <<profile, settings, snapshot, memory, phase, timer, polls, resync, clock, due, counters>>

\* The ledger cannot be written: the poll has failed, with its reading and its memory
\* stored, and the notices that are left are dropped.  The failure is recorded and a
\* retry scheduled, unless the store rejects that too.
PublishFails ==
  /\ StoreMayFail
  /\ outbox.notices # <<>>
  /\ outbox' = NoOutbox
  /\ due' = Forgotten
  /\ Schedule \/ UNCHANGED timer
  /\ UNCHANGED <<profile, settings, stored, phase, polls, resync, clock, hush, counters>>

\* Mutant: the next poll is not scheduled.
Settle_Once ==
  /\ outbox.open /\ outbox.notices = <<>>
  /\ outbox' = NoOutbox
  /\ UNCHANGED <<profile, settings, stored, phase, timer, polls, resync, clock, history, counters>>

\* The poll is over and the next one is scheduled.
Settle ==
  /\ outbox.open /\ outbox.notices = <<>>
  /\ outbox' = NoOutbox
  /\ Schedule
  /\ UNCHANGED <<profile, settings, stored, phase, polls, resync, clock, history, counters>>

-----------------------------------------------------------------------------
(* The process and the clock.                                              *)

Start ==
  /\ phase = "down"
  /\ phase' = "up"
  /\ timer' = (profile.exists /\ PollingEnabled(settings))
  /\ UNCHANGED <<profile, settings, stored, polls, resync, outbox, clock, history, counters>>

Stop ==
  /\ Event
  /\ stops < MaxStops
  /\ stops' = stops + 1
  /\ phase' = "stopping"
  /\ timer' = FALSE
  /\ UNCHANGED <<profile, settings, stored, polls, resync, outbox, clock, history, edits, crashes>>

Exit == phase = "stopping" /\ Quiet /\ Vanish /\ UNCHANGED <<crashes, stops>>

Crash ==
  /\ phase # "down"
  /\ crashes < MaxCrashes
  /\ crashes' = crashes + 1
  /\ Vanish
  /\ UNCHANGED stops

Clock ==
  /\ clock < MaxTime
  /\ clock' = clock + 1
  /\ UNCHANGED <<profile, settings, stored, phase, timer, polls, resync, outbox, history, counters>>

-----------------------------------------------------------------------------
Reading == [used : Used, resetsAt : Boundary \cup {NoReset}]

User ==
  \/ \E k \in Key \cup {NoKey}, a \in Adapter \cup {NoAdapter}, moved \in BOOLEAN :
       EditProfile(k, a, moved)
  \/ \E c \in ConfigsOf(profile.adapter) : ChangeConfig(c)
  \/ DeleteProfile

Poll(i) ==
  \/ RequestAnswers(i) \/ PollFails(i) \/ PollFailsUnrecorded(i)
  \/ \E r \in Reading : PollSucceeds(i, r)

Continuation == Resync \/ ResyncFails \/ Publish \/ PublishFails \/ Settle
Timer == TickIdle \/ TickUnsupported \/ TickNoKey \/ PollBegins \/ TickFails
Process == Start \/ Stop \/ Exit \/ Crash

Next ==
  \/ User \/ Timer \/ Continuation
  \/ \E i \in 1..MaxInFlight : Poll(i)
  \/ Process \/ Clock

Spec == Init /\ [][Next]_vars

\* Continuations run and timers fire; requests time out if nothing else; a
\* process that shuts down exits and is started again.  The provider answers
\* some of the polls that ask with the key and the adapter of the profile.
Current(i) == i \in DOMAIN polls /\ polls[i].key = profile.key /\ polls[i].adapter = profile.adapter

Fairness ==
  /\ WF_vars(Continuation) /\ WF_vars(Timer)
  /\ \A i \in 1..MaxInFlight : WF_vars(Poll(i))
  /\ SF_vars(\E i \in 1..MaxInFlight : Current(i) /\ RequestAnswers(i))
  /\ SF_vars(\E i \in 1..MaxInFlight, r \in Reading : Current(i) /\ PollSucceeds(i, r))
  /\ WF_vars(Exit) /\ WF_vars(Start)

FairSpec == Spec /\ Fairness

-----------------------------------------------------------------------------
\* A profile that the user wants to follow is never forgotten: its next poll
\* is scheduled or it is being polled, after every edit, failure, overlap of
\* polls, crash and restart.  "a poller that dies on a bad response stops being
\* a poller" (quota-service.ts, l. 209-212).
KeepsPolling ==
  Event /\ Pollable => timer \/ polls # <<>>

\* A deleted profile leaves nothing behind and is not polled again, even by a
\* poll that was out when it was deleted.
DeletedStaysQuiet ==
  ~profile.exists => ~timer /\ snapshot = NoSnapshot /\ ledger = {}

\* No warning is repeated while the situation is the one already warned about:
\* the same window of the same adapter against the same threshold, no recovery
\* beyond the band, no edit.  Restarts and overlapping polls make no difference,
\* save for the latch of a window without a boundary when the answer to a poll of
\* before an edit replaces it (Unlatched): requests time out in 5 to 10 seconds,
\* polls are a minute apart, and the model leaves out both.
NoNagging ==
  [][\A n \in ledger' \ ledger :
       n.id.kind = "low" =>
         \/ hush = NoHush
         \/ hush.adapter # n.id.adapter \/ hush.threshold # n.threshold]_vars

\* A latch stands for a warning that has been given: the one of the very reading that
\* set it, for that end of the window or that count of recoveries, while later
\* readings hover, move the end back, name none or arrive late.  "must produce exactly one warning"
\* (quota-transitions.ts, l. 6-8) is more than the code keeps: latch and warning are two
\* commits (quota-service.ts, l. 330 and 339), and if the process dies between them or
\* the store rejects the second, the warning is never given.  Only then is none due.
LatchedMeansTold ==
  Event /\ Latched(memory) /\ due # NoDue =>
    \E n \in ledger : n.id = due

\* Once the user lets the profile rest, the reading shown is one of its own
\* account by its own adapter, whatever polls were still out.
EventuallyCurrent ==
  <>[](Event /\ Pollable /\ profile.key # NoKey =>
         /\ snapshot # NoSnapshot
         /\ snapshot.key = profile.key /\ snapshot.adapter = profile.adapter)
=============================================================================
