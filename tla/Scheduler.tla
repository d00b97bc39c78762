------------------------------ MODULE Scheduler ------------------------------
(***************************************************************************)
(* The reminder engine: internal/scheduler (RunOnce, record, deliver, the  *)
(* loop), the part of internal/store it reads and writes, the snapshot it  *)
(* is given by cmd/server/main.go, and the admin's run-now request.        *)
(*                                                                         *)
(* A scan is not atomic: between any two of its database or network calls  *)
(* time passes, the user edits contacts, occasions, channels or settings,  *)
(* a request is cancelled, a call fails or the process dies.  Scans of     *)
(* different callers exclude each other by the service's mutex, and only   *)
(* by that.                                                                *)
(*                                                                         *)
(* Data: an occasion's occurrences and offsets, resolved, are its          *)
(* reminders; a holiday reminder stands for one (holiday, offset, user),   *)
(* because the broadcast treats every user's channels on their own.  One   *)
(* tick of the clock is any unit the constants are given in.               *)
(***************************************************************************)
EXTENDS Naturals, FiniteSets

CONSTANTS
  Scanners, Loop,     \* callers of RunOnce; Loop is the ticker's goroutine
  Free,               \* the unlocked mutex
  Contacts, Occasions, Channels,
  Reminders,          \* what may be sent: one per (occurrence, offset)
  Holidays,           \* the reminders that come from a holiday source
  ContactOf,          \* the contact an occasion belongs to
  OccasionOf,         \* the occasion of a reminder that is no holiday
  Due,                \* the day a reminder falls on
  Margin,             \* how long past its window a reminder is still computed
  Choice,             \* channel ids a contact or an occasion selects ({} = inherit)
  Settings,           \* the settings documents an admin may save
  DefaultSettings,    \* the document used when none can be read
  FailBackoff,        \* a channel's rest after a failed send
  ScanGap,            \* the longest time between the starts of two scans
  MaxDowntime,        \* the longest time between a crash and the restart
  \* bounds of the model: the horizon, the faults in it, what users may switch
  MaxTime, MaxFaults, Switchable

SettingsDoc == [catchUp : Nat, sendTime : Nat,
                defaults : SUBSET Channels, holidays : SUBSET Holidays]

ASSUME ScannersAssumption == Loop \in Scanners /\ Free \notin Scanners
ASSUME RemindersAssumption ==
  /\ Holidays \subseteq Reminders
  /\ Contacts \cap Occasions = {} /\ Contacts \cap Holidays = {}
  /\ ContactOf \in [Occasions -> Contacts]
  /\ OccasionOf \in [Reminders \ Holidays -> Occasions]
  /\ Due \in [Reminders -> Nat] /\ Margin \in [Reminders -> Nat]
ASSUME ChannelsAssumption ==
  /\ (Contacts \cup Occasions) \cap Channels = {}
  /\ Choice \in [Contacts \cup Occasions -> SUBSET Channels]
  /\ Reminders # {} /\ Channels # {}
ASSUME SettingsAssumption ==
  /\ Settings \subseteq SettingsDoc /\ Settings # {} /\ DefaultSettings \in SettingsDoc
ASSUME TimingAssumption ==
  /\ FailBackoff \in Nat /\ ScanGap \in Nat \ {0} /\ MaxDowntime \in Nat
  /\ MaxTime \in Nat /\ MaxFaults \in Nat
  /\ Switchable \subseteq Contacts \cup Occasions \cup Channels

VARIABLES
  \* the database
  settings,           \* the saved settings document
  off,                \* contacts and occasions paused, channels disabled
  gone,               \* occasions and channels deleted
  log,                \* notification_log: one row per (reminder, channel) at most
  \* the process
  mu,                 \* holder of Service.mu, or Free
  failUntil,          \* Service.failUntil; 0 where the map has no entry
  scan,               \* the goroutine of each caller of RunOnce
  \* the world
  now, faults,
  \* history
  pushes,             \* pushes accepted by the channel's service
  licence,            \* pushes whose trace was lost, see ReminderLedger
  lastScan            \* when a scan last read the clock

dbVars      == <<settings, off, gone, log>>
worldVars   == <<now, faults>>
historyVars == <<pushes, licence, lastScan>>
vars == <<dbVars, mu, failUntil, scan, worldVars, historyVars>>

Keys == Reminders \X Channels
Things == Contacts \cup Occasions \cup Channels    \* what a user can switch off

\* The rows that reference a deleted occasion or channel: occasion_id is set
\* to NULL and channel_id cascades, so no later lookup finds them.
Withdrawn(k) ==
  \/ k[2] \in gone
  \/ k[1] \notin Holidays /\ OccasionOf[k[1]] \in gone

-----------------------------------------------------------------------------
(* What RunOnce computes from its snapshot: pure functions of the scan.    *)

SendAt(r, s) == Due[r] + s.sendTime

\* Mutant: the lookback ends with the catch-up window.
ConsideredInWindow(r, s, t) == SendAt(r, s) <= t /\ t <= SendAt(r, s) + s.catchUp

\* A reminder is considered when its time has come and the occurrence is still
\* inside the lookback window.
Considered(r, s, t) ==
  /\ SendAt(r, s) <= t
  /\ t <= SendAt(r, s) + s.catchUp + Margin[r]

\* Mutant: anything later than its send time is overdue.
OverdueAtOnce(r, s, t) == SendAt(r, s) < t

Overdue(r, s, t) == SendAt(r, s) + s.catchUp < t

Enabled == Channels \ (off \cup gone)

\* The contact's own selection, else the default channels, else every channel;
\* only the default falls through when it matches nothing enabled.
TargetChannels(c, s) ==
  IF Choice[c] # {} THEN Enabled \cap Choice[c]
  ELSE IF Enabled \cap s.defaults # {} THEN Enabled \cap s.defaults
  ELSE Enabled

\* An occasion narrows its contact's channels unless nothing would be left.
ChannelsFor(r, chans) ==
  IF r \in Holidays \/ chans \cap Choice[OccasionOf[r]] = {} THEN chans
  ELSE chans \cap Choice[OccasionOf[r]]

-----------------------------------------------------------------------------
Steps == {"idle", "waiting", "listing", "sources", "reminders",
          "missed", "deliver", "send", "record"}
Holding == Steps \ {"idle", "waiting"}

ScanState ==
  [pc : Steps,
   ctx : BOOLEAN,                       \* FALSE once the request is cancelled
   snap : SettingsDoc, at : Nat,        \* the snapshot, and the clock read at the start
   todo : SUBSET (Contacts \cup Holidays), seen : SUBSET Occasions,
   rems : SUBSET Reminders, chans : SUBSET Channels,
   rem : Reminders, dnow : Nat,         \* deliver: its reminder and its clock reading
   left : SUBSET Channels,
   ch : Channels, blind : BOOLEAN]      \* the channel in hand; was its row unreadable

Idle ==
  [pc |-> "idle", ctx |-> TRUE, snap |-> DefaultSettings, at |-> 0,
   todo |-> {}, seen |-> {}, rems |-> {}, chans |-> {},
   rem |-> CHOOSE r \in Reminders : TRUE, dnow |-> 0, left |-> {},
   ch |-> CHOOSE c \in Channels : TRUE, blind |-> FALSE]

KeyOf(p) == <<scan[p].rem, scan[p].ch>>

Init ==
  /\ settings \in Settings
  /\ off = {} /\ gone = {}
  /\ log = [k \in Keys |-> "none"]
  /\ mu = Free
  /\ failUntil = [c \in Channels |-> 0]
  /\ scan = [p \in Scanners |-> Idle]
  /\ now = 0 /\ faults = 0
  /\ pushes = [k \in Keys |-> 0]
  /\ licence = [k \in Keys |-> 0]
  /\ lastScan = 0

\* A call that fails: every database and network call does once the request's
\* context is cancelled, and any may at any time, MaxFaults times.
Fault == faults < MaxFaults /\ faults' = faults + 1
CallFails(p) ==
  \/ ~scan[p].ctx /\ UNCHANGED faults
  \/ scan[p].ctx /\ Fault
CallSucceeds(p) == scan[p].ctx /\ UNCHANGED faults

Becomes(p, state) == scan' = [scan EXCEPT ![p] = state]

\* The next turn of deliver's loop, where the locals of the last one are dead.
NextChannel(p) ==
  Becomes(p, [scan[p] EXCEPT !.pc = "deliver", !.ch = Idle.ch, !.blind = FALSE])

-----------------------------------------------------------------------------
(* Entering a scan.                                                        *)

\* Loop's tick, or the run-now handler: the snapshot is built before RunOnce
\* takes the lock.  A failed read of the settings row yields the defaults.
TakeSnapshot(p) ==
  /\ scan[p].pc = "idle"
  /\ \/ /\ Becomes(p, [Idle EXCEPT !.pc = "waiting", !.snap = settings])
        /\ UNCHANGED faults
     \/ /\ Becomes(p, [Idle EXCEPT !.pc = "waiting", !.snap = DefaultSettings])
        /\ Fault
  /\ UNCHANGED <<dbVars, mu, failUntil, now, historyVars>>

\* The client of a run-now request goes away: its context is cancelled.
CancelRequest(p) ==
  /\ p # Loop /\ scan[p].pc # "idle" /\ scan[p].ctx
  /\ Becomes(p, [scan[p] EXCEPT !.ctx = FALSE])
  /\ Fault
  /\ UNCHANGED <<dbVars, mu, failUntil, now, historyVars>>

\* Mutant: RunOnce without the mutex.
LockFreely(p) ==
  /\ scan[p].pc = "waiting"
  /\ mu' = p
  /\ Becomes(p, [scan[p] EXCEPT !.pc = "listing", !.at = now, !.todo = Contacts])
  /\ lastScan' = now
  /\ UNCHANGED <<dbVars, failUntil, worldVars, pushes, licence>>

\* mu.Lock, then the clock, then the list of contacts.
Lock(p) ==
  /\ scan[p].pc = "waiting" /\ mu = Free
  /\ mu' = p
  /\ Becomes(p, [scan[p] EXCEPT !.pc = "listing", !.at = now, !.todo = Contacts])
  /\ lastScan' = now
  /\ UNCHANGED <<dbVars, failUntil, worldVars, pushes, licence>>

\* Mutant: a return that forgets the unlock.
ReturnLocked(p) ==
  /\ UNCHANGED mu
  /\ Becomes(p, Idle)

\* RunOnce returns; the unlock is deferred.
Release(p) ==
  /\ mu' = Free
  /\ Becomes(p, Idle)

\* ListContacts reads contact by contact: what is paused or deleted meanwhile
\* is seen for the contacts not yet read only.
ReadContact(p, c) ==
  /\ scan[p].pc = "listing" /\ c \in scan[p].todo
  /\ CallSucceeds(p)
  /\ Becomes(p, [scan[p] EXCEPT
       !.todo = @ \ {c},
       !.seen = @ \cup {o \in Occasions :
                          ContactOf[o] = c /\ {o, c} \cap off = {} /\ o \notin gone}])
  /\ UNCHANGED <<dbVars, mu, failUntil, now, historyVars>>

ListingFails(p) ==
  /\ scan[p].pc = "listing"
  /\ CallFails(p)
  /\ Release(p)
  /\ UNCHANGED <<dbVars, failUntil, now, historyVars>>

\* The reminders a source contributes to the scan p.
Work(p, x) ==
  LET OfSource(r) == IF r \in Holidays
        THEN r = x /\ r \in scan[p].snap.holidays
        ELSE OccasionOf[r] \in scan[p].seen /\ ContactOf[OccasionOf[r]] = x
  IN {r \in Reminders : OfSource(r) /\ Considered(r, scan[p].snap, scan[p].at)}

StartSending(p) ==
  /\ scan[p].pc = "listing" /\ scan[p].todo = {}
  /\ Becomes(p, [scan[p] EXCEPT !.pc = "sources",
       !.todo = {x \in Contacts \cup Holidays : Work(p, x) # {}}])
  /\ UNCHANGED <<dbVars, mu, failUntil, worldVars, historyVars>>

-----------------------------------------------------------------------------
(* The sources: every contact, then every holiday of an enabled category.  *)

\* The channels are read once per source and used for all its reminders; a
\* failed read means none.
OpenSource(p, x) ==
  /\ scan[p].pc = "sources" /\ x \in scan[p].todo
  /\ x \in Holidays => scan[p].todo \cap Contacts = {}
  /\ \/ /\ CallSucceeds(p)
        /\ Becomes(p, [scan[p] EXCEPT !.pc = "reminders",
             !.todo = @ \ {x}, !.rems = Work(p, x),
             !.chans = IF x \in Holidays THEN Enabled
                       ELSE TargetChannels(x, scan[p].snap)])
     \/ /\ CallFails(p)
        /\ Becomes(p, [scan[p] EXCEPT !.todo = @ \ {x}])
  /\ UNCHANGED <<dbVars, mu, failUntil, now, historyVars>>

\* A reminder whose window has closed is recorded as missed on every channel;
\* any other due one is delivered, and deliver reads the clock once.
BeginReminder(p, r) ==
  /\ scan[p].pc = "reminders" /\ r \in scan[p].rems
  /\ Becomes(p, [scan[p] EXCEPT
       !.pc = IF Overdue(r, scan[p].snap, scan[p].at) THEN "missed" ELSE "deliver",
       !.rems = @ \ {r}, !.rem = r, !.dnow = now,
       !.left = ChannelsFor(r, scan[p].chans)])
  /\ UNCHANGED <<dbVars, mu, failUntil, worldVars, historyVars>>

\* Mutant: only rows of delivered reminders count.
HasSentRow(k) == log[k] = "sent"

\* HasNotification: any row of the pair counts, whatever its status.
HasRow(k) == log[k] # "none"

\* Mutant: INSERT OR REPLACE.
ReplaceRow(k, status) == log' = [log EXCEPT ![k] = status]

\* INSERT OR IGNORE: an existing row stays as it is; a dead reference is an
\* error that OR IGNORE does not silence.
InsertRow(k, status) ==
  log' = [log EXCEPT ![k] = IF @ = "none" THEN status ELSE @]

RecordMissed(p, c) ==
  /\ scan[p].pc = "missed" /\ c \in scan[p].left
  /\ Becomes(p, [scan[p] EXCEPT !.left = @ \ {c}])
  /\ LET k == <<scan[p].rem, c>> IN
     \/ ~Withdrawn(k) /\ CallSucceeds(p) /\ InsertRow(k, "missed")
     \/ Withdrawn(k) /\ UNCHANGED <<log, faults>>
     \/ CallFails(p) /\ UNCHANGED log
  /\ UNCHANGED <<settings, off, gone, mu, failUntil, now, historyVars>>

-----------------------------------------------------------------------------
(* deliver: one channel at a time.                                         *)

\* Mutant: the last tick of the backoff is cut off.
RestingRounded(p, c) == scan[p].dnow + 1 < failUntil[c]

\* The channel had a failed send within FailBackoff of this delivery's start.
Resting(p, c) == scan[p].dnow < failUntil[c]

\* The channel rests after a failed send, or the row already exists: skip it.
SkipChannel(p, c) ==
  /\ scan[p].pc = "deliver" /\ c \in scan[p].left
  /\ \/ Resting(p, c) /\ UNCHANGED faults
     \/ ~Resting(p, c) /\ HasRow(<<scan[p].rem, c>>) /\ CallSucceeds(p)
  /\ Becomes(p, [scan[p] EXCEPT !.left = @ \ {c}])
  /\ UNCHANGED <<dbVars, mu, failUntil, now, historyVars>>

\* No row exists, or the look-up failed: then it is sent anyway (fail open).
Attempt(p, c) ==
  /\ scan[p].pc = "deliver" /\ c \in scan[p].left
  /\ ~Resting(p, c)
  /\ \E blind \in BOOLEAN :
       /\ IF blind THEN CallFails(p)
          ELSE CallSucceeds(p) /\ ~HasRow(<<scan[p].rem, c>>)
       /\ Becomes(p, [scan[p] EXCEPT !.pc = "send", !.left = @ \ {c},
                                     !.ch = c, !.blind = blind])
  /\ UNCHANGED <<dbVars, mu, failUntil, now, historyVars>>

\* Mutant: the error is counted but the loop goes on to the row.
ResolveFailsOn(p) ==
  /\ scan[p].pc = "send"
  /\ Fault
  /\ Becomes(p, [scan[p] EXCEPT !.pc = "record"])
  /\ UNCHANGED <<dbVars, mu, failUntil, now, historyVars>>

\* The stored credentials do not yield a notifier: no backoff, no row.
ResolveFails(p) ==
  /\ scan[p].pc = "send"
  /\ Fault
  /\ NextChannel(p)
  /\ UNCHANGED <<dbVars, mu, failUntil, now, historyVars>>

\* A push accepted although the row existed is a licensed repeat.
SendOK(p) ==
  /\ scan[p].pc = "send"
  /\ pushes' = [pushes EXCEPT ![KeyOf(p)] = @ + 1]
  /\ licence' = [licence EXCEPT ![KeyOf(p)] =
                   IF HasRow(KeyOf(p)) THEN @ + 1 ELSE @]
  /\ Becomes(p, [scan[p] EXCEPT !.pc = "record"])
  /\ UNCHANGED <<dbVars, mu, failUntil, worldVars, lastScan>>

\* Mutant: the backoff is subtracted.
RestSince(p) == scan[p].dnow - FailBackoff

\* The backoff counts from the clock reading of the delivery, not of the failure.
RestUntil(p) == scan[p].dnow + FailBackoff

\* Send reports an error, at the latest when its timeout expires.  The push may
\* have been accepted all the same: the answer was lost, or the mail is still
\* under way in its goroutine.
SendFails(p) ==
  /\ scan[p].pc = "send"
  /\ CallFails(p)
  /\ \/ /\ pushes' = [pushes EXCEPT ![KeyOf(p)] = @ + 1]
        /\ licence' = [licence EXCEPT ![KeyOf(p)] = @ + 1]
     \/ UNCHANGED <<pushes, licence>>
  /\ failUntil' = [failUntil EXCEPT ![scan[p].ch] = RestUntil(p)]
  /\ NextChannel(p)
  /\ UNCHANGED <<dbVars, mu, now, lastScan>>

\* The row is written after the push; if that fails the push leaves no trace.
RecordSent(p) ==
  /\ scan[p].pc = "record"
  /\ \/ /\ ~Withdrawn(KeyOf(p)) /\ CallSucceeds(p)
        /\ InsertRow(KeyOf(p), "sent")
        /\ UNCHANGED licence
     \/ /\ \/ Withdrawn(KeyOf(p)) /\ UNCHANGED faults
           \/ CallFails(p)
        /\ licence' = [licence EXCEPT ![KeyOf(p)] = @ + 1]
        /\ UNCHANGED log
  /\ NextChannel(p)
  /\ UNCHANGED <<settings, off, gone, mu, failUntil, now, pushes, lastScan>>

\* The loops end: the reminder's channels, the source's reminders, the sources.
Advance(p) ==
  /\ \/ /\ scan[p].pc \in {"deliver", "missed"} /\ scan[p].left = {}
        /\ Becomes(p, [scan[p] EXCEPT !.pc = "reminders", !.rem = Idle.rem, !.dnow = 0])
        /\ UNCHANGED mu
     \/ /\ scan[p].pc = "reminders" /\ scan[p].rems = {}
        /\ Becomes(p, [scan[p] EXCEPT !.pc = "sources", !.chans = {}])
        /\ UNCHANGED mu
     \/ /\ scan[p].pc = "sources" /\ scan[p].todo = {}
        /\ Release(p)
  /\ UNCHANGED <<dbVars, failUntil, worldVars, historyVars>>

-----------------------------------------------------------------------------
(* The process, the clock and the people.                                  *)

\* The process dies at any point, shutdown included (main does not wait for a
\* scan), and comes back after some downtime: everything in memory is lost.
Crash(downtime) ==
  /\ Fault
  /\ now + downtime <= MaxTime
  /\ now' = now + downtime /\ lastScan' = now + downtime
  /\ mu' = Free
  /\ failUntil' = [c \in Channels |-> 0]
  /\ licence' = [k \in Keys |->
       IF \E p \in Scanners : scan[p].pc = "record" /\ KeyOf(p) = k
       THEN licence[k] + 1 ELSE licence[k]]
  /\ scan' = [p \in Scanners |-> Idle]
  /\ UNCHANGED <<dbVars, pushes>>

\* The ticker fires every minute and scans end: ScanGap bounds the two together.
Tick ==
  /\ now < MaxTime /\ now < lastScan + ScanGap
  /\ now' = now + 1
  /\ UNCHANGED <<dbVars, mu, failUntil, scan, faults, historyVars>>

SaveSettings(s) ==
  /\ settings' = s
  /\ UNCHANGED <<off, gone, log, mu, failUntil, scan, worldVars, historyVars>>

\* Pause or resume a contact or an occasion, disable or enable a channel.
Toggle(x) ==
  /\ x \notin gone
  /\ off' = IF x \in off THEN off \ {x} ELSE off \cup {x}
  /\ UNCHANGED <<settings, gone, log, mu, failUntil, scan, worldVars, historyVars>>

\* Mutant: the foreign keys are not enforced.
DeleteOnly(x) ==
  /\ x \notin gone
  /\ gone' = gone \cup {x}
  /\ off' = off \ {x}
  /\ UNCHANGED <<settings, log, mu, failUntil, scan, worldVars, historyVars>>

\* Deleting an occasion or a channel takes its rows out of reach of any look-up.
Delete(x) ==
  /\ x \notin gone
  /\ gone' = gone \cup {x}
  /\ off' = off \ {x}
  /\ log' = [k \in Keys |->
       IF k[2] = x \/ (k[1] \notin Holidays /\ OccasionOf[k[1]] = x)
       THEN "none" ELSE log[k]]
  /\ UNCHANGED <<settings, mu, failUntil, scan, worldVars, historyVars>>

ScanStep(p) ==
  \/ \E c \in Contacts : ReadContact(p, c)
  \/ ListingFails(p)
  \/ StartSending(p)
  \/ \E x \in Contacts \cup Holidays : OpenSource(p, x)
  \/ \E r \in Reminders : BeginReminder(p, r)
  \/ \E c \in Channels : RecordMissed(p, c) \/ SkipChannel(p, c) \/ Attempt(p, c)
  \/ ResolveFails(p) \/ SendOK(p) \/ SendFails(p) \/ RecordSent(p)
  \/ Advance(p)

SystemNext ==
  \/ \E p \in Scanners : TakeSnapshot(p) \/ CancelRequest(p) \/ Lock(p) \/ ScanStep(p)
  \/ \E d \in 0 .. MaxDowntime : Crash(d)
  \/ Tick

UserNext ==
  \/ \E s \in Settings : SaveSettings(s)
  \/ (\E x \in Switchable : Toggle(x)) \/ (\E x \in Occasions \cup Channels : Delete(x))

Next == SystemNext \/ UserNext

Spec == Init /\ [][Next]_vars

-----------------------------------------------------------------------------
(* Fairness: the ticker goroutine never stops, a goroutine that holds the  *)
(* lock or waits for it proceeds (sync.Mutex hands over to a starving      *)
(* waiter), and time passes.  Nothing is assumed of users or of requests.  *)

Fairness ==
  /\ WF_vars(Tick)
  /\ WF_vars(TakeSnapshot(Loop))
  /\ \A p \in Scanners : SF_vars(Lock(p)) /\ WF_vars(ScanStep(p))

FairSpec == Spec /\ Fairness

\* The engine left alone: nobody edits settings, contacts or channels.
QuietSpec == Init /\ [][SystemNext]_vars /\ Fairness

-----------------------------------------------------------------------------
(* Properties.                                                             *)

\* Every variable holds a value of its kind, the goroutines' locals included.
TypeOK ==
  /\ settings \in SettingsDoc
  /\ off \subseteq Things /\ gone \subseteq Occasions \cup Channels
  /\ log \in [Keys -> {"none", "sent", "missed"}]
  /\ mu \in Scanners \cup {Free}
  /\ failUntil \in [Channels -> Nat]
  /\ scan \in [Scanners -> ScanState]
  /\ now \in Nat /\ faults \in Nat /\ lastScan \in Nat
  /\ pushes \in [Keys -> Nat] /\ licence \in [Keys -> Nat]

\* The recipient gets at most one push per pair beyond those whose trace the
\* engine lost (a failed record or look-up, a lost answer, a crash between Send
\* and RecordNotification), for as long as channel and occasion exist: the
\* pre-send look-up and the mutex together, across scans, retries and restarts.
NoUnexplainedDuplicate ==
  \A k \in Keys : ~Withdrawn(k) => pushes[k] <= 1 + licence[k]

\* The log does not lie: a "sent" row stands for a push that was accepted, and a
\* "missed" row for a pair none of whose pushes the engine ever learned of.
RowsTellTheTruth ==
  \A k \in Keys :
    /\ log[k] = "sent" => pushes[k] >= 1
    /\ log[k] = "missed" => pushes[k] <= licence[k]

\* A decision is final: once a pair has a row (missed as well as sent), it is
\* pushed only by a delivery whose look-up failed, whatever settings are saved
\* later; deliver's fail-open branch is the only way round the log.
ClosedIsFinal ==
  [][\A k \in Keys : pushes'[k] # pushes[k] =>
        \/ log[k] = "none"
        \/ \E p \in Scanners : scan[p].pc = "send" /\ KeyOf(p) = k /\ scan[p].blind]_vars

\* No send starts on a channel that is resting: failUntil is checked against the
\* clock of the delivery, which may be old by the time the send starts.
SendOutsideBackoff ==
  \A p \in Scanners : scan[p].pc = "send" => failUntil[scan[p].ch] <= now

\* No row refers to a deleted channel or occasion, although rows are written by
\* scans that read both before the deletion.
NoOrphanRow == \A k \in Keys : Withdrawn(k) => log[k] = "none"

\* What the three invariants above rest on, true between any two calls of a scan:
\* only the holder of the mutex is inside a scan; a look-up that found no row
\* still holds when the send starts; a row is written after its push; while a
\* pair has no row, none of its pushes is unaccounted for but the one whose row is
\* being written; a delivery's clock is old but never ahead; its channel rested.
ScanInvariant ==
  /\ \A p \in Scanners : scan[p].pc \in Holding => mu = p
  /\ \A p \in Scanners : scan[p].pc = "send" /\ ~scan[p].blind => log[KeyOf(p)] = "none"
  /\ \A p \in Scanners : scan[p].pc = "record" => pushes[KeyOf(p)] >= 1
  /\ \A k \in Keys :
       /\ ~Withdrawn(k) /\ log[k] = "none"
       /\ \A p \in Scanners : scan[p].pc = "record" => KeyOf(p) # k
       => pushes[k] <= licence[k]
  /\ \A p \in Scanners :
       /\ scan[p].dnow <= now
       /\ scan[p].pc = "send" => failUntil[scan[p].ch] <= scan[p].dnow

\* Failures, downtime and retries within the catch-up window cost no reminder:
\* while nobody edits anything, no pair is ever recorded as missed.
CaughtUp == \A k \in Keys : log[k] # "missed"

\* The user wants k delivered: everything on its path is there and switched on.
Wanted(k) ==
  /\ k[2] \in Enabled /\ ~Withdrawn(k)
  /\ IF k[1] \in Holidays THEN k[1] \in settings.holidays
     ELSE LET o == OccasionOf[k[1]] c == ContactOf[o] IN
          /\ {o, c} \cap off = {}
          /\ k[2] \in ChannelsFor(k[1], TargetChannels(c, settings))

\* What one fault costs a pair at most: the scan it hits, the rest or the downtime that
\* follows, and the wait for the next scan.
Setback == 2 * ScanGap + (IF MaxDowntime >= FailBackoff THEN MaxDowntime ELSE FailBackoff)

\* Even if every fault is still to come, a sound scan begins while r is computed.
InTime(r) ==
  now + ScanGap + MaxFaults * Setback <= SendAt(r, settings) + settings.catchUp + Margin[r]

\* A pair that is wanted, or wanted again after a pause, early enough before the lookback
\* ends gets its row, whatever fails then, unless the user changes their mind.  Later
\* than that it may get none: scans no longer compute a reminder of so long ago.
EventuallyDecided ==
  \A k \in Keys : Wanted(k) /\ InTime(k[1]) ~> log[k] # "none" \/ ~Wanted(k)

\* The mutex is never kept: every scan that gets it gives it back, on every way out.
LockIsReleased == []<>(mu = Free)

\* scheduler.go: "reminders due within the last CatchUpHours may still be sent
\* (catch-up); older than that -> missed": a pair is given up only when the
\* window of the saved settings is over.
MissedOnlyPastWindow ==
  [][\A k \in Keys : log[k] = "none" /\ log'[k] = "missed" =>
        SendAt(k[1], settings) + settings.catchUp < now]_vars

\* README: "guarantees each reminder is sent once per event/date/offset/channel".
SentOnce == \A k \in Keys : pushes[k] <= 1

\* What the ledger sees of the engine.
Ledger == INSTANCE ReminderLedger WITH
  row <- [k \in Keys |-> IF Withdrawn(k) THEN "withdrawn" ELSE log[k]]

\* The engine implements the ledger: decided once, pushed once plus licences.
LedgerSpec == Ledger!LedgerSpec

=============================================================================
