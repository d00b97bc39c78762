# A formal model of WiMinder

WiMinder reminds its users of birthdays, other occasions (Gregorian and Pawukon) and
holidays by pushing messages through SMTP, Gotify and Telegram. One Go process
(`cmd/server`) runs the HTTP API, a reminder loop and a SQLite database; a React client
talks to the API.

What makes it hard is small in lines and large in behaviours: a scan is a long sequence of
database and network calls that is not atomic, several scans can be asked for at once,
the log row that prevents a second push is written *after* the push, the user edits
everything meanwhile, and every failure is answered by retrying later or by going on
regardless. Beneath it lies calendar arithmetic that is wrong on one day in a century if it is
wrong at all, and in front of it a client that composes whole documents from copies
which may be older than the last click. This directory models that in TLA+, model-checks it with TLC on small
instances and proves its safety for every value of the constants with TLAPS.

| module | models | evidence |
|---|---|---|
| `ReminderLedger` | what the engine promises of one (reminder, channel) pair; abstract | target of a refinement |
| `Scheduler` | `internal/scheduler` with the store, settings and callers it depends on | `MCScheduler` (5 runs), `SchedulerProofs` |
| `HolidayCache` | `calendarprov/cached.go`, the two mirrors and the `holiday_cache` table | `MCHolidayCache` (3 runs), `HolidayCacheProofs` |
| `OccasionPrefsEditor` | `occasion-prefs-editor.tsx`, the query cache it reads and the PUT of `api/occasionprefs.go` | `MCWebEditors`, `MCOccasionPrefsEditor` (2 runs), `OccasionPrefsEditorProofs` |
| `ContactPrefs` | `reminder-prefs-tab.tsx`, Activate of `occasions-tab.tsx`, the merging PUT `handleSetPrefs`, `targetChannels` | `MCWebEditors`, `MCContactPrefs` (2 runs), `ContactPrefsProofs` |
| `SettingsEditors` | the settings document, the Default switches of `channel-list.tsx` and the form of `settings-page-content.tsx` | `MCWebEditors` (1 run), `SettingsEditorsProofs` |
| `Calendar` | `domain/date.go`, `jdn.go`, `pawukon.go`, `holidays.go` | `MCDomain` (1 run), `CalendarProofs` |
| `Occurrences` | `domain/occurrence.go`, `recurrence.go`, the scan window of `RunOnce` | `MCDomain` (1 run), `OccurrencesProofs` |
| `HolidayMerge` | the merge of holiday sources in `RunOnce` and `MultiProvider` | `MCDomain`, `HolidayMergeProofs` |

To repeat everything: `tlc -config <name>.cfg <MC module>` for a run of the table in section 8,
and `tlapm <module>.tla` for the eight modules whose names end in `Proofs`.

## 1. The system

| component | state | operations | what must be right |
|---|---|---|---|
| reminder engine (`internal/scheduler`) | `mu`, `failUntil` per channel; the locals of a scan | `RunOnce`, `record`, `deliver`, `loop` | a pair is pushed once and decided once; nothing due is lost; a resting channel is left alone; the mutex is given back |
| notification log (`internal/store/log.go`) | one row per (source, day, offset, channel) | `HasNotification`, `RecordNotification` | a row once written stays; no row of what was deleted |
| settings (`internal/api/settings.go`) | one JSON document | `LoadSettings`, save | a scan works with what was saved |
| server process (`cmd/server`) | the loop goroutine, the request goroutines | build the snapshot, start, shut down | losing the process loses nothing that is still due |
| holiday sources and cache (`internal/calendarprov`) | `holiday_cache` rows, `lastFail` per year | `HolidaysBetween`, `loadYear`, `fetch` | a cached year is served whatever fails; the remote is spared while it is down; the cache heals |
| holiday gathering | none (a pure merge in `RunOnce` and `MultiProvider`) | first provider wins per day and name | one holiday has one log key; an outage hides its own holidays only; the list agrees with the scan |
| calendar (`domain/jdn.go`, `pawukon.go`, `date.go`) | none | day numbers, cycle days, comparison | agrees with counting days one by one |
| occurrences (`domain/occurrence.go`, `recurrence.go`, `reminder.go`) | none | occurrences in a range, offsets, ages | every day of the pattern, none twice, Feb 29 |
| contacts, occasions, channels (`internal/api`, `internal/store`) | the tables | CRUD within an owner's scope, preferences | owners see their own; partial updates lose nothing |
| preference editors (`web/src/components`) | cached query data, an optimistic row, requests in flight | full-replace PUTs, refetches | the last edit on screen is the last one stored |
| contact preferences (`handleSetPrefs` and its tab) | the row, the cached contact, a form | partial PUTs: read, merge, write | a PUT changes what it sent; a selection means what the tab says |
| settings pages (`channel-list.tsx`, `settings-page-content.tsx`) | the cached document, a form | whole-document PUTs from two pages | no switch and no save undoes another |
| upcoming list and manual notify | none | a view; a push without a row | – |
| notifiers, texts | none | `Send` with a timeout | – |
| auth, secrets, configuration, migrations, seed | the users table, the schema version | start-up and per request | – |

How they meet: the loop goroutine and every run-now request call `RunOnce` in the same
`Service` (shared `mu` and `failUntil`); `RunOnce` reads contacts, channels and the log
through the store and holidays through the providers; the API writes the same tables
without taking the scheduler's mutex; the scan, the upcoming list and its notify request
call the holiday cache concurrently, which has a mutex around the failure marks only. The
database serialises single statements and nothing more: no transaction spans two of the
calls modelled here as two steps.

Where it is hard (each listed with its line under `hazards` in `PROJECT.json`):

- *order of push and row*: `deliver` sends, then inserts; look-up and insert are separate;
- *snapshots*: settings are read before the mutex is taken, contacts one at a time before
  anything is sent, channels once per contact, a delivery's clock once per reminder;
- *failing open*: a look-up that errors sends anyway, a settings row that cannot be read
  is replaced by the defaults, a cache look-up that errors counts as a miss;
- *late effects*: a mail delivered after `Send` gave up on it, a failed fetch that marks a
  year another caller has just refreshed, a write that stores an older answer;
- *crashes*: `failUntil`, `lastFail` and every scan are in memory only;
- *windows*: catch-up window, lookback, backoff and the one-minute ticker must fit, and the
  window a scan computes must be as wide as the widest offset of any stream of any layer;
- *stale documents*: chips, switches and forms compose their bodies from a cached copy, and
  the server's partial update is itself a read followed by a write of everything;
- *month ends and centuries*: the 31st, 29 February (clamped by one pattern and moved to
  1 March by another), truncating division below zero, estimates that a search starts from;
- *several sources of one holiday*: the first that has it names its log key, and the first may
  be switched off, fail, or change its list.

## 2. `Scheduler`, and the ledger it implements

### State

| variable | code |
|---|---|
| `settings` | the settings row, as `LoadSettings` decodes it: catch-up hours, send time, default channels, holiday categories |
| `off`, `gone` | paused contacts and occasions, disabled channels; deleted occasions and channels |
| `log` | `notification_log`; `"none"` where no row is found by `HasNotification` |
| `mu`, `failUntil` | the fields of `Service` |
| `scan[p]` | the goroutine of caller `p`: `Loop` is the ticker's, the others are run-now requests. `pc` says between which two calls it is, the other fields are `RunOnce`'s and `deliver`'s locals (the snapshot `snap`, its clock `at`, `deliver`'s clock `dnow`, the contacts and reminders left, the channels read, whether the look-up failed) |
| `now`, `faults` | the clock; failures so far, a bound of the model |
| `pushes`, `licence`, `lastScan` | history: pushes accepted per pair, pushes whose trace was lost, when a scan last began |

A reminder is one (occurrence, offset) of one occasion, or one (holiday, offset) for one
user. What the pure functions of `internal/domain` make of dates and offsets enters as
`Due`, the day it falls on: the engine does the same with every reminder whatever its
pattern. `Margin` is how long past its window a reminder is still computed. In the code the
lookback reaches `catchUp + maxOffset + 2` days back from the scan, and so at least two days
further than the window of any reminder (`scheduler.go:174-193`); that the days which are computed
are the right ones is the subject of `Occurrences`.

### Actions

One action per call that can fail or be interleaved, in the order of the code:

`TakeSnapshot` (main's snapshot, or run-now's) → `Lock` → `ReadContact` for each contact,
or `ListingFails` → `StartSending` → `OpenSource` (the channels of one contact, or of one
holiday's user) → `BeginReminder` → `RecordMissed` per channel, or, per channel,
`SkipChannel` / `Attempt` (backoff and look-up) → `ResolveFails` / `SendOK` / `SendFails` →
`RecordSent`. `Advance` closes the loops and releases the mutex. Maps, lists from
the database and the loops over them are taken in any order, so that nothing rests on one.

Around them: `CancelRequest` (a run-now client goes away; from then on every call of that
scan fails), `Crash` (also shutdown: `main` does not wait for a scan), `Tick`, and what users
do: `SaveSettings`, `Toggle`, `Delete` with the effect of the foreign keys on the log.

A failing `Send` may have delivered the push: SMTP's goroutine goes on after the timeout,
and an HTTP answer can be lost. That, a failed insert and a crash between push and row are the
three ways a trace is lost; each grants the pair one `licence`.

### The ledger and the refinement

`ReminderLedger` is the promise without scans, locks, clocks and backoffs: a pair is
undecided, sent, missed or withdrawn; it is decided at most once; a push beyond the first
needs a licence. `Scheduler` implements it under

    row[k] = IF Withdrawn(k) THEN "withdrawn" ELSE log[k]

with `pushes` and `licence` as they are. The mapping has to name withdrawn pairs because
deleting a channel removes its rows: a scan that had read the channel before may still
push once to it.

### What is checked

- `NoUnexplainedDuplicate`: at most `1 + licence` pushes per pair. The mutex *and* the
  look-up before every send are needed (mutant: a scan that does not wait for the mutex).
- `RowsTellTheTruth`: a "sent" row stands for a push, a "missed" row for none the engine
  learned of.
- `ClosedIsFinal`: a decided pair is pushed again only by a delivery whose look-up failed,
  whatever is saved, resumed or widened later.
- `SendOutsideBackoff`: no send starts on a resting channel, though both clocks compared
  (`failUntil` was set from an old one, and is checked against an old one) lag behind.
- `NoOrphanRow`: no row outlives its channel or occasion, though the rows are written by scans
  that read both before the deletion.
- `ScanInvariant`: what the above rest on, between any two calls (see section 9).
- `CaughtUp`: failures, backoffs and downtime within the window cost no reminder.
- `EventuallyDecided`: the lookback ends `Margin` after the window, and a reminder is then computed
  no longer. A pair that is wanted, or wanted again after a pause, at least
  `ScanGap + MaxFaults * Setback` before that end gets a row, sent or missed, unless the user
  changes their mind. Without that premise the property is false: see section 11.
- `LockIsReleased`: the mutex is free again and again.

## 3. `HolidayCache`

The `holiday_cache` table (`row`), the failure marks (`rest`, the time a mark has left),
and one goroutine per caller (`call`) that runs `HolidaysBetween` year by year: `LookUp` →
`CheckBackoff` → `Ask` → `Answer` / `TryFallback` (second mirror) → `Arrive` → `Put`, or
`FetchFails` → the stale row. Holidays are abstracted to their *age*: `age` is the time since
the row's `FetchedAt`, `old` the time since the source produced them. They differ by the
flight of the answer, and the model can therefore say what a cache promises without
a calendar: how old what it serves may be. Times are elapsed or remaining, saturating
where the code no longer tells them apart, so the state space is finite without a horizon.
`Cancel` is a client going away, `Restart` loses marks and calls and keeps the rows.

- `HonestRow`: whichever of several overlapping refreshes wrote last, a row's holidays are at
  most one HTTP timeout older than its stamp says. The stamp is taken before the write, which
  may take `busy_timeout`; stamping at the write breaks it (the mutant). An older answer may
  still replace a newer one, by as much.
- `CacheNeverForgotten`: a year that had a readable row is in the result, whatever fails.
- `OldOnlyWhenFailing`: holidays older than a day only where a refresh was refused or failed.
- `SourceSpared`: in one backoff fewer fetches begin than there are callers. It
  bounds what `cached.go:25-27` wants: a caller that had passed the check before the mark was set
  still asks, so "none at all" would not hold.
- `Refreshed`: after the faults the year has a fresh row again and again, although slow
  failing calls may set the mark after a faster one cleared it.

## 4. `OccasionPrefsEditor`

One occasion's reminder override as its editor shows it. Every edit sends the *complete* row
in a PUT of its own, none waits for the one before, and the row on screen is also changed by
answers and by refetches that left before the last edit.

| variable | code |
|---|---|
| `stored` | the occasion's row in `occasion_prefs`, or the defaults where there is none |
| `local` | `rowRef.current`, with the number of the PUT whose body it is: `onSuccess` and `onError` compare identities (`rowRef.current === vars`), so equal contents are not enough |
| `custom` | the `useState` mirror of the row's flag that drives the switch and the panel |
| `cache` | the row in the cached contact of the query client, which reaches the editor as its prop |
| `fetch` | the one refetch of that contact (the query client never runs two) |
| `puts` | the row found at first, followed by every row sent, with how far each has come |
| `mounted` | how many of `puts` are older than this editor (it can be left and reopened) |
| `faults`, `overtaken` | losses so far, a bound; history: has a PUT overtaken an older one |

The user's actions are `EditContents`, `FlipEnabled`, `CustomOn`, `CustomOff` and `Reopen`. A PUT
is applied (`Apply`) or refused (`Refuse`) in any order, and then answered: `Succeed`, or
`Fail`, which can also be an answer lost after the PUT was applied. A refetch leaves
(`Refetch`, or any answer of a PUT), reads the server (`Read`), and lands (`Land`) or fails.
Three facts of the libraries enter as used: `save.isPending` is about the newest mutation
only; invalidating drops a refetch under way; a refetched row that equals the cached one keeps
its identity, so that no effect runs.

- `SwitchShowsRow`: the mirror and the row are updated in different places (handlers,
  `onError`, the effect on the prop), yet agree after each.
- `SettledAgrees`: when everything is answered and the last refetch has landed, screen, cache and
  server agree, although a refetch that lands while a PUT is pending is not adopted, and
  although an equal one triggers nothing. PUTs that overtook one another are excepted: nothing
  in the code orders them at the server.
- `OnlyFailuresRevert`: as long as no PUT failed, each body is its predecessor with one
  field edited. The comment in the code claims more; see section 11.

Left out: other tabs that write the same row (a refetch ignored while a PUT is pending
is not looked at again, so this page may miss their edit until the next change), the reset of
a contact's pause, a PUT applied after its failure was reported, and the DELETE and GET of the
API, which the editor does not use.

## 5. `ContactPrefs`

A contact's own offsets, channels and Active flag. Three places of the page send *partial*
bodies for one row: a chip (`ToggleChip`: the channels), Save (`SaveTab`: offsets and flag) and
the Activate button of the occasions tab (`ActivateAll`: the flag). `handleSetPrefs` merges each
into the row it reads (`MergePrefs`) and writes the whole of it (`WritePrefs`), with nothing that
keeps the two together.

| variable | code |
|---|---|
| `prefs`, `exists` | the row of `reminder_prefs` (the default one where there is none) and its contact |
| `channels`, `muted` | the user's channels, and the disabled ones |
| `shown` | the prefs in the cached contact, which the chips show and compose from |
| `tab`, `edited` | the `useState` form; has it been touched since it was filled |
| `load`, `requests` | the refetch of the contact; every PUT with its fields, body and progress |
| `writes`, `wanted`, `hasty`, `trust`, `upsets` | history and the bound on losses |

- `SentFieldsChange`: a PUT leaves the fields it did not send alone, unless another was written
  since it read the row. That exception is real: two overlapping PUTs of different fields lose one.
- `FieldsWereSent`: but a lost update only restores an old value, field by field; none is made up.
- `NoOrphanPrefs`: a contact deleted between read and write gets no row (the foreign key).
- `QuietPageShowsPrefs`: when everything is answered, page and untouched form show the row.
- `PatientClicksKept`: clicks that wait for the one before to be saved *and* reloaded all count,
  with saves of the other fields and deleted channels in between. Clicks that do not wait lose
  each other (the body is composed from the cached row), so the premise cannot go.
- `NoSelectionUsesDefaults` is what the tab promises, and fails: see section 11.

Simplified: the four streams of an offset map are one value. The tab edits two of them and
sends the others as they are in the cached contact.

## 6. `SettingsEditors`

One JSON document and two pages that send all of it. The channels page composes its body from
the query's copy at each Default switch; the settings page fills a form from that copy *once*, when
it opens, and saves the whole form.

| variable | code |
|---|---|
| `document` | the settings row, as its default channels and the rest |
| `copy`, `reload` | the query's copy, its refetch, and the toggle that waits for it |
| `page`, `form`, `opened` | the open page, its form, how many saves are older than it |
| `saves` | every PUT with its body and progress |
| `wish`, `hurried`, `known`, `mishaps` | history and the bound on what goes wrong |

What keeps the channels page right is one `return`: `onSuccess` returns the promise of the
invalidation, so that `isPending` (`Locked`) holds the switches until the copy has been read again.
The settings page does not wait and need not, since its body is the form.

- `SavesAreKept`: however fast switches and saves follow each other, each of them is in the
  document at the end, if no page was left with a save or refetch open, nothing failed and nobody
  else saved. The mutant that releases the switches at the answer loses one.
- `IdleCopyIsStored`: once everything is answered the copy is what the server stores, whichever
  page was left early, and after a mishap from the next read on.

A page that *is* left early fills the other page's form from the old copy, and its next Save
reverts the switch; that is the code's behaviour, kept in the model and excluded by `hurried`.

## 7. The pure modules

`Calendar` has a second, independent definition of what a date is: a calendar on the wall that
only knows how long each month is, a count of the days, and weeks turned one day at a time
(`TurnPage`). `NumbersCountDays` and `WeeksTurnDaily` say that the closed formulas of `jdn.go`
and `pawukon.go`, translated with Go's truncating division, agree with it.

`Occurrences` lives through one occasion on that wall. `IsMark` is what people understand by the
recurrence; `count` and `since` count its marks.

- `MarksFallOnTheirDays`: `OccurrencesBetween` of one day is exactly that day's mark, with its
  stream and number.
- `WindowIsItsDays`: a window is its first day plus the window of the rest; with the
  former, that makes windows of any length right, and two scans neither skip nor repeat a mark.
- `NextIsNearest`: `NextOccurrence` (which only tests call, and which is the tests' oracle)
  agrees.
- `DueIsFound`: the window `RunOnce` asks for contains every mark of which a reminder is due in
  the catch-up window, whichever stream and layer the offset comes from. This is what `Scheduler`
  assumes when it takes due days as constants.

`HolidayMerge` follows one date: sources in provider order, of which the first is computed and
cannot fail, the names each would answer, the switched categories, and the log keys of the
pushes so far (`HolidayKey`: category and name of the first source that has the holiday).

- `ComputedKeyOnly`, `RepeatNeedsItsSources`: where the dedupe of `scheduler.go:305-307` does and
  does not hold. A computed holiday keeps one key whatever the remote sources do; any
  other may get a second one, but only if one of its sources or an earlier one changed.
- `OutageHidesOnlyItsOwn`: a failing source never costs the holidays of another.
- `UpcomingIsScheduled`: the second implementation of the merge, in `MultiProvider`, gives the
  same holidays in the same categories, whenever it answers at all.

## 8. Runs

| run | constants | what it shows |
|---|---|---|
| `scheduler_safety` | 2 callers, 1 contact with a birthday reminder, 1 holiday, 1 channel, 2 settings documents, 2 faults, time 0–2 | all safety properties and the refinement |
| `catch_up` | 2 callers, 2 channels of which the contact selects one, 2 faults, window 7 | `CaughtUp` |
| `scheduler_liveness` | 2 callers, 1 fault, both lookbacks end at time 5, time 0–6, a user pausing and resuming | `EventuallyDecided`, `LockIsReleased` |
| `sent_once` | as `scheduler_safety` | a violation, see section 11 |
| `saved_window` | saved windows 3 and 2, default window 1 | a violation, see section 11 |
| `cache_safety` | 2 callers over 2 years, 1 fault | the four safety properties |
| `cache_liveness` | 2 callers, 1 year, 3 faults | `Refreshed` |
| `aborted_request` | as `cache_liveness` | a violation, see section 11 |
| `prefs_editor` | occasion: 2 contents, 3 edits, 1 lost answer or refetch; contact: 2 channels, 2 offset maps, 2 PUTs, 1 upset; settings: 1 channel, 3 rests, 2 saves, 1 mishap; any number of refusals and refetches | the properties of sections 4, 5 and 6 |
| `stale_body` | the occasion editor alone, nothing lost | a violation, see section 11 |
| `silenced_contact` | the contact's tab alone, 1 PUT, 1 upset | a violation, see section 11 |
| `domain` | 3 long lives, 20 short ones, 3 holiday sources | the properties of section 7 |

Bounds, and why they are enough:

- *Two callers*. Every hazard between callers is one between a holder (or earlier user) and
  a newcomer; the proofs cover any number.
- *Two reminders*, because the two kinds take different paths (selection and narrowing of
  channels for an occasion, broadcast for a holiday, which has no foreign key to lose), due on
  different days so that one is overdue while the other is not. *One channel*, except
  where the backoff of one must not cost the other (`catch_up`).
- `MaxFaults = 2`: the interesting combinations need two (a lost trace and a failed look-up;
  a cancelled request and a crash). `catch_up` and `cache_liveness` need as many as it takes
  for one failure to fall into the recovery from another; a whole failed refresh is two, so
  `cache_liveness` has three. `cache_safety` has one because an aborted request makes both
  mirrors fail without any further fault.
- `MaxTime`: reaches past the due day of the last reminder plus the wider window in the
  safety run (closed and open windows both occur), past the point where each reminder could
  be missed in `catch_up`.
- `catch_up`'s window is `ScanGap + MaxFaults * (2 * ScanGap + max(MaxDowntime,
  FailBackoff))` = 7: every fault costs at most the scan it hits, the backoff or downtime that
  follows and the wait for the next scan. With 6 the run fails: the bound is exact. With the
  code's numbers (a minute, fifteen minutes of backoff) a window of an hour survives three
  failures in a row.
- `scheduler_liveness` has reminders due at 0 with no catch-up and a lookback of 5, and goes on
  to 6, where scans compute nothing any more. A fault costs at most 3 there, so a pair counts as in
  time up to 1: at 0 it is still to be sent, at 1 to be recorded as missed. With a premise one
  unit weaker the run fails: the birthday is resumed at 2, just after the contact was read, and the
  process dies in the next scan. In the code the lookback reaches more than two days past any
  window, and a scan begins every minute.
- `ScanGap` bounds ticker period and scan length together (9, so no bound at all,
  in the safety runs).
- `HolidayCache`: `Busy` (five seconds) is shorter than `Freshness` (a day), as are `Timeout`
  (fifteen seconds per mirror) and `FailBackoff` (ten minutes); the instance keeps the order
  that matters, and the proofs use only `Busy < Freshness`.
- `MaxPuts = 4` counts the row found and three edits: the one acknowledged, the one that fails
  and the one composed afterwards. `MaxFaults = 1` in `prefs_editor` is for lost answers and
  failed refetches; a refused PUT costs no fault. `stale_body` needs none at all.
- `MaxRequests = 2` and `MaxSaves = 2`: every hazard there is one between two PUTs, or a PUT and a
  refetch; the proofs cover any number. `MaxUpsets` and `MaxMishaps` are the one loss, deletion or
  save elsewhere that the properties must survive or except. The settings invariant was also
  checked with three saves.
- `domain`: the long lives are an otonan of 1796 up to 1901, a yearly occasion from 31 August
  1899 up to 2004 and an otonan of 2003 up to 2104, so that 1800, 1900, 2000, 2100, the anchor of
  2026 and more than one cycle on either side of it are passed day by day. The short ones
  take every recurrence through three years from 29 February 2024, 29 February 2096 (before a century
  without a leap day), 31 August 2023 and 30 December 2024. Windows of 1, 62 and 400 days; a
  catch-up of 25 hours, the smallest that counts as two days; offsets up to 60, the most
  the API accepts; defaults, a contact's and an occasion's own layers. In the life `Still` no day
  passes and the holiday sources move: three sources, three spellings of two holidays, two moves
  (a category switched, an outage or its end, a new list).
- `MCWebEditors` and `MCDomain` hold modules that share no state side by side: `desk` and `life`
  choose which one moves, so that no product of their states is built.
- `CHECK_DEADLOCK` is off in `domain` only, where lives end; it is on everywhere else.

Every property of a passing run has a mutant in `PROJECT.json`: a change of one mapped
definition that a plausible bug would make, under which the same run reports the property.

### Fairness

- `WF(Tick)`: time passes. `WF(TakeSnapshot(Loop))`: the ticker's goroutine never ends while
  the process lives (`loop.go`); after a crash the container is restarted (`restart: unless-stopped`).
- `SF(Lock(p))`: Go's `sync.Mutex` hands over to a waiter that has starved for a
  millisecond, so a caller that finds the mutex free again and again gets it.
- `WF(ScanStep(p))`, `WF(LoadStep(p))`: a running goroutine is scheduled, and every call in a scan
  has a timeout, so it returns.
- `SF(Begin(Scan, _))` in `HolidayCache`: scans go on calling it; strong, because its
  enabledness is interrupted while a call runs.
- Nothing is assumed of users, of run-now requests or of the remote source beyond the bound
  on faults.

## 9. Proofs

`SchedulerProofs` proves, for any number of callers, contacts, occasions, channels, reminders
and settings documents, any times and any number of faults:

| theorem | states |
|---|---|
| `TypeCorrect` | `Spec => []TypeOK` |
| `Invariance` | `Spec => []IInv` |
| `NoDuplicates`, `TruthfulRows`, `NoOrphans`, `BackoffRespected`, `ScansAreSound` | the invariants of section 2 |
| `DecisionIsFinal` | `Spec => ClosedIsFinal` |
| `Refinement` | `Spec => LedgerSpec` |
| `NothingIsMissed` | `WindowSuffices` implies `QuietSpec => []CaughtUp` |

`NoUnexplainedDuplicate` is not inductive: it must be known at `SendOK` that no earlier push
is unaccounted for. `IInv` adds the reasons, most of them in `ScanInvariant`, a named part for
each: (1) only the holder of the mutex is inside a scan, so no other scan can decide between
its look-up and its send; (2) a look-up that found no row still holds at the send: rows
are written by the holder only, and deletions only remove them; (3) at `RecordSent` the pair
was pushed; (4) a pair without a row, of which no row is just being written, has
`pushes <= licence`; (5) `deliver`'s clock is never ahead and the channel in hand had
ended its rest by then. Each action that can disturb it is a lemma, with one step per conjunct it
disturbs. `ClosedIsFinal` follows from (2), the refinement from (1), (3) and (4): every step is
mapped to the ledger's step of the same effect or to a stutter.

`NothingIsMissed` is about time. Its hypothesis `WindowSuffices` is on the constants: the catch-up
window is at least `ScanGap + MaxFaults * Setback`, where a `Setback` is
`2 * ScanGap + max(MaxDowntime, FailBackoff)`, and the defaults that a failed settings read falls
back on keep what the saved document asks for that long, for the same channels. The `catch_up` run
meets it with equality. The invariant `QuietInv` is a budget. A fault is *spent* when it does
harm: at once if it hits the scan in progress or kills the process, and only when the mutex is
taken if it hit a request that still waits (`Pending`), because that request may harm the reminders
much later. `Deadline` is the send time plus one `ScanGap` and one `Setback` per fault spent. For
every wanted pair without a row, the last scan began before the deadline, the channel's rest ends a
`ScanGap` before it, and (`OnTime`) one of four things is the case: the hour has not
come; the channel rests; there is a `ScanGap` left; or the scan in progress is sound and has the
pair still before it (`Ahead`). Each step of a sound scan keeps the pair ahead or decides
it, a fault moves the deadline by more than it costs, and a scan that begins does so in time in all
four cases. Since the deadline never lies past the window, `RecordMissed` only ever finds rows.

`HolidayCacheProofs` proves `TypeCorrect`, `RowsAreHonest`, `CacheServes`, `OldIsFlagged` and
`SourceIsSpared` for any finite number of callers and any range of years. Its invariant adds to
the properties: an answer in flight is as old as it has waited (`CallsOK`), a row a call
owes is in its hands or still in the table (`RowsKept`), and the fetches begun in a backoff are
those of distinct callers, each of which is past the check (`Spared`, a cardinality argument).

`OccasionPrefsEditorProofs` proves `TypeCorrect`, `SwitchIsTrue` (`SwitchShowsRow`),
`ScreenAgrees` (`SettledAgrees`) and `BodiesAreFresh` (`OnlyFailuresRevert`) for any contents and
any number of edits, failures and refetches. `SettledAgrees` speaks of the end of a race, so the
invariant has to say what every stage of it owes: a row that is some PUT's body is the newest
one's, and a pending editor shows it (`BodyOK`); without overtaking the server holds the newest row
as soon as that row has reached it (`OrderOK`); an answer under way or a cache at rest is behind the
server only by PUTs whose own answer will start another refetch (`FetchOK`); an editor with
nothing pending shows its saved row or the cached one (`ShownOK`).

`ContactPrefsProofs` proves every property of section 5 that holds, for any channels,
offsets, clicks and losses. Its invariant says what each stage of a request carries: every field
of a merged row is the first one or one that was sent, and without another write in between the row is the
body merged into what is still stored (`MergedOK`); a page that is owed
nothing shows the row (`ShownOK`), and so does its untouched form (`TabOK`); and while nobody was
hasty, the channels clicked are the stored ones plus the one open request (`PatientOK`).

`SettingsEditorsProofs` proves `IdleCopyAgrees` and `SavesCount` for any number of saves, mishaps and
page changes: a copy at rest with nothing owed is the document (`CopyOK`), and in a calm history every
open save's body is the wish (`CalmOK`), because a locked page cannot send a second one from
an old copy.

`HolidayMergeProofs` proves `TypeCorrect`, `ComputedKeyHolds`, `RepeatsExplained`,
`OutagesHideTheirOwn` and `ListAndScanAgree` for any number of sources, names and moves.

`CalendarProofs` proves `NumbersAlwaysCount` and `WeeksAlwaysTurn`: hung up on any day and turned
for ever, the wall calendar agrees with the formulas on every day. The first
rests on `TomorrowIsNext` (the number of the next date is one more, month by month, with the leap rule)
and `DateOfJDN` (`DateFromJDN` inverts `JDN` for every date); the second on `CycleDayTurns` and
`PawukonTurns`, which hold for all integers, before the anchor as after it. A second part is about the order
of days: numbers order them as years, months and dates do (`DaysInOrder`, `MonthsInOrder`), no
two days share a number, and a date of the next month or year is at most 62 or 366 days away.

`OccurrencesProofs` proves the four properties of `Occurrences` for every base date from the
year 2 on, every recurrence and any windows, offsets and layers. It numbers the marks of an
occasion (`Mark`) and their days (`DayNo`), and shows that the days increase with the numbers
(`MarksInOrder`), by 366 days at most (`MarksAreNear`). `Between` is then the main lemma:
`OccurrencesBetween` is the set of all marks whose days lie in the range. Its hard part is
`FirstMonthMarkIs`, that the estimate of `firstMonthMark` never exceeds the number of the first
mark and the search ends at it within two months; clamped month ends and a range that begins before the base date are
what could break that. `NextIs` says the same of `NextOccurrence`. The properties follow the calendar
on the wall day by day, so they need an inductive invariant, `LifeInv`: between two
marks, `count` is the number of the last one, its day plus `since` is today, and the day of the
next one has not come. That `IsMark`, which only looks at tomorrow's date, and the numbered marks
agree is `FallsOnNext`. `DueAlwaysFound` also uses that offsets are at most 60 days
(`ValidateOffsets`) and the catch-up window at most 168 hours (`settings.go:85`), so that a scan's
range does not start before the calendar does.

Assumptions are the named `ASSUME`s of the modules, all of them about types and about
sets being disjoint or not empty, except `Busy < Freshness`, `ScanGap > 0` and two of
`Occurrences`: a life is walked from a day after the year 1 and not after its base date, and offsets
and windows are within what the API accepts. `WindowSuffices` is a hypothesis of its one theorem. TLC evaluates them on every
run.

Only model-checked: liveness (`EventuallyDecided`, `LockIsReleased`, `Refreshed`), which TLAPS
cannot prove under fairness. Every other property of a passing run is stated by a theorem.

## 10. What is left out, and why

- *Texts, logging, protocols of the notifiers*: no effect on state. Labels of occurrences are
  texts; `Age` and `ReminderDates` only feed them, or tests.
- *Due days in `Scheduler`*: constants; the engine is correct for any `Due`, and `Occurrences`
  is about which days they are.
- *Edits of an occasion's date, of offsets and of channel selections* while scans run: `Due` and
  `Choice` are constants of `Scheduler`. An edited date makes new log keys, hence new reminders, in
  the code as well.
- *User by user*: the contacts of all users are scanned alike; a holiday reminder stands for one
  user's. Ownership checks of the API (`ownerScope`) are one `WHERE` clause per statement and
  are not modelled; they would be `Directory` of section 12.
- *Contacts, occasions and channels* are created, validated and edited by single statements. What
  other parts see of that (pausing, disabling, deleting with its cascades) is in `Scheduler`
  and `ContactPrefs`.
- *Manual notify and channel test*: one push without a row, by design; nothing to relate.
- *Secrets, configuration, authentication, seed, migrations*: start-up or stateless code; a
  token's verification is a library's.
- *The web client* apart from the three editors. Most of its lines are the `components/reui`
  registry (data grid, event calendar, date selector) and `components/ui`: general widgets taken over
  from a component registry, with nothing of this program in them. The program's own pages fetch
  and render; state that outlives a render is in the editors that are modelled. The marketing
  site and the fixture script have none.

## 11. Disagreements between the code and what is said of it

- `sent_once`. `README.md:11` of the repository says that "a unique constraint in the
  notification log guarantees each reminder is sent once per event/date/offset/channel". The
  constraint guarantees one *row*. The run finds the shortest way to two pushes: the insert after
  the push fails (or the process dies there) and the next scan pushes again.
  `NoUnexplainedDuplicate` is the guarantee the code does give.
- `saved_window`. `LoadSettings` answers *any* read error with the built-in defaults
  (`settings.go:48`). A scan that meets one works with the default window, and everything due
  between the default and a longer saved window is recorded as missed, which is final. With
  `MaxFaults = 0` the same run fails in a second way: a run-now has built its snapshot
  (`main.go:81`), an admin widens the window before it gets the mutex, and it decides with the narrower
  one.
- `aborted_request`. `cached.go:25` says that *remote* failures are recorded; `loadYear`
  also records the cancelled context of a client that went away (`cached.go:103`), and no caller
  refreshes that year for the next ten minutes.
- `stale_body`. `occasion-prefs-editor.tsx:76-80` says that back-to-back actions "cannot send a
  stale full-replace body that silently reverts the previous action". `onError` adopts the cached row
  (line 143), which lags behind the last acknowledged PUT until its refetch has landed. If
  the next PUT is refused in between, the screen falls back behind the acknowledged edit, and the
  edit after that is composed from there and undoes it on the server. `OnlyFailuresRevert` is what
  does hold.

- `silenced_contact`. `reminder-prefs-tab.tsx:124` says that "no selection uses the system default
  channels", and `contact-detail-content.tsx:127` says the same. `targetChannels` (`scheduler.go:136`)
  asks whether the stored list is empty, and deleting a channel leaves its id in the lists. An active
  contact whose only channel was deleted shows no selection and is sent nothing, until a chip is
  clicked (which keeps the dead id) or all of its channels are chosen anew.

Met while modelling, and described by a property that says what does hold:

- `handlers.go:263`, "only the fields the client sent change", fails for two overlapping PUTs
  (`SentFieldsChange` has the premise, `FieldsWereSent` what is left without it).
- `scheduler.go:305-307`, "notification_log dedupe never re-sends", fails when a category is switched
  off or an earlier source comes or goes between two scans (`ComputedKeyOnly`,
  `RepeatNeedsItsSources`).
- `occasion-form.tsx` tells the user that "Feb 29 in non-leap years is observed on March 1."; that
  is the yearly pattern. Monthly and anniversary marks are clamped to 28 February
  (`MarksFallOnTheirDays` has both).
- `scheduler.go:168-169` says that what is older than the window is "missed". A reminder that is
  wanted again only after its lookback has ended (an occasion paused, or a server down, for more than
  the window and two days) gets no row at all (`scheduler.go:191`, `228-243`): `EventuallyDecided`
  has the premise `InTime`.
- Saving one field of the contact's tab refills its form from the answer and drops what is typed
  in the others (`LandPrefs`).

## 12. Plan

Done, in this order: `ReminderLedger` and `Scheduler`; `HolidayCache`; `OccasionPrefsEditor`;
`Calendar` and `Occurrences`; `HolidayMerge`; `ContactPrefs`; `SettingsEditors`; their runs and their
proofs. Left:

1. `Directory`: CRUD of contacts, occasions and channels with owner scopes, edits of dates and
   selections, composed with `Scheduler`'s reads; theorem: no step of one owner changes what
   another owns.
2. `Migrations`: the versioned schema steps with a crash between any two.
