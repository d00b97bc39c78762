--------------------------- MODULE SchedulerProofs ---------------------------
(* Theorems about Scheduler, for every value of its constants.              *)
EXTENDS Scheduler, FiniteSetTheorems, TLAPS

-----------------------------------------------------------------------------
(* Type correctness.                                                        *)

\* The locals of a goroutine outside a scan are of their types.
LEMMA IdleType == Idle \in ScanState
<1>1. (CHOOSE r \in Reminders : TRUE) \in Reminders
  BY ChannelsAssumption
<1>2. (CHOOSE c \in Channels : TRUE) \in Channels
  BY ChannelsAssumption
<1> QED
  BY <1>1, <1>2, SettingsAssumption DEF Idle, ScanState, Steps

\* A goroutine that enters a well-typed state leaves every other one typed.
LEMMA BecomesType ==
  ASSUME TypeOK, NEW p \in Scanners, NEW st \in ScanState, Becomes(p, st)
  PROVE  scan' \in [Scanners -> ScanState]
BY DEF TypeOK, Becomes

\* The channels and the reminders a scan computes are those of the model.
LEMMA TargetsType ==
  ASSUME NEW c \in Contacts, NEW s \in SettingsDoc
  PROVE  TargetChannels(c, s) \subseteq Channels
BY DEF TargetChannels, Enabled

\* The channels an occasion narrows to are among those it got.
LEMMA ChannelsForType ==
  ASSUME NEW r \in Reminders, NEW cs \in SUBSET Channels
  PROVE  ChannelsFor(r, cs) \subseteq Channels
BY DEF ChannelsFor

\* A fresh database and an idle process are well typed.
LEMMA InitType == Init => TypeOK
BY IdleType, SettingsAssumption DEF Init, TypeOK, Keys

\* Every step of one scan takes its goroutine to a well-typed state.
LEMMA ScanStepScan ==
  ASSUME TypeOK, NEW p \in Scanners, ScanStep(p)
  PROVE  scan' \in [Scanners -> ScanState]
<1> DEFINE S == scan[p]
<1>0. S \in ScanState
  BY DEF TypeOK
<1>i. Idle \in ScanState
  BY IdleType
<1>u. SUFFICES \E st \in ScanState : Becomes(p, st)
  BY BecomesType
<1>1. ASSUME NEW c \in Contacts, ReadContact(p, c)
      PROVE  \E st \in ScanState : Becomes(p, st)
  <2> DEFINE st == [S EXCEPT !.todo = @ \ {c},
       !.seen = @ \cup {o \in Occasions :
                          ContactOf[o] = c /\ {o, c} \cap off = {} /\ o \notin gone}]
  <2>1. st \in ScanState
    BY <1>0 DEF ScanState
  <2>2. Becomes(p, st)
    BY <1>1 DEF ReadContact
  <2> QED
    BY <2>1, <2>2
<1>2. ASSUME ListingFails(p) PROVE \E st \in ScanState : Becomes(p, st)
  BY <1>2, <1>i DEF ListingFails, Release
<1>3. ASSUME StartSending(p) PROVE \E st \in ScanState : Becomes(p, st)
  <2> DEFINE T == {x \in Contacts \cup Holidays : Work(p, x) # {}}
  <2> DEFINE st == [S EXCEPT !.pc = "sources", !.todo = T]
  <2>1. st \in ScanState
    <3>1. T \in SUBSET (Contacts \cup Holidays)
      OBVIOUS
    <3> HIDE DEF T
    <3> QED
      BY <1>0, <3>1 DEF ScanState, Steps
  <2>2. Becomes(p, st)
    BY <1>3 DEF StartSending
  <2> QED
    BY <2>1, <2>2
<1>4. ASSUME NEW x \in Contacts \cup Holidays, OpenSource(p, x)
      PROVE  \E st \in ScanState : Becomes(p, st)
  <2> DEFINE C == IF x \in Holidays THEN Enabled ELSE TargetChannels(x, S.snap)
  <2> DEFINE W == Work(p, x)
  <2> DEFINE opened == [S EXCEPT !.pc = "reminders",
             !.todo = @ \ {x}, !.rems = W, !.chans = C]
  <2> DEFINE failed == [S EXCEPT !.todo = @ \ {x}]
  <2>1. C \in SUBSET Channels
    <3>1. S.snap \in SettingsDoc
      BY <1>0 DEF ScanState
    <3>2. CASE x \in Holidays
      BY <3>2 DEF Enabled
    <3>3. CASE x \notin Holidays
      BY <3>1, <3>3, TargetsType
    <3> QED
      BY <3>2, <3>3
  <2>2. W \in SUBSET Reminders
    BY DEF Work
  <2>3. Becomes(p, opened) \/ Becomes(p, failed)
    BY <1>4 DEF OpenSource
  <2> HIDE DEF C, W
  <2>4. opened \in ScanState
    BY <1>0, <2>1, <2>2 DEF ScanState, Steps
  <2>5. failed \in ScanState
    BY <1>0 DEF ScanState
  <2> QED
    BY <2>3, <2>4, <2>5
<1>5. ASSUME NEW r \in Reminders, BeginReminder(p, r)
      PROVE  \E st \in ScanState : Becomes(p, st)
  <2> DEFINE C == ChannelsFor(r, S.chans)
  <2> DEFINE pc == IF Overdue(r, S.snap, S.at) THEN "missed" ELSE "deliver"
  <2> DEFINE st == [S EXCEPT !.pc = pc, !.rems = @ \ {r}, !.rem = r, !.dnow = now,
                             !.left = C]
  <2>1. C \in SUBSET Channels
    BY <1>0, ChannelsForType DEF ScanState
  <2>2. pc \in Steps
    BY DEF Steps
  <2>3. Becomes(p, st)
    BY <1>5 DEF BeginReminder
  <2>4. now \in Nat
    BY DEF TypeOK
  <2> HIDE DEF C, pc
  <2>5. st \in ScanState
    BY <1>0, <2>1, <2>2, <2>4 DEF ScanState
  <2> QED
    BY <2>3, <2>5
<1>6. ASSUME NEW c \in Channels, RecordMissed(p, c) \/ SkipChannel(p, c)
      PROVE  \E st \in ScanState : Becomes(p, st)
  <2> DEFINE st == [S EXCEPT !.left = @ \ {c}]
  <2>1. st \in ScanState
    BY <1>0 DEF ScanState
  <2>2. Becomes(p, st)
    BY <1>6 DEF RecordMissed, SkipChannel
  <2> QED
    BY <2>1, <2>2
<1>7. ASSUME NEW c \in Channels, Attempt(p, c)
      PROVE  \E st \in ScanState : Becomes(p, st)
  <2>1. PICK blind \in BOOLEAN :
          Becomes(p, [S EXCEPT !.pc = "send", !.left = @ \ {c}, !.ch = c, !.blind = blind])
    BY <1>7 DEF Attempt
  <2>2. [S EXCEPT !.pc = "send", !.left = @ \ {c}, !.ch = c, !.blind = blind] \in ScanState
    BY <1>0 DEF ScanState, Steps
  <2> QED
    BY <2>1, <2>2
<1>8. ASSUME NextChannel(p) PROVE \E st \in ScanState : Becomes(p, st)
  <2> DEFINE ch == Idle.ch
  <2> DEFINE st == [S EXCEPT !.pc = "deliver", !.ch = ch, !.blind = FALSE]
  <2>1. ch \in Channels
    BY <1>i DEF ScanState
  <2>2. Becomes(p, st)
    BY <1>8 DEF NextChannel
  <2> HIDE DEF ch
  <2>3. st \in ScanState
    BY <1>0, <2>1 DEF ScanState, Steps
  <2> QED
    BY <2>2, <2>3
<1>9. ASSUME ResolveFails(p) \/ SendFails(p) \/ RecordSent(p)
      PROVE  \E st \in ScanState : Becomes(p, st)
  BY <1>8, <1>9 DEF ResolveFails, SendFails, RecordSent
<1>10. ASSUME SendOK(p) PROVE \E st \in ScanState : Becomes(p, st)
  <2>1. [S EXCEPT !.pc = "record"] \in ScanState
    BY <1>0 DEF ScanState, Steps
  <2> QED
    BY <1>10, <2>1 DEF SendOK
<1>11. ASSUME Advance(p) PROVE \E st \in ScanState : Becomes(p, st)
  <2> DEFINE r == Idle.rem
  <2> DEFINE ended == [S EXCEPT !.pc = "reminders", !.rem = r, !.dnow = 0]
  <2> DEFINE next == [S EXCEPT !.pc = "sources", !.chans = {}]
  <2>1. r \in Reminders
    BY <1>i DEF ScanState
  <2>2. Becomes(p, ended) \/ Becomes(p, next) \/ Becomes(p, Idle)
    BY <1>11 DEF Advance, Release
  <2> HIDE DEF r
  <2>3. ended \in ScanState /\ next \in ScanState
    BY <1>0, <2>1 DEF ScanState, Steps
  <2> QED
    BY <1>i, <2>2, <2>3
<1> QED
  BY <1>1, <1>2, <1>3, <1>4, <1>5, <1>6, <1>7, <1>9, <1>10, <1>11 DEF ScanStep

\* One insertion, one increment, one backoff keep the tables well-typed.
LEMMA InsertType ==
  ASSUME TypeOK, NEW k \in Keys, NEW status \in {"sent", "missed"}, InsertRow(k, status)
  PROVE  log' \in [Keys -> {"none", "sent", "missed"}]
BY DEF TypeOK, InsertRow

\* A call leaves the count of faults a number.
LEMMA CallType ==
  ASSUME TypeOK, NEW p \in Scanners, CallFails(p) \/ CallSucceeds(p) \/ Fault
  PROVE  faults' \in Nat
BY DEF TypeOK, CallFails, CallSucceeds, Fault

\* The pair in a goroutine's hand is one of the log's keys.
LEMMA KeyType ==
  ASSUME TypeOK, NEW p \in Scanners
  PROVE  KeyOf(p) \in Keys /\ scan[p].rem \in Reminders /\ scan[p].ch \in Channels
BY DEF TypeOK, ScanState, KeyOf, Keys

\* The steps of one scan preserve the types.
LEMMA ScanStepType ==
  ASSUME TypeOK, NEW p \in Scanners, ScanStep(p)
  PROVE  TypeOK'
<1>0. scan' \in [Scanners -> ScanState]
  BY ScanStepScan
<1>k. KeyOf(p) \in Keys /\ scan[p].rem \in Reminders /\ scan[p].ch \in Channels
  BY KeyType
<1> USE DEF dbVars, worldVars, historyVars
<1>1. ASSUME NEW c \in Contacts, ReadContact(p, c) PROVE TypeOK'
  BY <1>0, <1>1, CallType DEF ReadContact, TypeOK
<1>2. ASSUME ListingFails(p) PROVE TypeOK'
  BY <1>0, <1>2, CallType DEF ListingFails, Release, TypeOK
<1>3. ASSUME StartSending(p) PROVE TypeOK'
  BY <1>0, <1>3 DEF StartSending, TypeOK
<1>4. ASSUME NEW x \in Contacts \cup Holidays, OpenSource(p, x) PROVE TypeOK'
  BY <1>0, <1>4, CallType DEF OpenSource, TypeOK
<1>5. ASSUME NEW r \in Reminders, BeginReminder(p, r) PROVE TypeOK'
  BY <1>0, <1>5 DEF BeginReminder, TypeOK
<1>6. ASSUME NEW c \in Channels, RecordMissed(p, c) PROVE TypeOK'
  <2> DEFINE k == <<scan[p].rem, c>>
  <2>1. k \in Keys
    BY <1>k DEF Keys
  <2>2. CallFails(p) \/ CallSucceeds(p) \/ UNCHANGED faults
    BY <1>6 DEF RecordMissed
  <2>3. faults' \in Nat
    BY <2>2, CallType DEF TypeOK
  <2>4. InsertRow(k, "missed") \/ UNCHANGED log
    BY <1>6 DEF RecordMissed
  <2>5. log' \in [Keys -> {"none", "sent", "missed"}]
    BY <2>1, <2>4, InsertType DEF TypeOK
  <2>6. UNCHANGED <<settings, off, gone, mu, failUntil, now, historyVars>>
    BY <1>6 DEF RecordMissed
  <2> QED
    BY <1>0, <2>3, <2>5, <2>6 DEF TypeOK
<1>7. ASSUME NEW c \in Channels, SkipChannel(p, c) PROVE TypeOK'
  BY <1>0, <1>7, CallType DEF SkipChannel, TypeOK
<1>8. ASSUME NEW c \in Channels, Attempt(p, c) PROVE TypeOK'
  BY <1>0, <1>8, CallType DEF Attempt, TypeOK
<1>9. ASSUME ResolveFails(p) PROVE TypeOK'
  BY <1>0, <1>9, CallType DEF ResolveFails, TypeOK
<1>10. ASSUME SendOK(p) PROVE TypeOK'
  BY <1>0, <1>10, <1>k DEF SendOK, TypeOK
<1>11. ASSUME SendFails(p) PROVE TypeOK'
  <2>1. RestUntil(p) \in Nat
    BY TimingAssumption DEF RestUntil, TypeOK, ScanState
  <2>2. faults' \in Nat
    BY <1>11, CallType DEF SendFails
  <2> QED
    BY <1>0, <1>11, <1>k, <2>1, <2>2 DEF SendFails, TypeOK
<1>12. ASSUME RecordSent(p) PROVE TypeOK'
  <2>2. CallFails(p) \/ CallSucceeds(p) \/ UNCHANGED faults
    BY <1>12 DEF RecordSent
  <2>3. faults' \in Nat
    BY <2>2, CallType DEF TypeOK
  <2>4. InsertRow(KeyOf(p), "sent") \/ UNCHANGED log
    BY <1>12 DEF RecordSent
  <2>5. log' \in [Keys -> {"none", "sent", "missed"}]
    BY <1>k, <2>4, InsertType DEF TypeOK
  <2>6. licence' \in [Keys -> Nat]
    BY <1>12, <1>k DEF RecordSent, TypeOK
  <2>7. UNCHANGED <<settings, off, gone, mu, failUntil, now, pushes, lastScan>>
    BY <1>12 DEF RecordSent
  <2> QED
    BY <1>0, <2>3, <2>5, <2>6, <2>7 DEF TypeOK
<1>13. ASSUME Advance(p) PROVE TypeOK'
  BY <1>0, <1>13 DEF Advance, Release, TypeOK
<1> QED
  BY <1>1, <1>2, <1>3, <1>4, <1>5, <1>6, <1>7, <1>8, <1>9, <1>10, <1>11, <1>12, <1>13
     DEF ScanStep

\* Every step of the system, the users and the environment preserves the types.
LEMMA NextType == TypeOK /\ [Next]_vars => TypeOK'
<1> SUFFICES ASSUME TypeOK, [Next]_vars PROVE TypeOK'
  OBVIOUS
<1> USE DEF dbVars, worldVars, historyVars
<1>i. Idle \in ScanState
  BY IdleType
<1>1. ASSUME NEW p \in Scanners, TakeSnapshot(p) PROVE TypeOK'
  <2>1. settings \in SettingsDoc /\ DefaultSettings \in SettingsDoc
    BY SettingsAssumption DEF TypeOK
  <2>2. \A s \in SettingsDoc : [Idle EXCEPT !.pc = "waiting", !.snap = s] \in ScanState
    BY <1>i DEF ScanState, Steps
  <2>3. \/ Becomes(p, [Idle EXCEPT !.pc = "waiting", !.snap = settings])
        \/ Becomes(p, [Idle EXCEPT !.pc = "waiting", !.snap = DefaultSettings])
    BY <1>1 DEF TakeSnapshot
  <2>4. scan' \in [Scanners -> ScanState]
    BY <2>1, <2>2, <2>3, BecomesType
  <2>5. faults' \in Nat
    BY <1>1 DEF TakeSnapshot, Fault, TypeOK
  <2>6. UNCHANGED <<dbVars, mu, failUntil, now, historyVars>>
    BY <1>1 DEF TakeSnapshot
  <2> QED
    BY <2>4, <2>5, <2>6 DEF TypeOK
<1>2. ASSUME NEW p \in Scanners, CancelRequest(p) PROVE TypeOK'
  <2>1. [scan[p] EXCEPT !.ctx = FALSE] \in ScanState
    BY DEF TypeOK, ScanState
  <2>2. scan' \in [Scanners -> ScanState]
    BY <1>2, <2>1, BecomesType DEF CancelRequest
  <2> QED
    BY <1>2, <2>2, CallType DEF CancelRequest, TypeOK
<1>3. ASSUME NEW p \in Scanners, Lock(p) PROVE TypeOK'
  <2> DEFINE st == [scan[p] EXCEPT !.pc = "listing", !.at = now, !.todo = Contacts]
  <2>1. st \in ScanState
    BY DEF TypeOK, ScanState, Steps
  <2>2. Becomes(p, st)
    BY <1>3 DEF Lock
  <2>3. scan' \in [Scanners -> ScanState]
    BY <2>1, <2>2, BecomesType
  <2> QED
    BY <1>3, <2>3 DEF Lock, TypeOK
<1>4. ASSUME NEW p \in Scanners, ScanStep(p) PROVE TypeOK'
  BY <1>4, ScanStepType
<1>5. ASSUME NEW d \in 0 .. MaxDowntime, Crash(d) PROVE TypeOK'
  <2>1. now' \in Nat /\ lastScan' \in Nat /\ faults' \in Nat
    BY <1>5, TimingAssumption DEF Crash, Fault, TypeOK
  <2>2. licence' \in [Keys -> Nat]
    BY <1>5 DEF Crash, TypeOK
  <2> QED
    BY <1>i, <1>5, <2>1, <2>2 DEF Crash, TypeOK
<1>6. ASSUME Tick PROVE TypeOK'
  BY <1>6 DEF Tick, TypeOK
<1>7. ASSUME NEW s \in Settings, SaveSettings(s) PROVE TypeOK'
  BY <1>7, SettingsAssumption DEF SaveSettings, TypeOK
<1>8. ASSUME NEW x \in Switchable, Toggle(x) PROVE TypeOK'
  BY <1>8, TimingAssumption DEF Toggle, TypeOK, Things
<1>9. ASSUME NEW x \in Occasions \cup Channels, Delete(x) PROVE TypeOK'
  BY <1>9 DEF Delete, TypeOK
<1>10. ASSUME UNCHANGED vars PROVE TypeOK'
  BY <1>10 DEF vars, TypeOK
<1> QED
  BY <1>1, <1>2, <1>3, <1>4, <1>5, <1>6, <1>7, <1>8, <1>9, <1>10
     DEF Next, SystemNext, UserNext

\* Every variable of the engine, and every local of its goroutines, holds a
\* value of its kind in every reachable state.
THEOREM TypeCorrect == Spec => []TypeOK
<1>1. Init => TypeOK
  BY InitType
<1>2. TypeOK /\ [Next]_vars => TypeOK'
  BY NextType
<1> QED
  BY <1>1, <1>2, PTL DEF Spec

-----------------------------------------------------------------------------
(* The inductive invariant.                                                 *)

IInv == TypeOK /\ NoUnexplainedDuplicate /\ RowsTellTheTruth /\ NoOrphanRow /\ ScanInvariant

\* A fresh database and an idle process satisfy the inductive invariant.
LEMMA InitInvariant == Init => IInv
<1> SUFFICES ASSUME Init PROVE IInv
  OBVIOUS
<1>1. TypeOK
  BY InitType
<1>2. \A p \in Scanners : scan[p].pc = "idle" /\ scan[p].dnow = 0
  BY DEF Init, Idle
<1> QED
  BY <1>1, <1>2
     DEF Init, IInv, NoUnexplainedDuplicate, RowsTellTheTruth, NoOrphanRow,
         ScanInvariant, Holding

\* A step of p that sends and records nothing, and hands the mutex on correctly.
\* It covers most of a scan: listing, opening sources, skipping, returning.
LEMMA QuietStep ==
  ASSUME IInv, TypeOK', NEW p \in Scanners,
         UNCHANGED <<gone, log, pushes, licence, failUntil, now>>,
         \A q \in Scanners \ {p} : scan'[q] = scan[q],
         scan[p].pc # "record",
         scan'[p].pc \notin {"send", "record"}, scan'[p].dnow <= now,
         scan'[p].pc \in Holding => mu' = p,
         mu' = mu \/ mu = Free \/ mu = p
  PROVE  IInv'
<1> USE DEF IInv
<1>1. Holding = {"listing", "sources", "reminders", "missed", "deliver", "send", "record"}
  BY DEF Holding, Steps
<1>2. \A q \in Scanners : q # p => KeyOf(q)' = KeyOf(q)
  BY DEF KeyOf
<1>3. \A k : Withdrawn(k)' <=> Withdrawn(k)
  BY DEF Withdrawn
<1>4. NoUnexplainedDuplicate' /\ RowsTellTheTruth' /\ NoOrphanRow'
  BY <1>3 DEF NoUnexplainedDuplicate, RowsTellTheTruth, NoOrphanRow
<1>5. \A q \in Scanners : scan'[q].pc \in Holding => mu' = q
  BY ScannersAssumption DEF ScanInvariant
<1>6. \A q \in Scanners :
        scan'[q].pc = "send" /\ ~scan'[q].blind => log'[KeyOf(q)'] = "none"
  BY <1>2 DEF ScanInvariant
<1>7. \A q \in Scanners : scan'[q].pc = "record" => pushes'[KeyOf(q)'] >= 1
  BY <1>2 DEF ScanInvariant
<1>8. ASSUME NEW k \in Keys, ~Withdrawn(k), log[k] = "none",
             \A q \in Scanners : scan'[q].pc = "record" => KeyOf(q)' # k
      PROVE  pushes[k] <= licence[k]
  <2>1. \A q \in Scanners : scan[q].pc = "record" => KeyOf(q) # k
    BY <1>2, <1>8
  <2> QED
    BY <1>8, <2>1 DEF ScanInvariant
<1>9. \A q \in Scanners :
        /\ scan'[q].dnow <= now'
        /\ scan'[q].pc = "send" => failUntil'[scan'[q].ch] <= scan'[q].dnow
  BY DEF ScanInvariant
<1>10. ScanInvariant'
  BY <1>3, <1>5, <1>6, <1>7, <1>8, <1>9 DEF ScanInvariant
<1> QED
  BY <1>4, <1>10

\* The steps that QuietStep covers.
LEMMA QuietActions ==
  ASSUME IInv, TypeOK', NEW p \in Scanners,
         \/ TakeSnapshot(p) \/ Lock(p)
         \/ \E c \in Contacts : ReadContact(p, c)
         \/ ListingFails(p) \/ StartSending(p)
         \/ \E x \in Contacts \cup Holidays : OpenSource(p, x)
         \/ \E r \in Reminders : BeginReminder(p, r)
         \/ \E c \in Channels : SkipChannel(p, c)
         \/ ResolveFails(p) \/ Advance(p)
  PROVE  IInv'
<1> USE DEF dbVars, worldVars, historyVars
<1> DEFINE S == scan[p]
<1>0. S \in ScanState /\ scan \in [Scanners -> ScanState] /\ now \in Nat
  BY DEF IInv, TypeOK
<1>h. Holding = {"listing", "sources", "reminders", "missed", "deliver", "send", "record"}
  BY DEF Holding, Steps
<1>b. ASSUME NEW st, Becomes(p, st)
      PROVE  scan'[p] = st /\ \A q \in Scanners \ {p} : scan'[q] = scan[q]
  BY <1>0, <1>b DEF Becomes
<1>d. S.dnow <= now /\ (S.pc \in Holding => mu = p)
  BY DEF IInv, ScanInvariant
<1>i. Idle.pc = "idle" /\ Idle.dnow = 0
  BY DEF Idle
<1>q. SUFFICES
        /\ UNCHANGED <<gone, log, pushes, licence, failUntil, now>>
        /\ \A q \in Scanners \ {p} : scan'[q] = scan[q]
        /\ S.pc # "record"
        /\ scan'[p].pc \notin {"send", "record"} /\ scan'[p].dnow <= now
        /\ scan'[p].pc \in Holding => mu' = p
        /\ mu' = mu \/ mu = Free \/ mu = p
  BY QuietStep
<1>1. CASE TakeSnapshot(p)
  <2>1. \E s : Becomes(p, [Idle EXCEPT !.pc = "waiting", !.snap = s])
    BY <1>1 DEF TakeSnapshot
  <2>2. PICK s : Becomes(p, [Idle EXCEPT !.pc = "waiting", !.snap = s])
    BY <2>1
  <2>3. scan'[p].pc = "waiting" /\ scan'[p].dnow = 0
    BY <1>0, <1>i, <2>2, IdleType DEF ScanState, Becomes
  <2>4. S.pc = "idle" /\ UNCHANGED <<dbVars, mu, failUntil, now, historyVars>>
    BY <1>1 DEF TakeSnapshot
  <2> QED
    BY <1>0, <1>b, <1>h, <2>2, <2>3, <2>4
<1>2. CASE Lock(p)
  <2>1. Becomes(p, [S EXCEPT !.pc = "listing", !.at = now, !.todo = Contacts])
    BY <1>2 DEF Lock
  <2>2. scan'[p].pc = "listing" /\ scan'[p].dnow = S.dnow
    BY <1>0, <2>1 DEF ScanState, Becomes
  <2> QED
    BY <1>2, <1>b, <1>d, <2>1, <2>2 DEF Lock
<1>3. CASE \E c \in Contacts : ReadContact(p, c)
  <2> PICK c \in Contacts : ReadContact(p, c)
    BY <1>3
  <2> DEFINE seen == S.seen \cup {o \in Occasions :
                          ContactOf[o] = c /\ {o, c} \cap off = {} /\ o \notin gone}
  <2>1. Becomes(p, [S EXCEPT !.todo = @ \ {c}, !.seen = seen])
    BY DEF ReadContact
  <2> HIDE DEF seen
  <2>2. scan'[p].pc = S.pc /\ scan'[p].dnow = S.dnow
    BY <1>0, <2>1 DEF ScanState, Becomes
  <2> QED
    BY <1>b, <1>d, <1>h, <2>1, <2>2 DEF ReadContact
<1>4. CASE ListingFails(p)
  BY <1>4, <1>0, <1>b, <1>d, <1>h, <1>i DEF ListingFails, Release
<1>5. CASE StartSending(p)
  <2> DEFINE T == {x \in Contacts \cup Holidays : Work(p, x) # {}}
  <2>1. Becomes(p, [S EXCEPT !.pc = "sources", !.todo = T])
    BY <1>5 DEF StartSending
  <2> HIDE DEF T
  <2>2. scan'[p].pc = "sources" /\ scan'[p].dnow = S.dnow
    BY <1>0, <2>1 DEF ScanState, Becomes
  <2> QED
    BY <1>5, <1>b, <1>d, <1>h, <2>1, <2>2 DEF StartSending
<1>6. CASE \E x \in Contacts \cup Holidays : OpenSource(p, x)
  <2> PICK x \in Contacts \cup Holidays : OpenSource(p, x)
    BY <1>6
  <2> DEFINE C == IF x \in Holidays THEN Enabled ELSE TargetChannels(x, S.snap)
  <2> DEFINE W == Work(p, x)
  <2>1. \/ Becomes(p, [S EXCEPT !.pc = "reminders", !.todo = @ \ {x}, !.rems = W,
                               !.chans = C])
        \/ Becomes(p, [S EXCEPT !.todo = @ \ {x}])
    BY DEF OpenSource
  <2>2. S.pc = "sources" /\ UNCHANGED <<dbVars, mu, failUntil, now, historyVars>>
    BY DEF OpenSource
  <2> HIDE DEF C, W
  <2>3. scan'[p].pc \in {"reminders", "sources"} /\ scan'[p].dnow = S.dnow
    <3>1. CASE Becomes(p, [S EXCEPT !.todo = @ \ {x}])
      BY <1>0, <2>2, <3>1 DEF ScanState, Becomes
    <3>2. CASE Becomes(p, [S EXCEPT !.pc = "reminders", !.todo = @ \ {x}, !.rems = W,
                                   !.chans = C])
      BY <1>0, <3>2 DEF ScanState, Becomes
    <3> QED
      BY <2>1, <3>1, <3>2
  <2> QED
    BY <1>b, <1>d, <1>h, <2>1, <2>2, <2>3
<1>7. CASE \E r \in Reminders : BeginReminder(p, r)
  <2> PICK r \in Reminders : BeginReminder(p, r)
    BY <1>7
  <2> DEFINE pc == IF Overdue(r, S.snap, S.at) THEN "missed" ELSE "deliver"
  <2> DEFINE C == ChannelsFor(r, S.chans)
  <2>1. Becomes(p, [S EXCEPT !.pc = pc, !.rems = @ \ {r}, !.rem = r, !.dnow = now,
                             !.left = C])
    BY DEF BeginReminder
  <2>2. pc \in {"missed", "deliver"}
    OBVIOUS
  <2> HIDE DEF C, pc
  <2>3. scan'[p].pc = pc /\ scan'[p].dnow = now
    BY <1>0, <2>1 DEF ScanState, Becomes
  <2>4. UNCHANGED <<gone, log, pushes, licence, failUntil, now, mu>> /\ S.pc = "reminders"
    BY DEF BeginReminder
  <2>5. \A q \in Scanners \ {p} : scan'[q] = scan[q]
    BY <1>b, <2>1
  <2> QED
    BY <1>0, <1>d, <1>h, <2>2, <2>3, <2>4, <2>5
<1>8. CASE \E c \in Channels : SkipChannel(p, c)
  <2> PICK c \in Channels : SkipChannel(p, c)
    BY <1>8
  <2>1. Becomes(p, [S EXCEPT !.left = @ \ {c}])
    BY DEF SkipChannel
  <2>2. scan'[p].pc = S.pc /\ scan'[p].dnow = S.dnow
    BY <1>0, <2>1 DEF ScanState, Becomes
  <2> QED
    BY <1>b, <1>d, <1>h, <2>1, <2>2 DEF SkipChannel
<1>9. CASE ResolveFails(p)
  <2> DEFINE ch == Idle.ch
  <2>1. Becomes(p, [S EXCEPT !.pc = "deliver", !.ch = ch, !.blind = FALSE])
    BY <1>9 DEF ResolveFails, NextChannel
  <2> HIDE DEF ch
  <2>2. scan'[p].pc = "deliver" /\ scan'[p].dnow = S.dnow
    BY <1>0, <2>1 DEF ScanState, Becomes
  <2> QED
    BY <1>9, <1>b, <1>d, <1>h, <2>1, <2>2 DEF ResolveFails
<1>10. CASE Advance(p)
  <2> DEFINE r == Idle.rem
  <2>1. \/ /\ Becomes(p, [S EXCEPT !.pc = "reminders", !.rem = r, !.dnow = 0])
           /\ S.pc \in {"deliver", "missed"} /\ UNCHANGED mu
        \/ /\ Becomes(p, [S EXCEPT !.pc = "sources", !.chans = {}])
           /\ S.pc = "reminders" /\ UNCHANGED mu
        \/ Becomes(p, Idle) /\ S.pc = "sources" /\ mu' = Free
    BY <1>10 DEF Advance, Release
  <2> HIDE DEF r
  <2>2. scan'[p].pc \in {"reminders", "sources", "idle"} /\ scan'[p].dnow \in {0, S.dnow}
    <3>1. CASE Becomes(p, [S EXCEPT !.pc = "reminders", !.rem = r, !.dnow = 0])
      BY <1>0, <3>1 DEF ScanState, Becomes
    <3>2. CASE Becomes(p, [S EXCEPT !.pc = "sources", !.chans = {}])
      BY <1>0, <3>2 DEF ScanState, Becomes
    <3>3. CASE Becomes(p, Idle)
      BY <1>0, <1>i, <3>3 DEF Becomes
    <3> QED
      BY <2>1, <3>1, <3>2, <3>3
  <2>3. scan'[p].pc = "idle" \/ UNCHANGED mu
    BY <1>b, <1>i, <2>1
  <2>4. UNCHANGED <<dbVars, failUntil, worldVars, historyVars>>
    BY <1>10 DEF Advance
  <2> QED
    BY <1>0, <1>b, <1>d, <1>h, <2>1, <2>2, <2>3, <2>4
<1> QED
  BY <1>1, <1>2, <1>3, <1>4, <1>5, <1>6, <1>7, <1>8, <1>9, <1>10

\* The mutex: while p is inside a scan, nobody else sends or records, and whatever
\* p does next, the others stay where they are.
LEMMA OthersOutside ==
  ASSUME IInv, NEW p \in Scanners, scan[p].pc \in Holding, NEW st, Becomes(p, st)
  PROVE  /\ mu = p /\ scan'[p] = st /\ KeyOf(p)' = <<st.rem, st.ch>>
         /\ \A q \in Scanners \ {p} :
              /\ scan'[q] = scan[q] /\ KeyOf(q)' = KeyOf(q)
              /\ scan[q].pc \notin Holding /\ scan[q].pc \notin {"send", "record"}
<1>1. scan'[p] = st /\ \A q \in Scanners \ {p} : scan'[q] = scan[q]
  BY DEF IInv, TypeOK, Becomes
<1>2. mu = p /\ \A q \in Scanners : scan[q].pc \in Holding => mu = q
  BY DEF IInv, ScanInvariant
<1>3. {"send", "record"} \subseteq Holding
  BY DEF Holding, Steps
<1> QED
  BY <1>1, <1>2, <1>3 DEF KeyOf

\* A cancelled context changes nothing the invariant speaks of.
LEMMA CancelInvariant ==
  ASSUME IInv, TypeOK', NEW p \in Scanners, CancelRequest(p)
  PROVE  IInv'
<1> USE DEF dbVars, historyVars
<1>1. scan' = [scan EXCEPT ![p] = [scan[p] EXCEPT !.ctx = FALSE]]
      /\ scan \in [Scanners -> ScanState]
  BY DEF CancelRequest, Becomes, IInv, TypeOK
<1>2. \A q \in Scanners :
        /\ scan'[q].pc = scan[q].pc /\ scan'[q].blind = scan[q].blind
        /\ scan'[q].dnow = scan[q].dnow /\ scan'[q].ch = scan[q].ch
        /\ scan'[q].rem = scan[q].rem
  <2>1. scan[p] \in ScanState
    BY <1>1
  <2>2. scan'[p] = [scan[p] EXCEPT !.ctx = FALSE] /\ \A q \in Scanners \ {p} : scan'[q] = scan[q]
    BY <1>1
  <2> QED
    BY <2>1, <2>2 DEF ScanState
<1>3. \A q \in Scanners : KeyOf(q)' = KeyOf(q)
  BY <1>2 DEF KeyOf
<1>4. UNCHANGED <<gone, log, mu, failUntil, pushes, licence, now>>
  BY DEF CancelRequest
<1>5. \A k : Withdrawn(k)' <=> Withdrawn(k)
  BY <1>4 DEF Withdrawn
<1>6. NoUnexplainedDuplicate' /\ RowsTellTheTruth' /\ NoOrphanRow'
  BY <1>4, <1>5 DEF IInv, NoUnexplainedDuplicate, RowsTellTheTruth, NoOrphanRow
<1>7. ScanInvariant'
  BY <1>2, <1>3, <1>4, <1>5 DEF IInv, ScanInvariant
<1> QED
  BY <1>6, <1>7 DEF IInv

\* The look-up: either it saw no row, or the send that follows is blind.
LEMMA AttemptInvariant ==
  ASSUME IInv, TypeOK', NEW p \in Scanners, NEW c \in Channels, Attempt(p, c)
  PROVE  IInv'
<1> USE DEF dbVars, historyVars
<1>0. scan[p] \in ScanState
  BY DEF IInv, TypeOK
<1>1. PICK blind \in BOOLEAN :
        /\ blind \/ ~HasRow(<<scan[p].rem, c>>)
        /\ Becomes(p, [scan[p] EXCEPT !.pc = "send", !.left = @ \ {c},
                                      !.ch = c, !.blind = blind])
  BY DEF Attempt
<1>2. scan[p].pc = "deliver" /\ ~Resting(p, c)
      /\ UNCHANGED <<gone, log, mu, failUntil, pushes, licence, now>>
  BY DEF Attempt
<1> DEFINE st == [scan[p] EXCEPT !.pc = "send", !.left = @ \ {c}, !.ch = c, !.blind = blind]
<1>3. /\ st.pc = "send" /\ st.blind = blind /\ st.ch = c
      /\ st.rem = scan[p].rem /\ st.dnow = scan[p].dnow
  BY <1>0 DEF ScanState
<1> HIDE DEF st
<1>4. Becomes(p, st)
  BY <1>1 DEF st
<1>5. scan[p].pc \in Holding
  BY <1>2 DEF Holding, Steps
<1>6. /\ mu = p /\ scan'[p] = st /\ KeyOf(p)' = <<st.rem, st.ch>>
      /\ \A q \in Scanners \ {p} :
           /\ scan'[q] = scan[q] /\ KeyOf(q)' = KeyOf(q)
           /\ scan[q].pc \notin Holding /\ scan[q].pc \notin {"send", "record"}
  BY <1>4, <1>5, OthersOutside
<1>7. \A k : Withdrawn(k)' <=> Withdrawn(k)
  BY <1>2 DEF Withdrawn
<1>8. NoUnexplainedDuplicate' /\ RowsTellTheTruth' /\ NoOrphanRow'
  BY <1>2, <1>7 DEF IInv, NoUnexplainedDuplicate, RowsTellTheTruth, NoOrphanRow
<1>9. \A q \in Scanners :
        scan'[q].pc = "send" /\ ~scan'[q].blind => log'[KeyOf(q)'] = "none"
  BY <1>1, <1>2, <1>3, <1>6 DEF HasRow
<1>10. ~(scan[p].dnow < failUntil[c]) /\ scan[p].dnow \in Nat /\ failUntil[c] \in Nat
  BY <1>0, <1>2 DEF Resting, IInv, TypeOK, ScanState
<1>11. \A q \in Scanners :
         /\ scan'[q].dnow <= now'
         /\ scan'[q].pc = "send" => failUntil'[scan'[q].ch] <= scan'[q].dnow
  BY <1>2, <1>3, <1>6, <1>10 DEF IInv, ScanInvariant
<1>12. \A q \in Scanners : scan'[q].pc # "record" /\ scan[q].pc # "record"
  BY <1>2, <1>3, <1>6
<1>13. \A k \in Keys : ~Withdrawn(k) /\ log[k] = "none" => pushes[k] <= licence[k]
  BY <1>12 DEF IInv, ScanInvariant
<1>14. \A q \in Scanners : scan'[q].pc \in Holding => mu' = q
  BY <1>2, <1>6
<1>15. ScanInvariant'
  BY <1>2, <1>7, <1>9, <1>11, <1>12, <1>13, <1>14 DEF ScanInvariant
<1> QED
  BY <1>8, <1>15 DEF IInv

\* A missed row is written only where none of the pushes is unaccounted for.
LEMMA RecordMissedInvariant ==
  ASSUME IInv, TypeOK', NEW p \in Scanners, NEW c \in Channels, RecordMissed(p, c)
  PROVE  IInv'
<1> USE DEF historyVars
<1> DEFINE st == [scan[p] EXCEPT !.left = @ \ {c}]
<1> DEFINE key == <<scan[p].rem, c>>
<1>0. scan[p] \in ScanState /\ scan[p].pc = "missed" /\ Becomes(p, st)
  BY DEF IInv, TypeOK, RecordMissed
<1>1. st.pc = "missed" /\ st.dnow = scan[p].dnow
  BY <1>0 DEF ScanState
<1>2. key \in Keys
  BY <1>0 DEF ScanState, Keys
<1>3. UNCHANGED <<gone, mu, failUntil, now, pushes, licence>>
  BY DEF RecordMissed
<1>4. \/ ~Withdrawn(key) /\ InsertRow(key, "missed")
      \/ UNCHANGED log
  BY DEF RecordMissed
<1> HIDE DEF st, key
<1>5. scan[p].pc \in Holding
  BY <1>0 DEF Holding, Steps
<1>6. /\ mu = p /\ scan'[p] = st
      /\ \A q \in Scanners \ {p} :
           /\ scan'[q] = scan[q] /\ KeyOf(q)' = KeyOf(q)
           /\ scan[q].pc \notin Holding /\ scan[q].pc \notin {"send", "record"}
  BY <1>0, <1>5, OthersOutside
<1>7. \A q \in Scanners :
        /\ scan'[q].pc \notin {"send", "record"} /\ scan[q].pc \notin {"send", "record"}
        /\ scan'[q].dnow = scan[q].dnow
        /\ scan'[q].pc \in Holding => mu' = q
  BY <1>0, <1>1, <1>3, <1>6
<1>8. \A k : Withdrawn(k)' <=> Withdrawn(k)
  BY <1>3 DEF Withdrawn
<1>9. \A k \in Keys : ~Withdrawn(k) /\ log[k] = "none" => pushes[k] <= licence[k]
  BY <1>7 DEF IInv, ScanInvariant
<1>10. \A k \in Keys :
         \/ log'[k] = log[k]
         \/ k = key /\ ~Withdrawn(k) /\ log[k] = "none" /\ log'[k] = "missed"
  BY <1>2, <1>4 DEF InsertRow, IInv, TypeOK
<1>11. NoUnexplainedDuplicate'
  BY <1>3, <1>8 DEF IInv, NoUnexplainedDuplicate
<1>12. RowsTellTheTruth'
  BY <1>3, <1>9, <1>10 DEF IInv, RowsTellTheTruth
<1>13. NoOrphanRow'
  BY <1>8, <1>10 DEF IInv, NoOrphanRow
<1>14. \A k \in Keys : ~Withdrawn(k)' /\ log'[k] = "none" => pushes'[k] <= licence'[k]
  BY <1>3, <1>8, <1>9, <1>10
<1>15. \A q \in Scanners : scan'[q].dnow <= now'
  BY <1>3, <1>7 DEF IInv, ScanInvariant
<1>16. ScanInvariant'
  BY <1>7, <1>14, <1>15 DEF ScanInvariant
<1> QED
  BY <1>11, <1>12, <1>13, <1>16 DEF IInv

\* An accepted push: the first one of an undecided pair, or one that is licensed.
LEMMA SendOKInvariant ==
  ASSUME IInv, TypeOK', NEW p \in Scanners, SendOK(p)
  PROVE  IInv'
<1> DEFINE st == [scan[p] EXCEPT !.pc = "record"]
<1> DEFINE key == KeyOf(p)
<1>0. scan[p] \in ScanState /\ scan[p].pc = "send" /\ Becomes(p, st)
  BY DEF IInv, TypeOK, SendOK
<1>1. /\ st.pc = "record" /\ st.dnow = scan[p].dnow
      /\ st.rem = scan[p].rem /\ st.ch = scan[p].ch
  BY <1>0 DEF ScanState
<1>2. key \in Keys
  BY <1>0 DEF ScanState, Keys, KeyOf
<1>3. UNCHANGED <<gone, log, mu, failUntil, now>>
  BY DEF SendOK, dbVars, worldVars
<1>4. /\ pushes' = [pushes EXCEPT ![key] = @ + 1]
      /\ licence' = [licence EXCEPT ![key] = IF HasRow(key) THEN @ + 1 ELSE @]
      /\ pushes \in [Keys -> Nat] /\ licence \in [Keys -> Nat]
  BY DEF SendOK, IInv, TypeOK
<1>5. scan[p].pc \in Holding
  BY <1>0 DEF Holding, Steps
<1> HIDE DEF st
<1>6. /\ mu = p /\ scan'[p] = st /\ KeyOf(p)' = <<st.rem, st.ch>>
      /\ \A q \in Scanners \ {p} :
           /\ scan'[q] = scan[q] /\ KeyOf(q)' = KeyOf(q)
           /\ scan[q].pc \notin Holding /\ scan[q].pc \notin {"send", "record"}
  BY <1>0, <1>5, OthersOutside
<1>7. KeyOf(p)' = key
  BY <1>1, <1>6 DEF KeyOf
<1>8. \A q \in Scanners :
        /\ scan[q].pc # "record" /\ scan'[q].pc # "send"
        /\ scan'[q].pc = "record" => q = p
        /\ scan'[q].dnow = scan[q].dnow
        /\ scan'[q].pc \in Holding => mu' = q
  BY <1>0, <1>1, <1>3, <1>6
<1>9. \A k \in Keys : ~Withdrawn(k) /\ log[k] = "none" => pushes[k] <= licence[k]
  BY <1>8 DEF IInv, ScanInvariant
<1>10. \A k : Withdrawn(k)' <=> Withdrawn(k)
  BY <1>3 DEF Withdrawn
<1> HIDE DEF key
<1>11. \A k \in Keys :
         \/ k # key /\ pushes'[k] = pushes[k] /\ licence'[k] = licence[k]
         \/ k = key /\ log[k] = "none" /\ pushes'[k] = pushes[k] + 1 /\ licence'[k] = licence[k]
         \/ k = key /\ log[k] # "none" /\ pushes'[k] = pushes[k] + 1
            /\ licence'[k] = licence[k] + 1
  BY <1>2, <1>4 DEF HasRow
<1>12. NoUnexplainedDuplicate'
  <2> SUFFICES ASSUME NEW k \in Keys, ~Withdrawn(k)
               PROVE  pushes'[k] <= 1 + licence'[k]
    BY <1>10 DEF NoUnexplainedDuplicate
  <2>1. pushes[k] <= 1 + licence[k] /\ pushes[k] \in Nat /\ licence[k] \in Nat
    BY <1>4 DEF IInv, NoUnexplainedDuplicate
  <2> QED
    BY <1>9, <1>11, <2>1
<1>13. RowsTellTheTruth'
  <2> SUFFICES ASSUME NEW k \in Keys
               PROVE  /\ log[k] = "sent" => pushes'[k] >= 1
                      /\ log[k] = "missed" => pushes'[k] <= licence'[k]
    BY <1>3 DEF RowsTellTheTruth
  <2>1. /\ log[k] = "sent" => pushes[k] >= 1
        /\ log[k] = "missed" => pushes[k] <= licence[k]
        /\ pushes[k] \in Nat /\ licence[k] \in Nat
    BY <1>4 DEF IInv, RowsTellTheTruth
  <2> QED
    BY <1>11, <2>1
<1>14. NoOrphanRow'
  BY <1>3, <1>10 DEF IInv, NoOrphanRow
<1>15. \A q \in Scanners : scan'[q].pc = "record" => pushes'[KeyOf(q)'] >= 1
  <2>1. pushes'[key] >= 1
    BY <1>2, <1>4
  <2> QED
    BY <1>7, <1>8, <2>1
<1>16. ASSUME NEW k \in Keys, ~Withdrawn(k)', log'[k] = "none",
              \A q \in Scanners : scan'[q].pc = "record" => KeyOf(q)' # k
       PROVE  pushes'[k] <= licence'[k]
  <2>1. k # key
    BY <1>1, <1>6, <1>7, <1>16
  <2> QED
    BY <1>3, <1>9, <1>10, <1>11, <1>16, <2>1
<1>17. \A q \in Scanners : scan'[q].dnow <= now'
  BY <1>3, <1>8 DEF IInv, ScanInvariant
<1>18. ScanInvariant'
  BY <1>8, <1>15, <1>16, <1>17 DEF ScanInvariant
<1> QED
  BY <1>12, <1>13, <1>14, <1>18 DEF IInv

\* The state deliver's loop goes on with.
LEMMA NextChannelState ==
  ASSUME IInv, NEW p \in Scanners, scan[p].pc \in Holding, NextChannel(p)
  PROVE  /\ mu = p
         /\ \A q \in Scanners :
              /\ scan'[q].pc \notin {"send", "record"} /\ scan'[q].dnow = scan[q].dnow
              /\ q # p => scan[q].pc \notin {"send", "record"}
              /\ scan'[q].pc \in Holding => mu = q
<1> DEFINE ch == Idle.ch
<1> DEFINE st == [scan[p] EXCEPT !.pc = "deliver", !.ch = ch, !.blind = FALSE]
<1>1. Becomes(p, st) /\ scan[p] \in ScanState
  BY DEF NextChannel, IInv, TypeOK
<1> HIDE DEF ch
<1>2. st.pc = "deliver" /\ st.dnow = scan[p].dnow
  BY <1>1 DEF ScanState
<1> HIDE DEF st
<1>3. /\ mu = p /\ scan'[p] = st
      /\ \A q \in Scanners \ {p} :
           /\ scan'[q] = scan[q]
           /\ scan[q].pc \notin Holding /\ scan[q].pc \notin {"send", "record"}
  BY <1>1, OthersOutside
<1> QED
  BY <1>2, <1>3

\* A failed send: the push, if it happened, pays for itself.
LEMMA SendFailsInvariant ==
  ASSUME IInv, TypeOK', NEW p \in Scanners, SendFails(p)
  PROVE  IInv'
<1> DEFINE key == KeyOf(p)
<1>0. scan[p] \in ScanState /\ scan[p].pc = "send" /\ NextChannel(p)
  BY DEF IInv, TypeOK, SendFails
<1>1. scan[p].pc \in Holding
  BY <1>0 DEF Holding, Steps
<1>2. key \in Keys
  BY <1>0 DEF ScanState, Keys, KeyOf
<1>3. UNCHANGED <<gone, log, mu, now>>
  BY DEF SendFails, dbVars
<1>4. pushes \in [Keys -> Nat] /\ licence \in [Keys -> Nat]
  BY DEF IInv, TypeOK
<1>5. \/ /\ pushes' = [pushes EXCEPT ![key] = @ + 1]
         /\ licence' = [licence EXCEPT ![key] = @ + 1]
      \/ UNCHANGED <<pushes, licence>>
  BY DEF SendFails
<1>6. \A q \in Scanners :
        /\ scan'[q].pc \notin {"send", "record"} /\ scan'[q].dnow = scan[q].dnow
        /\ q # p => scan[q].pc \notin {"send", "record"}
        /\ scan'[q].pc \in Holding => mu' = q
  BY <1>0, <1>1, <1>3, NextChannelState
<1>7. \A q \in Scanners : scan[q].pc # "record"
  BY <1>0, <1>6
<1>8. \A k : Withdrawn(k)' <=> Withdrawn(k)
  BY <1>3 DEF Withdrawn
<1> HIDE DEF key
<1>9. \A k \in Keys :
        \/ pushes'[k] = pushes[k] /\ licence'[k] = licence[k]
        \/ pushes'[k] = pushes[k] + 1 /\ licence'[k] = licence[k] + 1
  BY <1>2, <1>4, <1>5
<1>10. \A k \in Keys : pushes[k] \in Nat /\ licence[k] \in Nat
  BY <1>4
<1>11. NoUnexplainedDuplicate'
  BY <1>8, <1>9, <1>10 DEF IInv, NoUnexplainedDuplicate
<1>12. RowsTellTheTruth'
  BY <1>3, <1>9, <1>10 DEF IInv, RowsTellTheTruth
<1>13. NoOrphanRow'
  BY <1>3, <1>8 DEF IInv, NoOrphanRow
<1>14. \A k \in Keys : ~Withdrawn(k) /\ log[k] = "none" => pushes[k] <= licence[k]
  BY <1>7 DEF IInv, ScanInvariant
<1>15. \A k \in Keys : ~Withdrawn(k)' /\ log'[k] = "none" => pushes'[k] <= licence'[k]
  BY <1>3, <1>8, <1>9, <1>10, <1>14
<1>16. \A q \in Scanners : scan'[q].dnow <= now'
  BY <1>3, <1>6 DEF IInv, ScanInvariant
<1>17. ScanInvariant'
  BY <1>6, <1>15, <1>16 DEF ScanInvariant
<1> QED
  BY <1>11, <1>12, <1>13, <1>17 DEF IInv

\* The row after the push: written, or its loss licensed.
LEMMA RecordSentInvariant ==
  ASSUME IInv, TypeOK', NEW p \in Scanners, RecordSent(p)
  PROVE  IInv'
<1> DEFINE key == KeyOf(p)
<1>0. scan[p] \in ScanState /\ scan[p].pc = "record" /\ NextChannel(p)
  BY DEF IInv, TypeOK, RecordSent
<1>1. scan[p].pc \in Holding
  BY <1>0 DEF Holding, Steps
<1>2. key \in Keys
  BY <1>0 DEF ScanState, Keys, KeyOf
<1>3. UNCHANGED <<gone, mu, failUntil, now, pushes>>
  BY DEF RecordSent
<1>4. /\ pushes \in [Keys -> Nat] /\ licence \in [Keys -> Nat]
      /\ log \in [Keys -> {"none", "sent", "missed"}]
  BY DEF IInv, TypeOK
<1>5. \/ ~Withdrawn(key) /\ InsertRow(key, "sent") /\ UNCHANGED licence
      \/ licence' = [licence EXCEPT ![key] = @ + 1] /\ UNCHANGED log
  BY DEF RecordSent
<1>6. \A q \in Scanners :
        /\ scan'[q].pc \notin {"send", "record"} /\ scan'[q].dnow = scan[q].dnow
        /\ q # p => scan[q].pc \notin {"send", "record"}
        /\ scan'[q].pc \in Holding => mu' = q
  BY <1>0, <1>1, <1>3, NextChannelState
<1>7. pushes[key] >= 1
  BY <1>0 DEF IInv, ScanInvariant
<1>8. \A k : Withdrawn(k)' <=> Withdrawn(k)
  BY <1>3 DEF Withdrawn
<1>9. \A k \in Keys : k # key /\ ~Withdrawn(k) /\ log[k] = "none" => pushes[k] <= licence[k]
  <2> SUFFICES ASSUME NEW k \in Keys, k # key, ~Withdrawn(k), log[k] = "none"
               PROVE  pushes[k] <= licence[k]
    OBVIOUS
  <2>1. \A q \in Scanners : scan[q].pc = "record" => KeyOf(q) # k
    BY <1>6
  <2> QED
    BY <2>1 DEF IInv, ScanInvariant
<1> HIDE DEF key
<1>10. \A k \in Keys :
         /\ pushes[k] \in Nat /\ licence[k] \in Nat /\ pushes'[k] = pushes[k]
         /\ \/ k # key /\ log'[k] = log[k] /\ licence'[k] = licence[k]
            \/ k = key /\ ~Withdrawn(k) /\ licence'[k] = licence[k] /\ log'[k] # "none"
               /\ log'[k] = (IF log[k] = "none" THEN "sent" ELSE log[k])
            \/ k = key /\ licence'[k] = licence[k] + 1 /\ log'[k] = log[k]
  BY <1>2, <1>3, <1>4, <1>5 DEF InsertRow
<1>11. NoUnexplainedDuplicate'
  BY <1>8, <1>10 DEF IInv, NoUnexplainedDuplicate
<1>12. RowsTellTheTruth'
  BY <1>7, <1>10 DEF IInv, RowsTellTheTruth
<1>13. NoOrphanRow'
  BY <1>8, <1>10 DEF IInv, NoOrphanRow
<1>14. \A k \in Keys : ~Withdrawn(k)' /\ log'[k] = "none" => pushes'[k] <= licence'[k]
  BY <1>8, <1>9, <1>10 DEF IInv, NoUnexplainedDuplicate
<1>15. \A q \in Scanners : scan'[q].dnow <= now'
  BY <1>3, <1>6 DEF IInv, ScanInvariant
<1>16. ScanInvariant'
  BY <1>6, <1>14, <1>15 DEF ScanInvariant
<1> QED
  BY <1>11, <1>12, <1>13, <1>16 DEF IInv

\* A crash: the pushes whose row was being written are licensed, nothing else is
\* in flight.
LEMMA CrashInvariant ==
  ASSUME IInv, TypeOK', NEW d \in 0 .. MaxDowntime, Crash(d)
  PROVE  IInv'
<1> DEFINE inFlight(k) == \E q \in Scanners : scan[q].pc = "record" /\ KeyOf(q) = k
<1>1. \A q \in Scanners : scan'[q].pc = "idle" /\ scan'[q].dnow = 0
  BY DEF Crash, Idle
<1>2. UNCHANGED <<gone, log, pushes>> /\ now' \in Nat
  BY DEF Crash, dbVars, TypeOK
<1>3. \A k \in Keys : licence'[k] = IF inFlight(k) THEN licence[k] + 1 ELSE licence[k]
  BY DEF Crash
<1>4. \A k \in Keys : pushes[k] \in Nat /\ licence[k] \in Nat
  BY DEF IInv, TypeOK
<1>5. \A k : Withdrawn(k)' <=> Withdrawn(k)
  BY <1>2 DEF Withdrawn
<1>6. \A k \in Keys : ~Withdrawn(k) /\ log[k] = "none" /\ ~inFlight(k)
                        => pushes[k] <= licence[k]
  BY DEF IInv, ScanInvariant
<1> HIDE DEF inFlight
<1>7. NoUnexplainedDuplicate'
  BY <1>2, <1>3, <1>4, <1>5 DEF IInv, NoUnexplainedDuplicate
<1>8. RowsTellTheTruth'
  BY <1>2, <1>3, <1>4 DEF IInv, RowsTellTheTruth
<1>9. NoOrphanRow'
  BY <1>2, <1>5 DEF IInv, NoOrphanRow
<1>10. \A k \in Keys : ~Withdrawn(k)' /\ log'[k] = "none" => pushes'[k] <= licence'[k]
  BY <1>2, <1>3, <1>4, <1>5, <1>6 DEF IInv, NoUnexplainedDuplicate
<1>11. ScanInvariant'
  BY <1>1, <1>2, <1>10 DEF ScanInvariant, Holding
<1> QED
  BY <1>7, <1>8, <1>9, <1>11 DEF IInv

\* The clock, a saved document and a switch touch no row, push or goroutine.
LEMMA AmbientInvariant ==
  ASSUME IInv, TypeOK',
         \/ Tick
         \/ \E s \in Settings : SaveSettings(s)
         \/ \E x \in Switchable : Toggle(x)
         \/ UNCHANGED vars
  PROVE  IInv'
<1>1. UNCHANGED <<gone, log, mu, failUntil, scan, pushes, licence>>
  BY DEF Tick, SaveSettings, Toggle, vars, dbVars, worldVars, historyVars
<1>2. now' >= now /\ now \in Nat /\ now' \in Nat
  BY DEF Tick, SaveSettings, Toggle, vars, worldVars, IInv, TypeOK
<1>3. \A k : Withdrawn(k)' <=> Withdrawn(k)
  BY <1>1 DEF Withdrawn
<1>4. \A q \in Scanners : KeyOf(q)' = KeyOf(q)
  BY <1>1 DEF KeyOf
<1>5. NoUnexplainedDuplicate' /\ RowsTellTheTruth' /\ NoOrphanRow'
  BY <1>1, <1>3 DEF IInv, NoUnexplainedDuplicate, RowsTellTheTruth, NoOrphanRow
<1>6. \A q \in Scanners : scan[q].dnow <= now'
  <2>1. \A q \in Scanners : scan[q].dnow <= now /\ scan[q].dnow \in Nat
    BY DEF IInv, ScanInvariant, TypeOK, ScanState
  <2> QED
    BY <1>2, <2>1
<1>7. ScanInvariant'
  BY <1>1, <1>3, <1>4, <1>6 DEF IInv, ScanInvariant
<1> QED
  BY <1>5, <1>7 DEF IInv

\* A deletion clears exactly the rows it puts out of reach.
LEMMA DeleteInvariant ==
  ASSUME IInv, TypeOK', NEW x \in Occasions \cup Channels, Delete(x)
  PROVE  IInv'
<1> DEFINE hit(k) == k[2] = x \/ (k[1] \notin Holidays /\ OccasionOf[k[1]] = x)
<1>1. UNCHANGED <<mu, failUntil, scan, now, pushes, licence>>
  BY DEF Delete, worldVars, historyVars
<1>2. gone' = gone \cup {x} /\ \A k \in Keys : log'[k] = IF hit(k) THEN "none" ELSE log[k]
  BY DEF Delete
<1>3. \A k : Withdrawn(k)' <=> Withdrawn(k) \/ hit(k)
  BY <1>2 DEF Withdrawn
<1>4. \A q \in Scanners : KeyOf(q)' = KeyOf(q) /\ KeyOf(q) \in Keys
  BY <1>1, KeyType DEF KeyOf, IInv
<1> HIDE DEF hit
<1>5. NoUnexplainedDuplicate'
  BY <1>1, <1>3 DEF IInv, NoUnexplainedDuplicate
<1>6. RowsTellTheTruth'
  BY <1>1, <1>2 DEF IInv, RowsTellTheTruth
<1>7. NoOrphanRow'
  BY <1>2, <1>3 DEF IInv, NoOrphanRow
<1>8. \A q \in Scanners :
        scan'[q].pc = "send" /\ ~scan'[q].blind => log'[KeyOf(q)'] = "none"
  BY <1>1, <1>2, <1>4 DEF IInv, ScanInvariant
<1>9. ASSUME NEW k \in Keys, ~Withdrawn(k)', log'[k] = "none",
             \A q \in Scanners : scan'[q].pc = "record" => KeyOf(q)' # k
      PROVE  pushes'[k] <= licence'[k]
  <2>1. ~Withdrawn(k) /\ log[k] = "none"
    BY <1>2, <1>3, <1>9
  <2>2. \A q \in Scanners : scan[q].pc = "record" => KeyOf(q) # k
    BY <1>1, <1>4, <1>9
  <2> QED
    BY <1>1, <2>1, <2>2 DEF IInv, ScanInvariant
<1>10. /\ \A q \in Scanners : scan'[q].pc \in Holding => mu' = q
       /\ \A q \in Scanners : scan'[q].pc = "record" => pushes'[KeyOf(q)'] >= 1
       /\ \A q \in Scanners :
            /\ scan'[q].dnow <= now'
            /\ scan'[q].pc = "send" => failUntil'[scan'[q].ch] <= scan'[q].dnow
  BY <1>1, <1>4 DEF IInv, ScanInvariant
<1>11. ScanInvariant'
  BY <1>8, <1>9, <1>10 DEF ScanInvariant
<1> QED
  BY <1>5, <1>6, <1>7, <1>11 DEF IInv

\* Every step of a scan, of the process, the clock or a user keeps the inductive
\* invariant.
LEMMA NextInvariant == IInv /\ [Next]_vars => IInv'
<1> SUFFICES ASSUME IInv, [Next]_vars PROVE IInv'
  OBVIOUS
<1>t. TypeOK'
  BY NextType DEF IInv
<1>1. ASSUME NEW p \in Scanners, TakeSnapshot(p) \/ Lock(p) PROVE IInv'
  BY <1>1, <1>t, QuietActions
<1>2. ASSUME NEW p \in Scanners, CancelRequest(p) PROVE IInv'
  BY <1>2, <1>t, CancelInvariant
<1>3. ASSUME NEW p \in Scanners, ScanStep(p) PROVE IInv'
  BY <1>3, <1>t, QuietActions, RecordMissedInvariant, AttemptInvariant,
     SendOKInvariant, SendFailsInvariant, RecordSentInvariant
     DEF ScanStep
<1>4. ASSUME NEW d \in 0 .. MaxDowntime, Crash(d) PROVE IInv'
  BY <1>4, <1>t, CrashInvariant
<1>5. ASSUME NEW x \in Occasions \cup Channels, Delete(x) PROVE IInv'
  BY <1>5, <1>t, DeleteInvariant
<1> QED
  BY <1>1, <1>2, <1>3, <1>4, <1>5, <1>t, AmbientInvariant DEF Next, SystemNext, UserNext

\* The inductive invariant holds in every reachable state: this is what the mutex,
\* the look-up before each send and the row after it establish together.
THEOREM Invariance == Spec => []IInv
<1>1. Init => IInv
  BY InitInvariant
<1>2. IInv /\ [Next]_vars => IInv'
  BY NextInvariant
<1> QED
  BY <1>1, <1>2, PTL DEF Spec

-----------------------------------------------------------------------------
(* The safety properties.                                                   *)

\* However scans, retries, edits, failures and restarts interleave, a recipient gets
\* at most one push per pair beyond those whose trace the engine lost.
THEOREM NoDuplicates == Spec => []NoUnexplainedDuplicate
<1>1. IInv => NoUnexplainedDuplicate
  BY DEF IInv
<1> QED
  BY <1>1, Invariance, PTL

\* Between any two calls of a scan its locals still fit the log, the channels and the
\* mutex, which is what the promises to the users rest on.
THEOREM ScansAreSound == Spec => []ScanInvariant
<1>1. IInv => ScanInvariant
  BY DEF IInv
<1> QED
  BY <1>1, Invariance, PTL

\* A "sent" row stands for an accepted push, and "missed" is written only where no
\* push is unaccounted for.
THEOREM TruthfulRows == Spec => []RowsTellTheTruth
<1>1. IInv => RowsTellTheTruth
  BY DEF IInv
<1> QED
  BY <1>1, Invariance, PTL

\* Scans that read an occasion or a channel before its deletion leave no row of it.
THEOREM NoOrphans == Spec => []NoOrphanRow
<1>1. IInv => NoOrphanRow
  BY DEF IInv
<1> QED
  BY <1>1, Invariance, PTL

\* A send never starts on a resting channel, although the delivery's clock is old.
THEOREM BackoffRespected == Spec => []SendOutsideBackoff
<1>1. IInv => SendOutsideBackoff
  <2> SUFFICES ASSUME IInv, NEW p \in Scanners, scan[p].pc = "send"
               PROVE  failUntil[scan[p].ch] <= now
    BY DEF SendOutsideBackoff
  <2>1. scan[p].dnow <= now /\ failUntil[scan[p].ch] <= scan[p].dnow
    BY DEF IInv, ScanInvariant
  <2>2. scan[p].dnow \in Nat /\ now \in Nat /\ failUntil[scan[p].ch] \in Nat
    BY DEF IInv, TypeOK, ScanState
  <2> QED
    BY <2>1, <2>2
<1> QED
  BY <1>1, Invariance, PTL

\* What a step can do to the ledger: nothing, one push, one lost trace, one row, a
\* crash or a deletion.
LEMMA LedgerEffects ==
  ASSUME Next
  PROVE  \/ UNCHANGED <<gone, log, pushes, licence>>
         \/ \E p \in Scanners : SendOK(p) \/ SendFails(p) \/ RecordSent(p)
         \/ \E p \in Scanners : \E c \in Channels : RecordMissed(p, c)
         \/ \E d \in 0 .. MaxDowntime : Crash(d)
         \/ \E x \in Occasions \cup Channels : Delete(x)
<1> USE DEF dbVars, worldVars, historyVars
<1>1. ASSUME NEW p \in Scanners, ScanStep(p)
      PROVE  \/ UNCHANGED <<gone, log, pushes, licence>>
             \/ SendOK(p) \/ SendFails(p) \/ RecordSent(p)
             \/ \E c \in Channels : RecordMissed(p, c)
  BY <1>1 DEF ScanStep, ReadContact, ListingFails, StartSending, OpenSource,
       BeginReminder, SkipChannel, Attempt, ResolveFails, Advance
<1>2. ASSUME NEW p \in Scanners, TakeSnapshot(p) \/ CancelRequest(p) \/ Lock(p)
      PROVE  UNCHANGED <<gone, log, pushes, licence>>
  BY <1>2 DEF TakeSnapshot, CancelRequest, Lock
<1>3. ASSUME Tick \/ (\E s \in Settings : SaveSettings(s)) \/ (\E x \in Switchable : Toggle(x))
      PROVE  UNCHANGED <<gone, log, pushes, licence>>
  BY <1>3 DEF Tick, SaveSettings, Toggle
<1> QED
  BY <1>1, <1>2, <1>3 DEF Next, SystemNext, UserNext

\* Once a pair has a row it is pushed only by a delivery that could not read it.
THEOREM DecisionIsFinal == Spec => ClosedIsFinal
<1> DEFINE Final ==
      \A k \in Keys : pushes'[k] # pushes[k] =>
        \/ log[k] = "none"
        \/ \E p \in Scanners : scan[p].pc = "send" /\ KeyOf(p) = k /\ scan[p].blind
<1>1. IInv /\ [Next]_vars => [Final]_vars
  <2> SUFFICES ASSUME IInv, Next PROVE Final
    OBVIOUS
  <2>1. ASSUME NEW p \in Scanners, SendOK(p) \/ SendFails(p) PROVE Final
    <3> SUFFICES ASSUME NEW k \in Keys, pushes'[k] # pushes[k], log[k] # "none"
                 PROVE  scan[p].pc = "send" /\ KeyOf(p) = k /\ scan[p].blind
      OBVIOUS
    <3>1. scan[p].pc = "send"
      BY <2>1 DEF SendOK, SendFails
    <3>2. pushes' = [pushes EXCEPT ![KeyOf(p)] = @ + 1] \/ UNCHANGED pushes
      BY <2>1 DEF SendOK, SendFails
    <3>3. KeyOf(p) = k
      BY <3>2 DEF IInv, TypeOK
    <3>4. scan[p].blind \in BOOLEAN
      BY DEF IInv, TypeOK, ScanState
    <3>5. scan[p].blind
      BY <3>1, <3>3, <3>4 DEF IInv, ScanInvariant
    <3> QED
      BY <3>1, <3>3, <3>5
  <2>2. ASSUME UNCHANGED pushes PROVE Final
    BY <2>2
  <2> QED
    BY <2>1, <2>2, LedgerEffects
       DEF RecordSent, RecordMissed, Crash, Delete, historyVars
<1>2. Spec => [][Final]_vars
  BY <1>1, Invariance, PTL DEF Spec
<1> QED
  BY <1>2 DEF ClosedIsFinal

-----------------------------------------------------------------------------
(* The engine implements the ledger.                                        *)

\* An empty database is an empty ledger.
LEMMA LedgerInitStep == Init => Ledger!LedgerInit
BY DEF Init, Ledger!LedgerInit, Withdrawn

\* Every step of the engine is a step of the ledger or leaves it alone.
LEMMA LedgerStep ==
  ASSUME IInv, IInv', [Next]_vars
  PROVE  [Ledger!LedgerNext]_(Ledger!ledgerVars)
<1> DEFINE row == [k \in Keys |-> IF Withdrawn(k) THEN "withdrawn" ELSE log[k]]
<1>t. /\ pushes \in [Keys -> Nat] /\ licence \in [Keys -> Nat]
      /\ log \in [Keys -> {"none", "sent", "missed"}]
      /\ pushes' \in [Keys -> Nat] /\ licence' \in [Keys -> Nat]
      /\ log' \in [Keys -> {"none", "sent", "missed"}]
  BY DEF IInv, TypeOK
<1>v. Ledger!ledgerVars = <<row, pushes, licence>>
  BY DEF Ledger!ledgerVars
<1>s. ASSUME UNCHANGED <<gone, log, pushes, licence>> PROVE UNCHANGED Ledger!ledgerVars
  BY <1>s DEF Ledger!ledgerVars, Withdrawn
<1>o. \A k \in Keys : ~Withdrawn(k) /\ log[k] = "none"
        /\ (\A q \in Scanners : scan[q].pc = "record" => KeyOf(q) # k)
        => pushes[k] <= licence[k]
  BY DEF IInv, ScanInvariant
<1>n. \A k \in Keys : Withdrawn(k) => log[k] = "none"
  BY DEF IInv, NoOrphanRow
<1>x. ASSUME NEW p \in Scanners, scan[p].pc = "send" \/ scan[p].pc = "missed"
      PROVE  \A q \in Scanners : scan[q].pc # "record"
  BY <1>x DEF IInv, ScanInvariant, Holding, Steps
<1>1. ASSUME NEW p \in Scanners, SendOK(p) PROVE Ledger!LedgerNext
  <2> DEFINE k == KeyOf(p)
  <2>1. k \in Keys /\ scan[p].pc = "send" /\ UNCHANGED <<gone, log>>
    BY <1>1, KeyType DEF SendOK, dbVars, IInv
  <2>2. \A q \in Scanners : scan[q].pc # "record"
    BY <2>1, <1>x
  <2>3. UNCHANGED row
    BY <2>1 DEF Withdrawn
  <2>4. pushes' = [pushes EXCEPT ![k] = @ + 1]
    BY <1>1 DEF SendOK
  <2>5. licence' = [licence EXCEPT ![k] = IF HasRow(k) THEN @ + 1 ELSE @]
    BY <1>1 DEF SendOK
  <2>6. CASE HasRow(k)
    <3>1. row[k] # "none"
      BY <2>1, <2>6 DEF HasRow
    <3>2. licence' = [licence EXCEPT ![k] = @ + 1]
      BY <2>5, <2>6
    <3>3. Ledger!LicensedPush(k)
      BY <2>3, <2>4, <3>1, <3>2 DEF Ledger!LicensedPush
    <3> QED
      BY <2>1, <3>3 DEF Ledger!LedgerNext
  <2>7. CASE ~HasRow(k)
    <3>1. row[k] = "withdrawn" \/ (row[k] = "none" /\ pushes[k] <= licence[k])
      BY <1>o, <2>1, <2>2, <2>7 DEF HasRow
    <3>2. licence' = licence
      BY <1>t, <2>1, <2>5, <2>7
    <3>3. Ledger!Push(k)
      BY <2>3, <2>4, <3>1, <3>2 DEF Ledger!Push
    <3> QED
      BY <2>1, <3>3 DEF Ledger!LedgerNext
  <2> QED
    BY <2>6, <2>7
<1>2. ASSUME NEW p \in Scanners, SendFails(p) PROVE [Ledger!LedgerNext]_(Ledger!ledgerVars)
  <2> DEFINE k == KeyOf(p)
  <2>1. k \in Keys /\ scan[p].pc = "send" /\ UNCHANGED <<gone, log>>
    BY <1>2, KeyType DEF SendFails, dbVars, IInv
  <2>2. \A q \in Scanners : scan[q].pc # "record"
    BY <2>1, <1>x
  <2>3. UNCHANGED row
    BY <2>1 DEF Withdrawn
  <2>4. row[k] # "none" \/ pushes[k] <= licence[k]
    BY <1>o, <2>1, <2>2
  <2>5. \/ /\ pushes' = [pushes EXCEPT ![k] = @ + 1]
           /\ licence' = [licence EXCEPT ![k] = @ + 1]
        \/ UNCHANGED <<pushes, licence>>
    BY <1>2 DEF SendFails
  <2>6. Ledger!LicensedPush(k) \/ UNCHANGED <<pushes, licence>>
    BY <2>3, <2>4, <2>5 DEF Ledger!LicensedPush
  <2> QED
    BY <1>s, <2>1, <2>6 DEF Ledger!LedgerNext
<1>3. ASSUME NEW k \in Keys, licence' = [licence EXCEPT ![k] = @ + 1],
             UNCHANGED <<gone, log, pushes>>
      PROVE  Ledger!LedgerNext
  <2>1. licence' = [j \in Keys |-> IF j \in {k} THEN licence[j] + 1 ELSE licence[j]]
    BY <1>3, <1>t
  <2>2. UNCHANGED row
    BY <1>3 DEF Withdrawn
  <2>3. Ledger!LoseTrace({k})
    BY <1>3, <2>1, <2>2 DEF Ledger!LoseTrace
  <2> QED
    BY <2>3 DEF Ledger!LedgerNext
<1>4. ASSUME NEW k \in Keys, NEW status \in {"sent", "missed"}, InsertRow(k, status),
             ~Withdrawn(k), UNCHANGED <<gone, pushes, licence>>,
             status = "sent" => pushes[k] > 0,
             status = "missed" /\ log[k] = "none" => pushes[k] <= licence[k]
      PROVE  [Ledger!LedgerNext]_(Ledger!ledgerVars)
  <2>1. CASE log[k] = "none"
    <3>1. log' = [log EXCEPT ![k] = status]
      BY <1>4, <1>t, <2>1 DEF InsertRow
    <3>2. row[k] = "none"
      BY <1>4, <2>1
    <3>3. row' = [row EXCEPT ![k] = status]
      <4>1. \A j : Withdrawn(j)' <=> Withdrawn(j)
        BY <1>4 DEF Withdrawn
      <4>2. \A j \in Keys : row'[j] = [row EXCEPT ![k] = status][j]
        BY <1>4, <1>t, <3>1, <4>1
      <4> QED
        BY <4>2
    <3>4. Ledger!Decide(k)
      BY <1>4, <2>1, <3>2, <3>3 DEF Ledger!Decide
    <3> QED
      BY <3>4 DEF Ledger!LedgerNext
  <2>2. CASE log[k] # "none"
    <3>1. log' = log
      BY <1>4, <1>t, <2>2 DEF InsertRow
    <3> QED
      BY <1>4, <1>s, <3>1
  <2> QED
    BY <2>1, <2>2
<1>5. ASSUME NEW p \in Scanners, RecordSent(p) PROVE [Ledger!LedgerNext]_(Ledger!ledgerVars)
  <2> DEFINE k == KeyOf(p)
  <2>1. k \in Keys /\ scan[p].pc = "record" /\ UNCHANGED <<gone, pushes>>
    BY <1>5, KeyType DEF RecordSent, IInv
  <2>2. pushes[k] > 0
    BY <1>t, <2>1 DEF IInv, ScanInvariant
  <2>3. \/ ~Withdrawn(k) /\ InsertRow(k, "sent") /\ UNCHANGED licence
        \/ licence' = [licence EXCEPT ![k] = @ + 1] /\ UNCHANGED log
    BY <1>5 DEF RecordSent
  <2> QED
    BY <1>3, <1>4, <2>1, <2>2, <2>3
<1>6. ASSUME NEW p \in Scanners, NEW c \in Channels, RecordMissed(p, c)
      PROVE  [Ledger!LedgerNext]_(Ledger!ledgerVars)
  <2> DEFINE k == <<scan[p].rem, c>>
  <2>1. k \in Keys /\ scan[p].pc = "missed" /\ UNCHANGED <<gone, pushes, licence>>
    BY <1>6, KeyType DEF RecordMissed, IInv, Keys, historyVars
  <2>2. \A q \in Scanners : scan[q].pc # "record"
    BY <2>1, <1>x
  <2>3. (~Withdrawn(k) /\ InsertRow(k, "missed")) \/ UNCHANGED log
    BY <1>6 DEF RecordMissed
  <2>4. CASE UNCHANGED log
    BY <1>s, <2>1, <2>4
  <2>5. CASE ~Withdrawn(k) /\ InsertRow(k, "missed")
    <3>1. log[k] = "none" => pushes[k] <= licence[k]
      BY <1>o, <2>1, <2>2, <2>5
    <3> QED
      BY <1>4, <2>1, <2>5, <3>1
  <2> QED
    BY <2>3, <2>4, <2>5
<1>7. ASSUME NEW d \in 0 .. MaxDowntime, Crash(d) PROVE Ledger!LedgerNext
  <2> DEFINE L == {k \in Keys : \E p \in Scanners : scan[p].pc = "record" /\ KeyOf(p) = k}
  <2>1. licence' = [k \in Keys |-> IF k \in L THEN licence[k] + 1 ELSE licence[k]]
    BY <1>7 DEF Crash
  <2>2. UNCHANGED <<row, pushes>>
    BY <1>7 DEF Crash, dbVars, Withdrawn
  <2>3. Ledger!LoseTrace(L)
    BY <2>1, <2>2 DEF Ledger!LoseTrace
  <2>4. L \in SUBSET Keys
    OBVIOUS
  <2> QED
    BY <2>3, <2>4 DEF Ledger!LedgerNext
<1>8. ASSUME NEW x \in Occasions \cup Channels, Delete(x) PROVE Ledger!LedgerNext
  <2> DEFINE hit(k) == k[2] = x \/ (k[1] \notin Holidays /\ OccasionOf[k[1]] = x)
  <2> DEFINE W == {k \in Keys : hit(k)}
  <2>1. \A k \in Keys : log'[k] = IF hit(k) THEN "none" ELSE log[k]
    BY <1>8 DEF Delete
  <2>2. \A k : Withdrawn(k)' <=> Withdrawn(k) \/ hit(k)
    BY <1>8 DEF Delete, Withdrawn
  <2> HIDE DEF hit
  <2>3. row' = [k \in Keys |-> IF k \in W THEN "withdrawn" ELSE row[k]]
    BY <2>1, <2>2
  <2>4. UNCHANGED <<pushes, licence>>
    BY <1>8 DEF Delete, historyVars
  <2>5. Ledger!Withdraw(W)
    BY <2>3, <2>4 DEF Ledger!Withdraw
  <2>6. W \in SUBSET Keys
    OBVIOUS
  <2> QED
    BY <2>5, <2>6 DEF Ledger!LedgerNext
<1>9. CASE UNCHANGED vars
  BY <1>9, <1>s DEF vars, dbVars, historyVars
<1>10. CASE Next
  BY <1>1, <1>2, <1>5, <1>6, <1>7, <1>8, <1>s, <1>10, LedgerEffects
<1> QED
  BY <1>9, <1>10

\* The whole engine, with its scans, retries, backoff, crashes and edits, implements
\* the ledger: a pair is decided once, and pushed once plus its licences.
THEOREM Refinement == Spec => LedgerSpec
<1>1. Init => Ledger!LedgerInit
  BY LedgerInitStep
<1>2. IInv /\ IInv' /\ [Next]_vars => [Ledger!LedgerNext]_(Ledger!ledgerVars)
  BY LedgerStep
<1> QED
  BY <1>1, <1>2, Invariance, PTL DEF Spec, LedgerSpec, Ledger!LedgerSpec

-----------------------------------------------------------------------------
(* Catching up: with nobody editing anything, a window that is wide enough *)
(* for the faults costs no reminder.  Each fault is spent once, by the     *)
(* scan it hits or by the crash it is, and sets a pair back by at most     *)
(* that scan, the rest or downtime after it, and the wait for the next.    *)

\* Every document a scan may work with, the defaults after a failed read as well,
\* keeps what the saved one asks for in its window until MaxFaults setbacks are over.
WindowSuffices ==
  \A s \in Settings :
    /\ s.defaults = DefaultSettings.defaults /\ DefaultSettings.holidays \subseteq s.holidays
    /\ \A t \in {s, DefaultSettings} :
         s.sendTime + ScanGap + MaxFaults * Setback <= t.sendTime + t.catchUp

\* The scans that wait for the mutex with a fault of theirs not yet spent.
Pending == {p \in Scanners : scan[p].pc = "waiting" /\ (~scan[p].ctx \/ scan[p].snap # settings)}

\* The faults that have done what harm they can do, or are doing it.
Spent == faults - Cardinality(Pending)

\* When a scan must have begun that decides the pairs of r, given the faults spent.
Deadline(r) == SendAt(r, settings) + ScanGap + Spent * Setback

\* The contact or the holiday a reminder comes from.
Source(r) == IF r \in Holidays THEN r ELSE ContactOf[OccasionOf[r]]

\* The scan in progress is sound and has the pair of r and c still before it.
Ahead(p, r, c) ==
  /\ scan[p].ctx /\ scan[p].snap = settings
  /\ SendAt(r, settings) <= lastScan /\ failUntil[c] <= lastScan
  /\ \/ /\ scan[p].pc = "listing"
        /\ r \notin Holidays => Source(r) \in scan[p].todo \/ OccasionOf[r] \in scan[p].seen
     \/ /\ scan[p].pc \in Holding \ {"listing"} /\ Source(r) \in scan[p].todo
        /\ r \notin Holidays => OccasionOf[r] \in scan[p].seen
     \/ /\ scan[p].pc \in Holding \ {"listing", "sources"}
        /\ r \in scan[p].rems /\ c \in ChannelsFor(r, scan[p].chans)
     \/ scan[p].pc \in {"deliver", "send", "record"} /\ scan[p].rem = r /\ c \in scan[p].left
     \/ scan[p].pc \in {"send", "record"} /\ scan[p].rem = r /\ scan[p].ch = c

\* Why a pair without a row will get one in time: its hour has not come or its
\* channel rests, and both end early enough; or the next scan is early enough; or
\* this one is sound.  A scan whose context is gone has a setback in hand.
OnTime(r, c) ==
  /\ lastScan <= Deadline(r) /\ failUntil[c] + ScanGap <= Deadline(r)
  /\ \A p \in Scanners :
       scan[p].pc \in Holding /\ ~scan[p].ctx => lastScan + Setback <= Deadline(r)
  /\ \/ lastScan < SendAt(r, settings) \/ lastScan < failUntil[c]
     \/ lastScan + ScanGap <= Deadline(r)
     \/ \E p \in Scanners : Ahead(p, r, c)

\* Nobody edits, the faults spent are some of those there were, and scans start in time.
Clocks ==
  /\ off = {} /\ gone = {} /\ settings \in Settings
  /\ faults <= MaxFaults /\ IsFiniteSet(Pending) /\ Cardinality(Pending) <= faults
  /\ lastScan <= now /\ now <= lastScan + ScanGap

\* What a scan has in hand is wanted, and its clocks are those of this scan.
LocalsFit(p) ==
  /\ scan[p].pc # "idle" => scan[p].snap \in {settings, DefaultSettings}
  /\ scan[p].pc \in Holding => scan[p].at = lastScan
  /\ scan[p].pc \in Holding \ {"listing", "sources"} =>
       \A r \in scan[p].rems : \A c \in ChannelsFor(r, scan[p].chans) : Wanted(<<r, c>>)
  /\ scan[p].pc \in {"missed", "deliver", "send", "record"} =>
       (\A c \in scan[p].left : Wanted(<<scan[p].rem, c>>)) /\ lastScan <= scan[p].dnow
  /\ scan[p].pc = "missed" => Overdue(scan[p].rem, scan[p].snap, scan[p].at)

\* Every wanted pair is decided or on time.
AllOnTime ==
  \A r \in Reminders, c \in Channels : Wanted(<<r, c>>) /\ log[<<r, c>>] = "none" => OnTime(r, c)

\* The inductive invariant of an engine left alone.
QuietInv == IInv /\ Clocks /\ (\A p \in Scanners : LocalsFit(p)) /\ AllOnTime /\ CaughtUp

-----------------------------------------------------------------------------
(* The arithmetic of setbacks.                                              *)

\* A setback allows for the scan, what follows it, and the wait after that.
LEMMA SetbackIs ==
  /\ Setback \in Nat /\ 2 * ScanGap + FailBackoff <= Setback
  /\ 2 * ScanGap + MaxDowntime <= Setback /\ ScanGap \in Nat
BY TimingAssumption DEF Setback

\* One more fault is one more setback.
LEMMA SetbacksAdd ==
  \A e, f \in Nat : /\ e <= f => e * Setback <= f * Setback
                    /\ e < f => e * Setback + Setback <= f * Setback
<1> TAKE e, f \in Nat
<1>1. PICK s \in Nat : s = Setback
  BY SetbackIs
<1>2. ASSUME e <= f PROVE e * s <= f * s
  <2>1. PICK g \in Nat : f = e + g
    <3>1. f - e \in Nat /\ f = e + (f - e)
      BY <1>2
    <3> QED BY <3>1
  <2>2. f * s = e * s + g * s /\ g * s >= 0
    BY <2>1
  <2> QED BY <2>2
<1>3. ASSUME e < f PROVE e * s + s <= f * s
  <2>1. PICK g \in Nat : f = e + 1 + g
    <3>1. f - e - 1 \in Nat /\ f = e + 1 + (f - e - 1)
      BY <1>3
    <3> QED BY <3>1
  <2>2. f * s = e * s + s + g * s /\ g * s >= 0
    BY <2>1
  <2> QED BY <2>2
<1> QED BY <1>1, <1>2, <1>3

\* The faults that are spent are some of those there were.
LEMMA SpentIs ==
  ASSUME TypeOK, Clocks
  PROVE  Spent \in Nat /\ Spent <= MaxFaults /\ Cardinality(Pending) \in Nat
<1>1. Cardinality(Pending) \in Nat
  BY FS_CardinalityType DEF Clocks
<1>2. faults \in Nat /\ faults <= MaxFaults /\ Cardinality(Pending) <= faults
  BY DEF TypeOK, Clocks
<1> QED BY <1>1, <1>2, TimingAssumption DEF Spent

\* The hour of a reminder is a time, under every document.
LEMMA SendAtIs ==
  ASSUME NEW r \in Reminders, NEW s \in SettingsDoc
  PROVE  SendAt(r, s) \in Nat /\ SendAt(r, s) = Due[r] + s.sendTime /\ Due[r] \in Nat
         /\ s.sendTime \in Nat /\ s.catchUp \in Nat
BY RemindersAssumption DEF SendAt, SettingsDoc

\* The deadline is a time, and as long as it lasts no window is over.
LEMMA DeadlineIs ==
  ASSUME TypeOK, Clocks, NEW r \in Reminders
  PROVE  /\ Deadline(r) \in Nat /\ SendAt(r, settings) + ScanGap <= Deadline(r)
         /\ Spent * Setback \in Nat
         /\ WindowSuffices => \A t \in {settings, DefaultSettings} :
              Deadline(r) <= SendAt(r, t) + t.catchUp
<1>1. settings \in SettingsDoc /\ DefaultSettings \in SettingsDoc /\ settings \in Settings
  BY SettingsAssumption DEF TypeOK, Clocks
<1>2. Spent \in Nat /\ Spent <= MaxFaults /\ MaxFaults \in Nat
  BY SpentIs, TimingAssumption
<1>3. Spent * Setback <= MaxFaults * Setback
  BY <1>2, SetbacksAdd
<1>4. Spent * Setback \in Nat /\ MaxFaults * Setback \in Nat
  BY <1>2, SetbackIs
<1>5. PICK e \in Nat, m \in Nat : e = Spent * Setback /\ m = MaxFaults * Setback /\ e <= m
  BY <1>3, <1>4
<1>6. Deadline(r) = SendAt(r, settings) + ScanGap + e
  BY <1>5 DEF Deadline
<1>7. SendAt(r, settings) \in Nat /\ ScanGap \in Nat
  BY <1>1, SendAtIs, SetbackIs
<1>8. ASSUME WindowSuffices, NEW t \in {settings, DefaultSettings}
      PROVE  Deadline(r) <= SendAt(r, t) + t.catchUp
  <2>1. settings.sendTime + ScanGap + m <= t.sendTime + t.catchUp
    BY <1>1, <1>5, <1>8 DEF WindowSuffices
  <2>2. /\ SendAt(r, settings) = Due[r] + settings.sendTime /\ SendAt(r, t) = Due[r] + t.sendTime
        /\ Due[r] \in Nat /\ settings.sendTime \in Nat /\ t.sendTime \in Nat /\ t.catchUp \in Nat
    BY <1>1, SendAtIs
  <2> QED BY <1>5, <1>6, <1>7, <2>1, <2>2
<1> QED BY <1>4, <1>5, <1>6, <1>7, <1>8

-----------------------------------------------------------------------------
(* What is wanted while nobody edits anything.                              *)

\* The channels of a contact do not depend on which document a scan works with.
LEMMA SameTargets ==
  ASSUME WindowSuffices, Clocks, NEW p \in Scanners, LocalsFit(p), scan[p].pc # "idle", NEW x
  PROVE  TargetChannels(x, scan[p].snap) = TargetChannels(x, settings)
<1>1. scan[p].snap \in {settings, DefaultSettings} /\ settings \in Settings
  BY DEF LocalsFit, Clocks
<1>2. scan[p].snap.defaults = settings.defaults
  BY <1>1 DEF WindowSuffices
<1> QED BY <1>2 DEF TargetChannels

\* With nothing paused, disabled or deleted, wanted is what the saved document selects.
LEMMA WantedIs ==
  ASSUME Clocks, NEW r \in Reminders, NEW c \in Channels
  PROVE  /\ Wanted(<<r, c>>) <=>
              IF r \in Holidays THEN r \in settings.holidays
              ELSE c \in ChannelsFor(r, TargetChannels(ContactOf[OccasionOf[r]], settings))
         /\ Enabled = Channels /\ ~Withdrawn(<<r, c>>)
<1>1. off = {} /\ gone = {}
  BY DEF Clocks
<1>2. Enabled = Channels /\ ~Withdrawn(<<r, c>>)
  BY <1>1 DEF Enabled, Withdrawn
<1>3. <<r, c>>[1] = r /\ <<r, c>>[2] = c
  OBVIOUS
<1> QED BY <1>1, <1>2, <1>3 DEF Wanted

\* Nothing becomes wanted or unwanted while nobody edits.
LEMMA WantedStays ==
  ASSUME UNCHANGED <<settings, off, gone>>, NEW k
  PROVE  Wanted(k)' <=> Wanted(k)
<1>1. \A x, s : TargetChannels(x, s)' = TargetChannels(x, s)
  BY DEF TargetChannels, Enabled
<1>2. Enabled' = Enabled /\ (Withdrawn(k)' <=> Withdrawn(k))
  BY DEF Enabled, Withdrawn
<1> QED BY <1>1, <1>2 DEF Wanted

\* A pair that got a setback has a deadline that allows for it.
LEMMA SetBackOnTime ==
  ASSUME TypeOK, TypeOK', Clocks, NEW r \in Reminders, NEW c \in Channels, OnTime(r, c),
         lastScan' = lastScan, Deadline(r) \in Nat, Deadline(r)' \in Nat,
         Deadline(r) <= Deadline(r)', lastScan + Setback <= Deadline(r)',
         failUntil'[c] = failUntil[c] \/ failUntil'[c] <= lastScan + ScanGap + FailBackoff
  PROVE  OnTime(r, c)'
<1>1. /\ lastScan \in Nat /\ failUntil[c] \in Nat /\ failUntil'[c] \in Nat
      /\ Setback \in Nat /\ ScanGap \in Nat /\ FailBackoff \in Nat
      /\ 2 * ScanGap + FailBackoff <= Setback
  BY SetbackIs, TimingAssumption DEF TypeOK
<1>2. lastScan' <= Deadline(r)' /\ lastScan' + ScanGap <= Deadline(r)'
  BY <1>1
<1>3. failUntil'[c] + ScanGap <= Deadline(r)'
  BY <1>1 DEF OnTime
<1> QED BY <1>2, <1>3 DEF OnTime

\* Spending a fault moves every deadline by a setback.
LEMMA DeadlineMoves ==
  ASSUME TypeOK, TypeOK', Clocks, Clocks', settings' = settings, NEW r \in Reminders
  PROVE  /\ Deadline(r) \in Nat /\ Deadline(r)' \in Nat /\ Spent \in Nat /\ Spent' \in Nat
         /\ Spent <= Spent' => Deadline(r) <= Deadline(r)'
         /\ Spent < Spent' => Deadline(r) + Setback <= Deadline(r)'
<1>1. Spent \in Nat
  BY SpentIs
<1>2. Spent' \in Nat
  <2>1. IsFiniteSet(Pending') /\ Cardinality(Pending') <= faults' /\ faults' \in Nat
    BY DEF Clocks, TypeOK
  <2>2. Cardinality(Pending') \in Nat
    BY <2>1, FS_CardinalityType
  <2> QED BY <2>1, <2>2 DEF Spent
<1>3. SendAt(r, settings) + ScanGap \in Nat
  <2>1. settings \in SettingsDoc
    BY DEF TypeOK
  <2> QED BY <2>1, SendAtIs, SetbackIs
<1>4. PICK h \in Nat, e \in Nat, f \in Nat :
        h = SendAt(r, settings) + ScanGap /\ e = Spent /\ f = Spent'
  BY <1>1, <1>2, <1>3
<1>5. Deadline(r) = h + e * Setback /\ Deadline(r)' = h + f * Setback
  BY <1>4 DEF Deadline, SendAt
<1>6. PICK u \in Nat, v \in Nat : u = e * Setback /\ v = f * Setback
  BY SetbackIs
<1>7. (e <= f => u <= v) /\ (e < f => u + Setback <= v)
  BY <1>6, SetbacksAdd
<1> QED BY <1>4, <1>5, <1>6, <1>7, SetbackIs

\* What one step of a scan may do.
Progress(p) ==
  /\ UNCHANGED <<settings, off, gone, now, lastScan>>
  /\ scan[p].pc \in Holding /\ \A q \in Scanners \ {p} : scan'[q] = scan[q]
  /\ \/ scan'[p].pc = "idle"
     \/ scan'[p].pc \in Holding /\ (scan'[p].ctx = scan[p].ctx \/ faults' # faults)
  /\ LocalsFit(p)'
  /\ \A k \in Keys : log'[k] # "missed" /\ (log'[k] = "none" => log[k] = "none")
  /\ \A c \in Channels :
       failUntil'[c] = failUntil[c] \/ failUntil'[c] <= lastScan + ScanGap + FailBackoff
  /\ \/ ~scan[p].ctx /\ faults' = faults
     \/ faults < MaxFaults /\ faults' = faults + 1
     \/ /\ failUntil' = failUntil /\ faults' = faults
        /\ \A r \in Reminders, c \in Channels :
             Wanted(<<r, c>>) /\ log'[<<r, c>>] = "none" /\ Ahead(p, r, c) => Ahead(p, r, c)'

\* Outside the scans in progress nothing is pending or ceases to be.
LEMMA PendingStays ==
  ASSUME NEW p \in Scanners, UNCHANGED settings, scan[p].pc # "waiting", scan'[p].pc # "waiting",
         \A q \in Scanners \ {p} : scan'[q] = scan[q]
  PROVE  Pending' = Pending
BY DEF Pending

\* The places inside a scan.
LEMMA HoldingIs ==
  Holding = {"listing", "sources", "reminders", "missed", "deliver", "send", "record"}
BY DEF Holding, Steps

\* A step that makes progress keeps every pair on time: it keeps the pair ahead, or
\* decides it, or spends a fault, or belongs to a scan that has its setback in hand.
LEMMA ProgressKeeps ==
  ASSUME QuietInv, IInv', NEW p \in Scanners, Progress(p)
  PROVE  QuietInv'
<1>1. scan[p].pc # "waiting" /\ scan'[p].pc # "waiting"
  BY HoldingIs DEF Progress
<1>2. Pending' = Pending
  BY <1>1, PendingStays DEF Progress
<1>t. TypeOK /\ TypeOK' /\ Clocks
  BY DEF QuietInv, IInv
<1>3. Clocks'
  <2>1. faults \in Nat /\ MaxFaults \in Nat /\ Cardinality(Pending) \in Nat
    BY <1>t, TimingAssumption, SpentIs DEF TypeOK
  <2>2. faults' \in {faults, faults + 1} /\ faults' <= MaxFaults
    BY <2>1, <1>t DEF Progress, Clocks
  <2> QED BY <1>2, <1>t, <2>1, <2>2 DEF Clocks, Progress
<1>4. ASSUME NEW q \in Scanners PROVE LocalsFit(q)'
  <2>1. CASE q = p
    BY <2>1 DEF Progress
  <2>2. CASE q # p
    <3>1. scan'[q] = scan[q] /\ UNCHANGED <<settings, lastScan, off, gone>>
      BY <2>2 DEF Progress
    <3>2. \A k : Wanted(k)' <=> Wanted(k)
      BY <3>1, WantedStays
    <3>3. LocalsFit(q)
      BY DEF QuietInv
    <3>4. \A r, s, t : Overdue(r, s, t)' <=> Overdue(r, s, t)
      BY DEF Overdue, SendAt
    <3> QED BY <3>1, <3>2, <3>3, <3>4 DEF LocalsFit, ChannelsFor
  <2> QED BY <2>1, <2>2
<1>5. ASSUME NEW r \in Reminders, NEW c \in Channels, Wanted(<<r, c>>)', log'[<<r, c>>] = "none"
      PROVE  OnTime(r, c)'
  <2>1. Wanted(<<r, c>>) /\ log[<<r, c>>] = "none"
    BY <1>5, WantedStays DEF Progress, Keys
  <2>2. OnTime(r, c)
    BY <2>1 DEF QuietInv, AllOnTime
  <2>3. /\ lastScan \in Nat /\ Deadline(r) \in Nat /\ Deadline(r)' \in Nat /\ Setback \in Nat
        /\ lastScan <= Deadline(r)
    BY <1>t, <1>3, <2>2, DeadlineMoves, SetbackIs DEF OnTime, TypeOK, Progress
  <2>4. lastScan' = lastScan
    BY DEF Progress
  <2>5. CASE ~scan[p].ctx /\ faults' = faults
    <3>1. lastScan + Setback <= Deadline(r)
      BY <2>2, <2>5 DEF OnTime, Progress
    <3>2. Deadline(r)' = Deadline(r)
      BY <1>2, <2>5 DEF Deadline, Spent, Progress, SendAt
    <3> QED BY <1>t, <2>2, <2>3, <2>4, <3>1, <3>2, SetBackOnTime DEF Progress
  <2>6. CASE faults < MaxFaults /\ faults' = faults + 1
    <3>1. Spent < Spent'
      <4>1. Spent' = faults' - Cardinality(Pending)
        BY <1>2 DEF Spent
      <4>2. faults \in Nat /\ Cardinality(Pending) \in Nat
        BY <1>t, SpentIs DEF TypeOK
      <4> QED BY <2>6, <4>1, <4>2 DEF Spent
    <3>2. Deadline(r) + Setback <= Deadline(r)'
      BY <1>t, <1>3, <3>1, DeadlineMoves DEF Progress
    <3>3. lastScan + Setback <= Deadline(r)' /\ Deadline(r) <= Deadline(r)'
      BY <2>3, <3>2
    <3> QED BY <1>t, <2>2, <2>3, <2>4, <3>3, SetBackOnTime DEF Progress
  <2>7. CASE /\ failUntil' = failUntil /\ faults' = faults
             /\ \A s \in Reminders, d \in Channels :
                  Wanted(<<s, d>>) /\ log'[<<s, d>>] = "none" /\ Ahead(p, s, d) => Ahead(p, s, d)'
    <3>1. Deadline(r)' = Deadline(r) /\ SendAt(r, settings)' = SendAt(r, settings)
      BY <1>2, <2>7 DEF Deadline, Spent, Progress, SendAt
    <3>2. \A q \in Scanners : scan'[q].pc \in Holding /\ ~scan'[q].ctx =>
                              scan[q].pc \in Holding /\ ~scan[q].ctx
      <4>1. \A q \in Scanners \ {p} : scan'[q] = scan[q]
        BY DEF Progress
      <4>2. scan[p].pc \in Holding /\ (scan'[p].pc \in Holding => scan'[p].ctx = scan[p].ctx)
        BY <2>7, HoldingIs DEF Progress
      <4> QED BY <4>1, <4>2
    <3>3. \A q \in Scanners : Ahead(q, r, c) => q = p
      <4>1. \A q \in Scanners : Ahead(q, r, c) => scan[q].pc \in Holding
        BY HoldingIs DEF Ahead
      <4>2. \A q \in Scanners : scan[q].pc \in Holding => mu = q
        BY DEF QuietInv, IInv, ScanInvariant
      <4> QED BY <4>1, <4>2 DEF Progress
    <3>4. (\E q \in Scanners : Ahead(q, r, c)) => \E q \in Scanners : Ahead(q, r, c)'
      BY <1>5, <2>1, <2>7, <3>3
    <3> HIDE DEF Ahead
    <3> QED BY <2>2, <2>4, <2>7, <3>1, <3>2, <3>4 DEF OnTime
  <2> QED BY <2>5, <2>6, <2>7 DEF Progress
<1>6. CaughtUp'
  BY DEF Progress, CaughtUp
<1> QED BY <1>3, <1>4, <1>5, <1>6 DEF QuietInv, AllOnTime

-----------------------------------------------------------------------------
(* The steps of a scan make progress.                                       *)

\* A failed call costs a fault, unless the context is gone and the cancelling was the fault.
LEMMA CallCounts ==
  ASSUME NEW p \in Scanners
  PROVE  /\ CallFails(p) => \/ ~scan[p].ctx /\ faults' = faults
                            \/ faults < MaxFaults /\ faults' = faults + 1
         /\ CallSucceeds(p) => faults' = faults
BY DEF CallFails, CallSucceeds, Fault

\* The locals after a step, spoken of in terms of the state before it.
LEMMA LocalsFitAfter ==
  ASSUME UNCHANGED <<settings, off, gone, lastScan>>, NEW p \in Scanners,
         scan'[p].pc # "idle" => scan'[p].snap \in {settings, DefaultSettings},
         scan'[p].pc \in Holding => scan'[p].at = lastScan,
         scan'[p].pc \in Holding \ {"listing", "sources"} =>
           \A r \in scan'[p].rems : \A c \in ChannelsFor(r, scan'[p].chans) : Wanted(<<r, c>>),
         scan'[p].pc \in {"missed", "deliver", "send", "record"} =>
           (\A c \in scan'[p].left : Wanted(<<scan'[p].rem, c>>)) /\ lastScan <= scan'[p].dnow,
         scan'[p].pc = "missed" => Overdue(scan'[p].rem, scan'[p].snap, scan'[p].at)
  PROVE  LocalsFit(p)'
<1>1. \A k : Wanted(k)' <=> Wanted(k)
  BY WantedStays
<1>2. Overdue(scan[p].rem, scan[p].snap, scan[p].at)' <=>
      Overdue(scan'[p].rem, scan'[p].snap, scan'[p].at)
  BY DEF Overdue, SendAt
<1>3. \A r, s : ChannelsFor(r, s)' = ChannelsFor(r, s)
  BY DEF ChannelsFor
<1> QED BY <1>1, <1>2, <1>3 DEF LocalsFit

\* What a step of a sound scan has to keep for the pairs before it.
LEMMA AheadAfter ==
  ASSUME UNCHANGED <<settings, lastScan, failUntil>>, NEW p \in Scanners,
         NEW r \in Reminders, NEW c \in Channels, Ahead(p, r, c),
         scan'[p].ctx = scan[p].ctx, scan'[p].snap = scan[p].snap,
         \/ /\ scan'[p].pc = "listing"
            /\ r \notin Holidays => Source(r) \in scan'[p].todo \/ OccasionOf[r] \in scan'[p].seen
         \/ /\ scan'[p].pc \in Holding \ {"listing"} /\ Source(r) \in scan'[p].todo
            /\ r \notin Holidays => OccasionOf[r] \in scan'[p].seen
         \/ /\ scan'[p].pc \in Holding \ {"listing", "sources"}
            /\ r \in scan'[p].rems /\ c \in ChannelsFor(r, scan'[p].chans)
         \/ scan'[p].pc \in {"deliver", "send", "record"} /\ scan'[p].rem = r /\ c \in scan'[p].left
         \/ scan'[p].pc \in {"send", "record"} /\ scan'[p].rem = r /\ scan'[p].ch = c
  PROVE  Ahead(p, r, c)'
<1>1. SendAt(r, settings)' = SendAt(r, settings) /\ Source(r)' = Source(r)
  BY DEF SendAt, Source
<1>2. ChannelsFor(r, scan[p].chans)' = ChannelsFor(r, scan'[p].chans)
  BY DEF ChannelsFor
<1> QED BY <1>1, <1>2 DEF Ahead

\* A sound scan computes what is before it, and none of it is overdue yet.
LEMMA AheadIsWork ==
  ASSUME WindowSuffices, QuietInv, NEW p \in Scanners, scan[p].pc \in Holding,
         NEW r \in Reminders, NEW c \in Channels, Wanted(<<r, c>>), log[<<r, c>>] = "none",
         Ahead(p, r, c)
  PROVE  /\ (r \notin Holidays => OccasionOf[r] \in scan[p].seen) => r \in Work(p, Source(r))
         /\ ~Overdue(r, scan[p].snap, scan[p].at)
         /\ Source(r) \in Contacts \cup Holidays
<1>1. scan[p].snap = settings /\ SendAt(r, settings) <= lastScan /\ scan[p].at = lastScan
  BY DEF Ahead, QuietInv, LocalsFit
<1>2. lastScan <= Deadline(r)
  BY DEF QuietInv, AllOnTime, OnTime
<1>3. /\ TypeOK /\ Clocks /\ settings \in SettingsDoc /\ lastScan \in Nat
      /\ Margin[r] \in Nat
  BY RemindersAssumption DEF QuietInv, IInv, TypeOK
<1>4. Deadline(r) \in Nat /\ Deadline(r) <= SendAt(r, settings) + settings.catchUp
  BY <1>3, DeadlineIs
<1>5. SendAt(r, settings) \in Nat /\ settings.catchUp \in Nat
  BY <1>3, SendAtIs
<1>6. Considered(r, scan[p].snap, scan[p].at) /\ ~Overdue(r, scan[p].snap, scan[p].at)
  BY <1>1, <1>2, <1>3, <1>4, <1>5 DEF Considered, Overdue
<1>7. r \in Holidays => r \in settings.holidays
  BY <1>3, WantedIs
<1>8. r \notin Holidays => OccasionOf[r] \in Occasions /\ ContactOf[OccasionOf[r]] \in Contacts
  BY RemindersAssumption
<1> QED BY <1>1, <1>6, <1>7, <1>8 DEF Work, Source

\* The state of a goroutine that takes a step of its scan.
LEMMA ScanParts ==
  ASSUME QuietInv, NEW p \in Scanners
  PROVE  /\ scan[p] \in ScanState /\ scan \in [Scanners -> ScanState] /\ LocalsFit(p)
         /\ TypeOK /\ Clocks /\ lastScan \in Nat /\ now \in Nat /\ lastScan <= now
         /\ now <= lastScan + ScanGap /\ \A k \in Keys : log[k] # "missed"
BY DEF QuietInv, IInv, TypeOK, Clocks, CaughtUp

\* A contact that is read takes its occasions into what the scan has seen.
LEMMA ReadContactProgress ==
  ASSUME QuietInv, NEW p \in Scanners, NEW x \in Contacts, ReadContact(p, x)
  PROVE  Progress(p)
<1> USE DEF dbVars, historyVars
<1> DEFINE S == scan[p]
           seen == S.seen \cup {o \in Occasions :
                          ContactOf[o] = x /\ {o, x} \cap off = {} /\ o \notin gone}
<1>0. S \in ScanState /\ scan \in [Scanners -> ScanState] /\ LocalsFit(p) /\ Clocks
      /\ \A k \in Keys : log[k] # "missed"
  BY ScanParts
<1>1. Becomes(p, [S EXCEPT !.todo = @ \ {x}, !.seen = seen])
  BY DEF ReadContact
<1>s. OccasionOf \in [Reminders \ Holidays -> Occasions]
  BY RemindersAssumption
<1>2. \A r \in Reminders : r \notin Holidays /\ Source(r) = x => OccasionOf[r] \in seen
  BY <1>0, <1>s DEF Source, Clocks
<1>3. S.seen \subseteq seen
  OBVIOUS
<1> HIDE DEF seen
<1>4. /\ scan'[p].pc = S.pc /\ scan'[p].ctx = S.ctx /\ scan'[p].snap = S.snap
      /\ scan'[p].at = S.at /\ scan'[p].todo = S.todo \ {x} /\ scan'[p].seen = seen
      /\ \A q \in Scanners \ {p} : scan'[q] = scan[q]
  BY <1>0, <1>1 DEF ScanState, Becomes
<1>5. /\ S.pc = "listing" /\ faults' = faults
      /\ UNCHANGED <<settings, off, gone, log, failUntil, now, lastScan>>
  BY CallCounts DEF ReadContact
<1>6. LocalsFit(p)'
  BY <1>0, <1>4, <1>5, HoldingIs, LocalsFitAfter DEF LocalsFit
<1>7. ASSUME NEW r \in Reminders, NEW c \in Channels, Ahead(p, r, c) PROVE Ahead(p, r, c)'
  <2>1. r \notin Holidays => Source(r) \in S.todo \/ OccasionOf[r] \in S.seen
    BY <1>5, <1>7, HoldingIs DEF Ahead
  <2>2. r \notin Holidays => Source(r) \in scan'[p].todo \/ OccasionOf[r] \in scan'[p].seen
    BY <2>1, <1>2, <1>3, <1>4
  <2> QED BY <1>4, <1>5, <1>7, <2>2, AheadAfter
<1> QED BY <1>0, <1>4, <1>5, <1>6, <1>7, HoldingIs DEF Progress

\* A listing that fails ends the scan at the price of a fault.
LEMMA ListingFailsProgress ==
  ASSUME QuietInv, NEW p \in Scanners, ListingFails(p)
  PROVE  Progress(p)
<1> USE DEF dbVars, historyVars
<1>0. scan \in [Scanners -> ScanState] /\ \A k \in Keys : log[k] # "missed"
  BY ScanParts
<1>1. Becomes(p, Idle) /\ Idle.pc = "idle"
  BY DEF ListingFails, Release, Idle
<1>2. scan'[p].pc = "idle" /\ \A q \in Scanners \ {p} : scan'[q] = scan[q]
  BY <1>0, <1>1 DEF Becomes
<1>3. /\ scan[p].pc = "listing"
      /\ UNCHANGED <<settings, off, gone, log, failUntil, now, lastScan>>
  BY DEF ListingFails
<1>4. LocalsFit(p)'
  BY <1>2, <1>3, HoldingIs, LocalsFitAfter
<1>5. \/ ~scan[p].ctx /\ faults' = faults
      \/ faults < MaxFaults /\ faults' = faults + 1
  BY CallCounts DEF ListingFails
<1> QED BY <1>0, <1>2, <1>3, <1>4, <1>5, HoldingIs DEF Progress

\* The sources of a sound scan include that of every pair before it.
LEMMA StartSendingProgress ==
  ASSUME WindowSuffices, QuietInv, NEW p \in Scanners, StartSending(p)
  PROVE  Progress(p)
<1> USE DEF dbVars, worldVars, historyVars
<1> DEFINE S == scan[p]
           W == {x \in Contacts \cup Holidays : Work(p, x) # {}}
<1>0. S \in ScanState /\ scan \in [Scanners -> ScanState] /\ LocalsFit(p)
      /\ \A k \in Keys : log[k] # "missed"
  BY ScanParts
<1>1. Becomes(p, [S EXCEPT !.pc = "sources", !.todo = W])
  BY DEF StartSending
<1>2. /\ S.pc = "listing" /\ S.todo = {} /\ faults' = faults
      /\ UNCHANGED <<settings, off, gone, log, failUntil, now, lastScan>>
  BY DEF StartSending
<1>3. ASSUME NEW r \in Reminders, NEW c \in Channels, Wanted(<<r, c>>), log[<<r, c>>] = "none",
             Ahead(p, r, c)
      PROVE  Source(r) \in W /\ (r \notin Holidays => OccasionOf[r] \in S.seen)
  <2>1. r \notin Holidays => OccasionOf[r] \in S.seen
    BY <1>2, <1>3, HoldingIs DEF Ahead
  <2>2. r \in Work(p, Source(r)) /\ Source(r) \in Contacts \cup Holidays
    BY <1>2, <1>3, <2>1, AheadIsWork, HoldingIs
  <2> QED BY <2>1, <2>2
<1> HIDE DEF W
<1>4. /\ scan'[p].pc = "sources" /\ scan'[p].ctx = S.ctx /\ scan'[p].snap = S.snap
      /\ scan'[p].at = S.at /\ scan'[p].todo = W /\ scan'[p].seen = S.seen
      /\ \A q \in Scanners \ {p} : scan'[q] = scan[q]
  BY <1>0, <1>1 DEF ScanState, Becomes
<1>5. LocalsFit(p)'
  BY <1>0, <1>2, <1>4, HoldingIs, LocalsFitAfter DEF LocalsFit
<1>6. ASSUME NEW r \in Reminders, NEW c \in Channels, Wanted(<<r, c>>), log'[<<r, c>>] = "none",
             Ahead(p, r, c)
      PROVE  Ahead(p, r, c)'
  BY <1>2, <1>3, <1>4, <1>6, HoldingIs, AheadAfter
<1> QED BY <1>0, <1>2, <1>4, <1>5, <1>6, HoldingIs DEF Progress

\* A source that is opened gets the channels that are wanted and the reminders that are
\* due, among them the pairs before a sound scan.
LEMMA OpenSourceProgress ==
  ASSUME WindowSuffices, QuietInv, NEW p \in Scanners, NEW x \in Contacts \cup Holidays,
         OpenSource(p, x)
  PROVE  Progress(p)
<1> USE DEF dbVars, worldVars, historyVars
<1> DEFINE S == scan[p]
           C == IF x \in Holidays THEN Enabled ELSE TargetChannels(x, S.snap)
           W == Work(p, x)
<1>0. /\ S \in ScanState /\ scan \in [Scanners -> ScanState] /\ LocalsFit(p) /\ Clocks
      /\ \A k \in Keys : log[k] # "missed"
  BY ScanParts
<1>1. /\ S.pc = "sources" /\ UNCHANGED <<settings, off, gone, log, failUntil, now, lastScan>>
      /\ \/ /\ CallSucceeds(p)
            /\ Becomes(p, [S EXCEPT !.pc = "reminders", !.todo = @ \ {x}, !.rems = W, !.chans = C])
         \/ CallFails(p) /\ Becomes(p, [S EXCEPT !.todo = @ \ {x}])
  BY DEF OpenSource
<1>2. ASSUME NEW r \in W, NEW c \in ChannelsFor(r, C)
      PROVE  Wanted(<<r, c>>)
  <2>1. r \in Reminders /\ (r \in Holidays => r = x /\ r \in S.snap.holidays)
        /\ (r \notin Holidays => ContactOf[OccasionOf[r]] = x)
    BY DEF Work
  <2>2. S.snap.holidays \subseteq settings.holidays
    <3>1. S.snap \in {settings, DefaultSettings} /\ settings \in Settings
      BY <1>0, <1>1 DEF LocalsFit, Clocks
    <3> QED BY <3>1 DEF WindowSuffices
  <2>3. C \in SUBSET Channels
    BY DEF TargetChannels, Enabled
  <2>4. c \in Channels
    <3> HIDE DEF C
    <3> QED BY <2>1, <2>3, ChannelsForType
  <2>5. CASE r \in Holidays
    BY <1>0, <2>1, <2>2, <2>4, <2>5, WantedIs
  <2>6. CASE r \notin Holidays
    <3>1. x \notin Holidays
      BY <2>1, <2>6, RemindersAssumption
    <3>2. C = TargetChannels(x, settings)
      BY <1>0, <1>1, <3>1, SameTargets
    <3> QED BY <1>0, <2>1, <2>4, <2>6, <3>2, WantedIs
  <2> QED BY <2>5, <2>6
<1>3. ASSUME NEW r \in Reminders, NEW c \in Channels, Wanted(<<r, c>>), log[<<r, c>>] = "none",
             Ahead(p, r, c)
      PROVE  /\ Source(r) \in S.todo /\ (r \notin Holidays => OccasionOf[r] \in S.seen)
             /\ Source(r) = x => r \in W /\ c \in ChannelsFor(r, C)
  <2>1. Source(r) \in S.todo /\ (r \notin Holidays => OccasionOf[r] \in S.seen)
    BY <1>1, <1>3, HoldingIs DEF Ahead
  <2>2. r \in Work(p, Source(r))
    BY <1>1, <1>3, <2>1, AheadIsWork, HoldingIs
  <2>3. ASSUME Source(r) = x PROVE c \in ChannelsFor(r, C)
    <3>1. CASE r \in Holidays
      BY <1>0, <2>3, <3>1, WantedIs DEF ChannelsFor, Source
    <3>2. CASE r \notin Holidays
      <4>1. OccasionOf[r] \in Occasions /\ ContactOf[OccasionOf[r]] \in Contacts
        BY <3>2, RemindersAssumption
      <4>2. x = ContactOf[OccasionOf[r]] /\ x \notin Holidays
        BY <2>3, <3>2, <4>1, RemindersAssumption DEF Source
      <4>3. C = TargetChannels(x, settings)
        BY <1>0, <1>1, <4>2, SameTargets
      <4> QED BY <1>0, <1>3, <3>2, <4>2, <4>3, WantedIs
    <3> QED BY <3>1, <3>2
  <2> QED BY <2>1, <2>2, <2>3
<1> HIDE DEF C, W
<1>5. /\ \A q \in Scanners \ {p} : scan'[q] = scan[q]
      /\ scan'[p].ctx = S.ctx /\ scan'[p].snap = S.snap /\ scan'[p].at = S.at
      /\ scan'[p].todo = S.todo \ {x} /\ scan'[p].seen = S.seen
      /\ \/ scan'[p].pc = "reminders" /\ scan'[p].rems = W /\ scan'[p].chans = C
         \/ scan'[p].pc = "sources" /\ CallFails(p)
  <2>1. CASE /\ CallSucceeds(p)
             /\ Becomes(p, [S EXCEPT !.pc = "reminders", !.todo = @ \ {x}, !.rems = W, !.chans = C])
    BY <1>0, <2>1 DEF ScanState, Becomes
  <2>2. CASE CallFails(p) /\ Becomes(p, [S EXCEPT !.todo = @ \ {x}])
    BY <1>0, <1>1, <2>2 DEF ScanState, Becomes
  <2> QED BY <1>1, <2>1, <2>2
<1>6. LocalsFit(p)'
  BY <1>0, <1>1, <1>2, <1>5, HoldingIs, LocalsFitAfter DEF LocalsFit
<1>7. CASE CallFails(p)
  BY <1>0, <1>1, <1>5, <1>6, <1>7, CallCounts, HoldingIs DEF Progress
<1>8. CASE CallSucceeds(p) /\ scan'[p].pc = "reminders" /\ scan'[p].rems = W /\ scan'[p].chans = C
  <2>1. ASSUME NEW r \in Reminders, NEW c \in Channels, Wanted(<<r, c>>), log'[<<r, c>>] = "none",
               Ahead(p, r, c)
        PROVE  Ahead(p, r, c)'
    <3>1. CASE Source(r) = x
      BY <1>1, <1>3, <1>5, <1>8, <2>1, <3>1, AheadAfter, HoldingIs
    <3>2. CASE Source(r) # x
      BY <1>1, <1>3, <1>5, <1>8, <2>1, <3>2, AheadAfter, HoldingIs
    <3> QED BY <3>1, <3>2
  <2> HIDE DEF Ahead, LocalsFit
  <2> QED BY <1>0, <1>1, <1>5, <1>6, <1>8, <2>1, CallCounts, HoldingIs DEF Progress
<1> QED BY <1>1, <1>5, <1>7, <1>8

\* A reminder before a sound scan is delivered: its window cannot be over.
LEMMA BeginReminderProgress ==
  ASSUME WindowSuffices, QuietInv, NEW p \in Scanners, NEW x \in Reminders, BeginReminder(p, x)
  PROVE  Progress(p)
<1> USE DEF dbVars, worldVars, historyVars
<1> DEFINE S == scan[p]
           pc == IF Overdue(x, S.snap, S.at) THEN "missed" ELSE "deliver"
           C == ChannelsFor(x, S.chans)
<1>0. /\ S \in ScanState /\ scan \in [Scanners -> ScanState] /\ LocalsFit(p) /\ lastScan <= now
      /\ \A k \in Keys : log[k] # "missed"
  BY ScanParts
<1>1. /\ S.pc = "reminders" /\ x \in S.rems /\ faults' = faults
      /\ UNCHANGED <<settings, off, gone, log, failUntil, now, lastScan>>
      /\ Becomes(p, [S EXCEPT !.pc = pc, !.rems = @ \ {x}, !.rem = x, !.dnow = now, !.left = C])
  BY DEF BeginReminder
<1>2. \A c \in C : Wanted(<<x, c>>)
  BY <1>0, <1>1, HoldingIs DEF LocalsFit
<1>3. /\ pc \in {"missed", "deliver"} /\ (pc = "missed" => Overdue(x, S.snap, S.at))
      /\ (~Overdue(x, S.snap, S.at) => pc = "deliver")
  OBVIOUS
<1>c. \A c : c \in C <=> c \in ChannelsFor(x, S.chans)
  OBVIOUS
<1> HIDE DEF pc, C
<1>4. /\ scan'[p].pc = pc /\ scan'[p].ctx = S.ctx /\ scan'[p].snap = S.snap /\ scan'[p].at = S.at
      /\ scan'[p].todo = S.todo /\ scan'[p].seen = S.seen /\ scan'[p].chans = S.chans
      /\ scan'[p].rems = S.rems \ {x} /\ scan'[p].rem = x /\ scan'[p].dnow = now
      /\ scan'[p].left = C /\ \A q \in Scanners \ {p} : scan'[q] = scan[q]
  BY <1>0, <1>1 DEF ScanState, Becomes
<1>5. LocalsFit(p)'
  BY <1>0, <1>1, <1>2, <1>3, <1>4, HoldingIs, LocalsFitAfter DEF LocalsFit
<1>6. ASSUME NEW r \in Reminders, NEW c \in Channels, Wanted(<<r, c>>), log'[<<r, c>>] = "none",
             Ahead(p, r, c)
      PROVE  Ahead(p, r, c)'
  <2>1. \/ Source(r) \in S.todo /\ (r \notin Holidays => OccasionOf[r] \in S.seen)
        \/ r \in S.rems /\ c \in ChannelsFor(r, S.chans)
    BY <1>1, <1>6 DEF Ahead
  <2>2. r = x => pc = "deliver"
    BY <1>1, <1>3, <1>6, AheadIsWork, HoldingIs
  <2> QED BY <1>1, <1>3, <1>4, <1>6, <1>c, <2>1, <2>2, AheadAfter, HoldingIs
<1> HIDE DEF Ahead, LocalsFit
<1> QED BY <1>0, <1>1, <1>3, <1>4, <1>5, <1>6, HoldingIs DEF Progress

\* An overdue reminder has its rows already, for else its deadline would be past the window.
LEMMA RecordMissedProgress ==
  ASSUME WindowSuffices, QuietInv, NEW p \in Scanners, NEW x \in Channels, RecordMissed(p, x)
  PROVE  Progress(p)
<1> USE DEF dbVars, historyVars
<1> DEFINE S == scan[p]
           k == <<S.rem, x>>
<1>0. /\ S \in ScanState /\ scan \in [Scanners -> ScanState] /\ LocalsFit(p) /\ TypeOK /\ Clocks
      /\ lastScan \in Nat /\ \A kk \in Keys : log[kk] # "missed"
  BY ScanParts
<1>1. /\ S.pc = "missed" /\ x \in S.left /\ S.rem \in Reminders /\ k \in Keys
      /\ UNCHANGED <<settings, off, gone, failUntil, now, lastScan>>
      /\ Becomes(p, [S EXCEPT !.left = @ \ {x}])
  BY <1>0 DEF RecordMissed, ScanState, Keys
<1>2. log[k] # "none"
  <2>1. SUFFICES ASSUME log[k] = "none" PROVE FALSE
    OBVIOUS
  <2>2. Wanted(k) /\ Overdue(S.rem, S.snap, S.at) /\ S.at = lastScan
        /\ S.snap \in {settings, DefaultSettings}
    BY <1>0, <1>1, HoldingIs DEF LocalsFit
  <2>3. lastScan <= Deadline(S.rem)
    BY <1>1, <2>1, <2>2 DEF QuietInv, AllOnTime, OnTime
  <2>4. Deadline(S.rem) \in Nat /\ Deadline(S.rem) <= SendAt(S.rem, S.snap) + S.snap.catchUp
    BY <1>0, <1>1, <2>2, DeadlineIs
  <2>5. SendAt(S.rem, S.snap) \in Nat /\ S.snap.catchUp \in Nat
    BY <1>0, <1>1, SendAtIs DEF ScanState
  <2> QED BY <1>0, <2>2, <2>3, <2>4, <2>5 DEF Overdue
<1>3. log' = log
  <2>1. InsertRow(k, "missed") \/ UNCHANGED log
    BY DEF RecordMissed
  <2> QED BY <1>0, <1>1, <1>2, <2>1 DEF InsertRow, TypeOK
<1>4. faults' = faults \/ CallFails(p)
  BY CallCounts DEF RecordMissed
<1>5. /\ scan'[p].pc = S.pc /\ scan'[p].ctx = S.ctx /\ scan'[p].snap = S.snap /\ scan'[p].at = S.at
      /\ scan'[p].todo = S.todo /\ scan'[p].seen = S.seen /\ scan'[p].chans = S.chans
      /\ scan'[p].rems = S.rems /\ scan'[p].rem = S.rem /\ scan'[p].dnow = S.dnow
      /\ scan'[p].left = S.left \ {x} /\ \A q \in Scanners \ {p} : scan'[q] = scan[q]
  BY <1>0, <1>1 DEF ScanState, Becomes
<1>6. LocalsFit(p)'
  BY <1>0, <1>1, <1>5, HoldingIs, LocalsFitAfter DEF LocalsFit
<1>7. ASSUME NEW r \in Reminders, NEW c \in Channels, Ahead(p, r, c)
      PROVE  Ahead(p, r, c)'
  <2>1. \/ Source(r) \in S.todo /\ (r \notin Holidays => OccasionOf[r] \in S.seen)
        \/ r \in S.rems /\ c \in ChannelsFor(r, S.chans)
    BY <1>1, <1>7 DEF Ahead
  <2> QED BY <1>1, <1>5, <1>7, <2>1, AheadAfter, HoldingIs
<1> HIDE DEF Ahead, LocalsFit
<1> QED BY <1>0, <1>1, <1>3, <1>4, <1>5, <1>6, <1>7, CallCounts, HoldingIs DEF Progress

\* A delivery on a channel that does not rest finds the pair, or leaves it for later.
LEMMA SkipChannelProgress ==
  ASSUME QuietInv, NEW p \in Scanners, NEW x \in Channels, SkipChannel(p, x)
  PROVE  Progress(p)
<1> USE DEF dbVars, historyVars
<1> DEFINE S == scan[p]
<1>0. /\ S \in ScanState /\ scan \in [Scanners -> ScanState] /\ LocalsFit(p) /\ TypeOK
      /\ lastScan \in Nat /\ \A k \in Keys : log[k] # "missed"
  BY ScanParts
<1>1. /\ S.pc = "deliver" /\ x \in S.left /\ faults' = faults
      /\ UNCHANGED <<settings, off, gone, log, failUntil, now, lastScan>>
      /\ Becomes(p, [S EXCEPT !.left = @ \ {x}])
      /\ Resting(p, x) \/ HasRow(<<S.rem, x>>)
  BY CallCounts DEF SkipChannel
<1>2. /\ scan'[p].pc = S.pc /\ scan'[p].ctx = S.ctx /\ scan'[p].snap = S.snap /\ scan'[p].at = S.at
      /\ scan'[p].todo = S.todo /\ scan'[p].seen = S.seen /\ scan'[p].chans = S.chans
      /\ scan'[p].rems = S.rems /\ scan'[p].rem = S.rem /\ scan'[p].dnow = S.dnow
      /\ scan'[p].left = S.left \ {x} /\ \A q \in Scanners \ {p} : scan'[q] = scan[q]
  BY <1>0, <1>1 DEF ScanState, Becomes
<1>3. LocalsFit(p)'
  BY <1>0, <1>1, <1>2, HoldingIs, LocalsFitAfter DEF LocalsFit
<1>4. ASSUME NEW r \in Reminders, NEW c \in Channels, log'[<<r, c>>] = "none", Ahead(p, r, c)
      PROVE  Ahead(p, r, c)'
  <2>1. \/ Source(r) \in S.todo /\ (r \notin Holidays => OccasionOf[r] \in S.seen)
        \/ r \in S.rems /\ c \in ChannelsFor(r, S.chans)
        \/ S.rem = r /\ c \in S.left
    BY <1>1, <1>4 DEF Ahead
  <2>2. ~(r = S.rem /\ c = x)
    <3>1. failUntil[c] <= lastScan /\ lastScan <= S.dnow
      BY <1>0, <1>1, <1>4 DEF Ahead, LocalsFit
    <3>2. failUntil[c] \in Nat /\ S.dnow \in Nat
      BY <1>0 DEF TypeOK, ScanState
    <3>3. ~Resting(p, c)
      BY <1>0, <3>1, <3>2 DEF Resting
    <3> QED BY <1>1, <1>4, <3>3 DEF HasRow
  <2> QED BY <1>1, <1>2, <1>4, <2>1, <2>2, AheadAfter, HoldingIs
<1> HIDE DEF Ahead, LocalsFit
<1> QED BY <1>0, <1>1, <1>2, <1>3, <1>4, HoldingIs DEF Progress

\* A pair whose row is not found is the one in hand.
LEMMA AttemptProgress ==
  ASSUME QuietInv, NEW p \in Scanners, NEW x \in Channels, Attempt(p, x)
  PROVE  Progress(p)
<1> USE DEF dbVars, historyVars
<1> DEFINE S == scan[p]
<1>0. /\ S \in ScanState /\ scan \in [Scanners -> ScanState] /\ LocalsFit(p)
      /\ \A k \in Keys : log[k] # "missed"
  BY ScanParts
<1>1. /\ S.pc = "deliver" /\ x \in S.left
      /\ UNCHANGED <<settings, off, gone, log, failUntil, now, lastScan>>
      /\ CallFails(p) \/ faults' = faults
  BY CallCounts DEF Attempt
<1>b. PICK blind \in BOOLEAN :
        Becomes(p, [S EXCEPT !.pc = "send", !.left = @ \ {x}, !.ch = x, !.blind = blind])
  BY DEF Attempt
<1>2. /\ scan'[p].pc = "send" /\ scan'[p].ctx = S.ctx /\ scan'[p].snap = S.snap /\ scan'[p].at = S.at
      /\ scan'[p].todo = S.todo /\ scan'[p].seen = S.seen /\ scan'[p].chans = S.chans
      /\ scan'[p].rems = S.rems /\ scan'[p].rem = S.rem /\ scan'[p].dnow = S.dnow
      /\ scan'[p].left = S.left \ {x} /\ scan'[p].ch = x
      /\ \A q \in Scanners \ {p} : scan'[q] = scan[q]
  BY <1>0, <1>b DEF ScanState, Becomes
<1>3. LocalsFit(p)'
  BY <1>0, <1>1, <1>2, HoldingIs, LocalsFitAfter DEF LocalsFit
<1>4. ASSUME NEW r \in Reminders, NEW c \in Channels, Ahead(p, r, c)
      PROVE  Ahead(p, r, c)'
  <2>1. \/ Source(r) \in S.todo /\ (r \notin Holidays => OccasionOf[r] \in S.seen)
        \/ r \in S.rems /\ c \in ChannelsFor(r, S.chans)
        \/ S.rem = r /\ c \in S.left
    BY <1>1, <1>4 DEF Ahead
  <2> QED BY <1>1, <1>2, <1>4, <2>1, AheadAfter, HoldingIs
<1> HIDE DEF Ahead, LocalsFit
<1> QED BY <1>0, <1>1, <1>2, <1>3, <1>4, CallCounts, HoldingIs DEF Progress

\* The loop of a delivery goes on: only the channel that was in hand is behind it.
LEMMA NextChannelParts ==
  ASSUME QuietInv, NEW p \in Scanners, scan[p].pc \in {"send", "record"}, NextChannel(p),
         UNCHANGED <<settings, off, gone, lastScan>>
  PROVE  /\ LocalsFit(p)' /\ scan'[p].pc = "deliver" /\ scan'[p].ctx = scan[p].ctx
         /\ \A q \in Scanners \ {p} : scan'[q] = scan[q]
         /\ UNCHANGED failUntil =>
              \A r \in Reminders, c \in Channels :
                Ahead(p, r, c) /\ KeyOf(p) # <<r, c>> => Ahead(p, r, c)'
<1> DEFINE S == scan[p]
           ch == Idle.ch
<1>0. S \in ScanState /\ scan \in [Scanners -> ScanState] /\ LocalsFit(p)
  BY ScanParts
<1>1. Becomes(p, [S EXCEPT !.pc = "deliver", !.ch = ch, !.blind = FALSE])
  BY DEF NextChannel
<1> HIDE DEF ch
<1>2. /\ scan'[p].pc = "deliver" /\ scan'[p].ctx = S.ctx /\ scan'[p].snap = S.snap /\ scan'[p].at = S.at
      /\ scan'[p].todo = S.todo /\ scan'[p].seen = S.seen /\ scan'[p].chans = S.chans
      /\ scan'[p].rems = S.rems /\ scan'[p].rem = S.rem /\ scan'[p].dnow = S.dnow
      /\ scan'[p].left = S.left /\ \A q \in Scanners \ {p} : scan'[q] = scan[q]
  BY <1>0, <1>1 DEF ScanState, Becomes
<1>3. LocalsFit(p)'
  BY <1>0, <1>2, HoldingIs, LocalsFitAfter DEF LocalsFit
<1>4. ASSUME UNCHANGED failUntil, NEW r \in Reminders, NEW c \in Channels, Ahead(p, r, c),
             KeyOf(p) # <<r, c>>
      PROVE  Ahead(p, r, c)'
  <2>1. \/ Source(r) \in S.todo /\ (r \notin Holidays => OccasionOf[r] \in S.seen)
        \/ r \in S.rems /\ c \in ChannelsFor(r, S.chans)
        \/ S.rem = r /\ c \in S.left
    BY <1>4 DEF Ahead, KeyOf
  <2> QED BY <1>2, <1>4, <2>1, AheadAfter, HoldingIs
<1> HIDE DEF Ahead, LocalsFit
<1> QED BY <1>2, <1>3, <1>4

\* Credentials that yield no notifier are a fault.
LEMMA ResolveFailsProgress ==
  ASSUME QuietInv, NEW p \in Scanners, ResolveFails(p)
  PROVE  Progress(p)
<1> USE DEF dbVars, historyVars
<1>1. /\ scan[p].pc = "send" /\ NextChannel(p) /\ faults < MaxFaults /\ faults' = faults + 1
      /\ UNCHANGED <<settings, off, gone, log, failUntil, now, lastScan>>
  BY DEF ResolveFails, Fault
<1>2. \A k \in Keys : log[k] # "missed"
  BY ScanParts
<1> HIDE DEF Ahead, LocalsFit
<1> QED BY <1>1, <1>2, NextChannelParts, HoldingIs DEF Progress

\* The push is accepted, its row still to be written.
LEMMA SendOKProgress ==
  ASSUME QuietInv, NEW p \in Scanners, SendOK(p)
  PROVE  Progress(p)
<1> USE DEF dbVars, worldVars, historyVars
<1> DEFINE S == scan[p]
<1>0. /\ S \in ScanState /\ scan \in [Scanners -> ScanState] /\ LocalsFit(p)
      /\ \A k \in Keys : log[k] # "missed"
  BY ScanParts
<1>1. /\ S.pc = "send" /\ faults' = faults
      /\ UNCHANGED <<settings, off, gone, log, failUntil, now, lastScan>>
      /\ Becomes(p, [S EXCEPT !.pc = "record"])
  BY DEF SendOK
<1>2. /\ scan'[p].pc = "record" /\ scan'[p].ctx = S.ctx /\ scan'[p].snap = S.snap /\ scan'[p].at = S.at
      /\ scan'[p].todo = S.todo /\ scan'[p].seen = S.seen /\ scan'[p].chans = S.chans
      /\ scan'[p].rems = S.rems /\ scan'[p].rem = S.rem /\ scan'[p].dnow = S.dnow
      /\ scan'[p].left = S.left /\ scan'[p].ch = S.ch
      /\ \A q \in Scanners \ {p} : scan'[q] = scan[q]
  BY <1>0, <1>1 DEF ScanState, Becomes
<1>3. LocalsFit(p)'
  BY <1>0, <1>1, <1>2, HoldingIs, LocalsFitAfter DEF LocalsFit
<1>4. ASSUME NEW r \in Reminders, NEW c \in Channels, Ahead(p, r, c)
      PROVE  Ahead(p, r, c)'
  <2>1. \/ Source(r) \in S.todo /\ (r \notin Holidays => OccasionOf[r] \in S.seen)
        \/ r \in S.rems /\ c \in ChannelsFor(r, S.chans)
        \/ S.rem = r /\ (c \in S.left \/ c = S.ch)
    BY <1>1, <1>4 DEF Ahead
  <2> QED BY <1>1, <1>2, <1>4, <2>1, AheadAfter, HoldingIs
<1> HIDE DEF Ahead, LocalsFit
<1> QED BY <1>0, <1>1, <1>2, <1>3, <1>4, HoldingIs DEF Progress

\* A failed send rests its channel from the delivery's clock, which this scan set.
LEMMA SendFailsProgress ==
  ASSUME QuietInv, NEW p \in Scanners, SendFails(p)
  PROVE  Progress(p)
<1> USE DEF dbVars, historyVars
<1>0. /\ scan[p] \in ScanState /\ TypeOK /\ now <= lastScan + ScanGap /\ now \in Nat
      /\ lastScan \in Nat /\ \A k \in Keys : log[k] # "missed"
  BY ScanParts
<1>1. /\ scan[p].pc = "send" /\ NextChannel(p) /\ CallFails(p)
      /\ UNCHANGED <<settings, off, gone, log, now, lastScan>>
      /\ failUntil' = [failUntil EXCEPT ![scan[p].ch] = RestUntil(p)]
  BY DEF SendFails
<1>2. RestUntil(p) <= lastScan + ScanGap + FailBackoff
  <2>1. scan[p].dnow <= now /\ scan[p].dnow \in Nat
    BY <1>0 DEF QuietInv, IInv, ScanInvariant, ScanState
  <2> QED BY <1>0, <2>1, TimingAssumption DEF RestUntil
<1>3. \A c \in Channels :
        failUntil'[c] = failUntil[c] \/ failUntil'[c] <= lastScan + ScanGap + FailBackoff
  BY <1>0, <1>1, <1>2 DEF TypeOK
<1> HIDE DEF Ahead, LocalsFit
<1> QED BY <1>0, <1>1, <1>3, NextChannelParts, CallCounts, HoldingIs DEF Progress

\* The row of the push: the pair is decided, or a fault is spent.
LEMMA RecordSentProgress ==
  ASSUME QuietInv, NEW p \in Scanners, RecordSent(p)
  PROVE  Progress(p)
<1> USE DEF dbVars, historyVars
<1>0. scan[p] \in ScanState /\ TypeOK /\ Clocks /\ \A k \in Keys : log[k] # "missed"
  BY ScanParts
<1>1. /\ scan[p].pc = "record" /\ NextChannel(p)
      /\ UNCHANGED <<settings, off, gone, failUntil, now, lastScan>>
  BY DEF RecordSent
<1>2. KeyOf(p) \in Keys /\ ~Withdrawn(KeyOf(p))
  BY <1>0, WantedIs DEF ScanState, KeyOf, Keys
<1>3. \/ faults' = faults /\ InsertRow(KeyOf(p), "sent")
      \/ CallFails(p) /\ log' = log
  BY <1>2, CallCounts DEF RecordSent
<1>4. \A k \in Keys : log'[k] # "missed" /\ (log'[k] = "none" => log[k] = "none")
  BY <1>0, <1>2, <1>3 DEF InsertRow, TypeOK
<1>5. CASE faults' = faults /\ InsertRow(KeyOf(p), "sent")
  <2>1. log'[KeyOf(p)] # "none"
    BY <1>0, <1>2, <1>5 DEF InsertRow, TypeOK
  <2>2. \A r \in Reminders, c \in Channels :
          log'[<<r, c>>] = "none" /\ Ahead(p, r, c) => Ahead(p, r, c)'
    BY <1>1, <2>1, NextChannelParts
  <2> HIDE DEF Ahead, LocalsFit
  <2> QED BY <1>1, <1>4, <1>5, <2>2, NextChannelParts, HoldingIs DEF Progress
<1>6. CASE CallFails(p) /\ log' = log
  BY <1>1, <1>4, <1>6, NextChannelParts, CallCounts, HoldingIs DEF Progress
<1> QED BY <1>3, <1>5, <1>6

\* A loop ends only when nothing wanted is left in it.
LEMMA AdvanceProgress ==
  ASSUME QuietInv, NEW p \in Scanners, Advance(p)
  PROVE  Progress(p)
<1> USE DEF dbVars, worldVars, historyVars
<1> DEFINE S == scan[p]
           rem == Idle.rem
<1>0. /\ S \in ScanState /\ scan \in [Scanners -> ScanState] /\ LocalsFit(p)
      /\ \A k \in Keys : log[k] # "missed"
  BY ScanParts
<1>1. /\ UNCHANGED <<settings, off, gone, log, failUntil, now, lastScan>> /\ faults' = faults
      /\ \/ /\ S.pc \in {"deliver", "missed"} /\ S.left = {}
            /\ Becomes(p, [S EXCEPT !.pc = "reminders", !.rem = rem, !.dnow = 0])
         \/ /\ S.pc = "reminders" /\ S.rems = {}
            /\ Becomes(p, [S EXCEPT !.pc = "sources", !.chans = {}])
         \/ S.pc = "sources" /\ S.todo = {} /\ Becomes(p, Idle)
  BY DEF Advance, Release
<1>i. Idle.pc = "idle"
  BY DEF Idle
<1> HIDE DEF rem
<1>2. CASE /\ S.pc \in {"deliver", "missed"} /\ S.left = {}
           /\ Becomes(p, [S EXCEPT !.pc = "reminders", !.rem = rem, !.dnow = 0])
  <2>1. /\ scan'[p].pc = "reminders" /\ scan'[p].ctx = S.ctx /\ scan'[p].snap = S.snap
        /\ scan'[p].at = S.at /\ scan'[p].todo = S.todo /\ scan'[p].seen = S.seen
        /\ scan'[p].chans = S.chans /\ scan'[p].rems = S.rems
        /\ \A q \in Scanners \ {p} : scan'[q] = scan[q]
    BY <1>0, <1>2 DEF ScanState, Becomes
  <2>2. LocalsFit(p)'
    BY <1>0, <1>1, <1>2, <2>1, HoldingIs, LocalsFitAfter DEF LocalsFit
  <2>3. ASSUME NEW r \in Reminders, NEW c \in Channels, Ahead(p, r, c) PROVE Ahead(p, r, c)'
    <3>1. \/ Source(r) \in S.todo /\ (r \notin Holidays => OccasionOf[r] \in S.seen)
          \/ r \in S.rems /\ c \in ChannelsFor(r, S.chans)
      BY <1>2, <2>3 DEF Ahead
    <3> QED BY <1>1, <2>1, <2>3, <3>1, AheadAfter, HoldingIs
  <2> HIDE DEF Ahead, LocalsFit
  <2> QED BY <1>0, <1>1, <1>2, <2>1, <2>2, <2>3, HoldingIs DEF Progress
<1>3. CASE /\ S.pc = "reminders" /\ S.rems = {}
           /\ Becomes(p, [S EXCEPT !.pc = "sources", !.chans = {}])
  <2>1. /\ scan'[p].pc = "sources" /\ scan'[p].ctx = S.ctx /\ scan'[p].snap = S.snap
        /\ scan'[p].at = S.at /\ scan'[p].todo = S.todo /\ scan'[p].seen = S.seen
        /\ \A q \in Scanners \ {p} : scan'[q] = scan[q]
    BY <1>0, <1>3 DEF ScanState, Becomes
  <2>2. LocalsFit(p)'
    BY <1>0, <1>1, <1>3, <2>1, HoldingIs, LocalsFitAfter DEF LocalsFit
  <2>3. ASSUME NEW r \in Reminders, NEW c \in Channels, Ahead(p, r, c) PROVE Ahead(p, r, c)'
    <3>1. Source(r) \in S.todo /\ (r \notin Holidays => OccasionOf[r] \in S.seen)
      BY <1>3, <2>3 DEF Ahead
    <3> QED BY <1>1, <2>1, <2>3, <3>1, AheadAfter, HoldingIs
  <2> HIDE DEF Ahead, LocalsFit
  <2> QED BY <1>0, <1>1, <1>3, <2>1, <2>2, <2>3, HoldingIs DEF Progress
<1>4. CASE S.pc = "sources" /\ S.todo = {} /\ Becomes(p, Idle)
  <2>1. scan'[p].pc = "idle" /\ \A q \in Scanners \ {p} : scan'[q] = scan[q]
    BY <1>0, <1>4, <1>i DEF Becomes
  <2>2. LocalsFit(p)'
    BY <1>1, <2>1, HoldingIs, LocalsFitAfter
  <2>3. \A r \in Reminders, c \in Channels : ~Ahead(p, r, c)
    BY <1>4 DEF Ahead
  <2> HIDE DEF Ahead, LocalsFit
  <2> QED BY <1>0, <1>1, <1>4, <2>1, <2>2, <2>3, HoldingIs DEF Progress
<1> QED BY <1>1, <1>2, <1>3, <1>4

-----------------------------------------------------------------------------
(* The steps outside the scans.                                             *)

\* One goroutine's step lets its own fault become pending, be spent, or neither.
LEMMA PendingMoves ==
  ASSUME TypeOK, Clocks, NEW p \in Scanners, settings' = settings,
         \A q \in Scanners \ {p} : scan'[q] = scan[q]
  PROVE  /\ p \in Pending' => Pending' = Pending \cup {p}
         /\ p \notin Pending' => Pending' = Pending \ {p}
         /\ IsFiniteSet(Pending') /\ Cardinality(Pending') \in Nat
         /\ Cardinality(Pending) \in Nat /\ (p \in Pending => Cardinality(Pending) >= 1)
         /\ Cardinality(Pending') =
              IF p \in Pending
              THEN IF p \in Pending' THEN Cardinality(Pending) ELSE Cardinality(Pending) - 1
              ELSE IF p \in Pending' THEN Cardinality(Pending) + 1 ELSE Cardinality(Pending)
<1>1. /\ p \in Pending' => Pending' = Pending \cup {p}
      /\ p \notin Pending' => Pending' = Pending \ {p}
  BY DEF Pending
<1>2. IsFiniteSet(Pending)
  BY DEF Clocks
<1>3. /\ IsFiniteSet(Pending \cup {p}) /\ IsFiniteSet(Pending \ {p})
      /\ Cardinality(Pending \cup {p}) =
           IF p \in Pending THEN Cardinality(Pending) ELSE Cardinality(Pending) + 1
      /\ Cardinality(Pending \ {p}) =
           IF p \in Pending THEN Cardinality(Pending) - 1 ELSE Cardinality(Pending)
  BY <1>2, FS_AddElement, FS_RemoveElement
<1>4. /\ Cardinality(Pending) \in Nat /\ Cardinality(Pending \ {p}) \in Nat
      /\ Cardinality(Pending \cup {p}) \in Nat
  BY <1>2, <1>3, FS_CardinalityType
<1> HIDE DEF Pending
<1>5. CASE p \in Pending'
  <2>1. Pending' = Pending \cup {p}
    BY <1>1, <1>5
  <2> QED BY <1>1, <1>3, <1>4, <1>5, <2>1
<1>6. CASE p \notin Pending'
  <2>1. Pending' = Pending \ {p}
    BY <1>1, <1>6
  <2> QED BY <1>1, <1>3, <1>4, <1>6, <2>1
<1> QED BY <1>5, <1>6

\* A step that leaves the database, the marks and whoever is inside a scan alone.
LEMMA AmbientKeeps ==
  ASSUME QuietInv, IInv', Clocks', \A q \in Scanners : LocalsFit(q)', Spent <= Spent',
         UNCHANGED <<settings, off, gone, log, failUntil, lastScan>>,
         \A q \in Scanners :
           scan[q].pc \in Holding \/ scan'[q].pc \in Holding => scan'[q] = scan[q]
  PROVE  QuietInv'
<1>t. TypeOK /\ TypeOK' /\ Clocks
  BY DEF QuietInv, IInv
<1>1. ASSUME NEW r \in Reminders, NEW c \in Channels, Wanted(<<r, c>>)', log'[<<r, c>>] = "none"
      PROVE  OnTime(r, c)'
  <2>1. Wanted(<<r, c>>)
    BY <1>1, WantedStays
  <2>2. OnTime(r, c)
    BY <1>1, <2>1 DEF QuietInv, AllOnTime
  <2>3. Deadline(r) \in Nat /\ Deadline(r)' \in Nat /\ Deadline(r) <= Deadline(r)'
    BY <1>t, DeadlineMoves
  <2>4. SendAt(r, settings)' = SendAt(r, settings)
    BY DEF SendAt
  <2>5. \A q \in Scanners : Ahead(q, r, c) => Ahead(q, r, c)'
    <3> TAKE q \in Scanners
    <3>1. Ahead(q, r, c) => scan'[q] = scan[q]
      BY HoldingIs DEF Ahead
    <3> QED BY <2>4, <3>1 DEF Ahead, Source, ChannelsFor
  <2>6. /\ lastScan \in Nat /\ failUntil[c] \in Nat /\ ScanGap \in Nat /\ Setback \in Nat
    BY <1>t, SetbackIs DEF TypeOK
  <2>7. lastScan' <= Deadline(r)' /\ failUntil'[c] + ScanGap <= Deadline(r)'
    BY <2>2, <2>3, <2>6 DEF OnTime
  <2>8. \A q \in Scanners :
          scan'[q].pc \in Holding /\ ~scan'[q].ctx => lastScan' + Setback <= Deadline(r)'
    BY <2>2, <2>3, <2>6 DEF OnTime
  <2>9. \/ lastScan' < SendAt(r, settings)' \/ lastScan' < failUntil'[c]
        \/ lastScan' + ScanGap <= Deadline(r)'
        \/ \E q \in Scanners : Ahead(q, r, c)'
    <3> HIDE DEF Ahead
    <3> QED BY <2>2, <2>3, <2>4, <2>5, <2>6 DEF OnTime
  <2> QED BY <2>7, <2>8, <2>9 DEF OnTime
<1> QED BY <1>1 DEF QuietInv, AllOnTime, CaughtUp

\* A snapshot that had to be the defaults is a fault not yet spent.
LEMMA TakeSnapshotKeeps ==
  ASSUME QuietInv, IInv', NEW p \in Scanners, TakeSnapshot(p)
  PROVE  QuietInv'
<1> USE DEF dbVars, historyVars
<1>t. TypeOK /\ TypeOK' /\ Clocks /\ scan \in [Scanners -> ScanState] /\ faults \in Nat
      /\ MaxFaults \in Nat
  BY TimingAssumption DEF QuietInv, IInv, TypeOK
<1>1. /\ scan[p].pc = "idle" /\ UNCHANGED <<settings, off, gone, log, failUntil, lastScan, now>>
      /\ \/ /\ faults' = faults
            /\ Becomes(p, [Idle EXCEPT !.pc = "waiting", !.snap = settings])
         \/ /\ faults < MaxFaults /\ faults' = faults + 1
            /\ Becomes(p, [Idle EXCEPT !.pc = "waiting", !.snap = DefaultSettings])
  BY DEF TakeSnapshot, Fault
<1>i. Idle \in ScanState /\ Idle.ctx = TRUE
  BY IdleType DEF Idle
<1>2. /\ scan'[p].pc = "waiting" /\ scan'[p].ctx = TRUE
      /\ scan'[p].snap \in {settings, DefaultSettings}
      /\ faults' = faults => scan'[p].snap = settings
      /\ \A q \in Scanners \ {p} : scan'[q] = scan[q]
  <2>1. CASE Becomes(p, [Idle EXCEPT !.pc = "waiting", !.snap = settings])
    BY <1>t, <1>i, <2>1 DEF ScanState, Becomes
  <2>2. CASE faults' = faults + 1
             /\ Becomes(p, [Idle EXCEPT !.pc = "waiting", !.snap = DefaultSettings])
    <3>1. faults' # faults
      BY <1>t, <2>2
    <3> QED BY <1>t, <1>i, <2>2, <3>1 DEF ScanState, Becomes
  <2> QED BY <1>1, <2>1, <2>2
<1>3. p \notin Pending /\ (p \in Pending' => faults' = faults + 1) /\ faults' \in {faults, faults + 1}
      /\ faults' <= MaxFaults
  BY <1>t, <1>1, <1>2 DEF Pending, Clocks
<1>4. Clocks' /\ Spent <= Spent'
  <2>1. /\ IsFiniteSet(Pending') /\ Cardinality(Pending') \in Nat /\ Cardinality(Pending) \in Nat
        /\ Cardinality(Pending') = IF p \in Pending' THEN Cardinality(Pending) + 1
                                   ELSE Cardinality(Pending)
    BY <1>t, <1>1, <1>2, <1>3, PendingMoves
  <2>2. Cardinality(Pending) <= faults
    BY <1>t DEF Clocks
  <2> HIDE DEF Pending
  <2>3. Cardinality(Pending') <= faults' /\ Spent <= Spent'
    BY <1>t, <1>3, <2>1, <2>2 DEF Spent
  <2> QED BY <1>t, <1>1, <1>3, <2>1, <2>3 DEF Clocks
<1>5. ASSUME NEW q \in Scanners PROVE LocalsFit(q)'
  <2>1. CASE q = p
    BY <1>1, <1>2, <2>1, HoldingIs, LocalsFitAfter
  <2>2. CASE q # p
    <3>1. LocalsFit(q) /\ scan'[q] = scan[q]
      BY <1>2, <2>2 DEF QuietInv
    <3> QED BY <1>1, <3>1, LocalsFitAfter DEF LocalsFit
  <2> QED BY <2>1, <2>2
<1>6. \A q \in Scanners :
        scan[q].pc \in Holding \/ scan'[q].pc \in Holding => scan'[q] = scan[q]
  BY <1>1, <1>2, HoldingIs
<1> QED BY <1>1, <1>4, <1>5, <1>6, AmbientKeeps

\* A request that goes away spoils the scan it has, or the one it waits for.
LEMMA CancelRequestKeeps ==
  ASSUME QuietInv, IInv', NEW p \in Scanners, CancelRequest(p)
  PROVE  QuietInv'
<1> USE DEF dbVars, historyVars
<1> DEFINE S == scan[p]
<1>t. /\ TypeOK /\ TypeOK' /\ Clocks /\ scan \in [Scanners -> ScanState] /\ faults \in Nat
      /\ MaxFaults \in Nat /\ S \in ScanState /\ LocalsFit(p) /\ \A k \in Keys : log[k] # "missed"
  BY TimingAssumption, ScanParts DEF QuietInv, IInv, TypeOK
<1>1. /\ S.pc # "idle" /\ S.ctx /\ faults < MaxFaults /\ faults' = faults + 1
      /\ UNCHANGED <<settings, off, gone, log, failUntil, lastScan, now>>
      /\ Becomes(p, [S EXCEPT !.ctx = FALSE])
  BY DEF CancelRequest, Fault
<1>2. /\ scan'[p].pc = S.pc /\ scan'[p].ctx = FALSE /\ scan'[p].snap = S.snap /\ scan'[p].at = S.at
      /\ scan'[p].todo = S.todo /\ scan'[p].seen = S.seen /\ scan'[p].chans = S.chans
      /\ scan'[p].rems = S.rems /\ scan'[p].rem = S.rem /\ scan'[p].dnow = S.dnow
      /\ scan'[p].left = S.left /\ \A q \in Scanners \ {p} : scan'[q] = scan[q]
  BY <1>t, <1>1 DEF ScanState, Becomes
<1>3. LocalsFit(p)'
  BY <1>t, <1>1, <1>2, LocalsFitAfter DEF LocalsFit
<1>4. CASE S.pc \in Holding
  <2>1. Progress(p)
    <3>1. faults' # faults
      BY <1>t, <1>1
    <3>2. \A c \in Channels : failUntil'[c] = failUntil[c]
      BY <1>1
    <3> HIDE DEF LocalsFit, Ahead
    <3> QED BY <1>t, <1>1, <1>2, <1>3, <1>4, <3>1, <3>2 DEF Progress
  <2> QED BY <2>1, ProgressKeeps
<1>5. CASE S.pc \notin Holding
  <2>1. S.pc = "waiting"
    BY <1>t, <1>1, <1>5 DEF ScanState, Holding
  <2>2. p \in Pending'
    BY <1>2, <2>1 DEF Pending
  <2>3. Clocks' /\ Spent <= Spent'
    <3>1. /\ IsFiniteSet(Pending') /\ Cardinality(Pending') \in Nat /\ Cardinality(Pending) \in Nat
          /\ Cardinality(Pending') \in {Cardinality(Pending), Cardinality(Pending) + 1}
      BY <1>t, <1>1, <1>2, <2>2, PendingMoves
    <3>2. Cardinality(Pending) <= faults
      BY <1>t DEF Clocks
    <3> HIDE DEF Pending
    <3>3. Cardinality(Pending') <= faults' /\ Spent <= Spent' /\ faults' <= MaxFaults
      BY <1>t, <1>1, <3>1, <3>2 DEF Spent
    <3> QED BY <1>t, <1>1, <3>1, <3>3 DEF Clocks
  <2>4. ASSUME NEW q \in Scanners PROVE LocalsFit(q)'
    <3>1. CASE q = p
      BY <1>3, <3>1
    <3>2. CASE q # p
      <4>1. LocalsFit(q) /\ scan'[q] = scan[q]
        BY <1>2, <3>2 DEF QuietInv
      <4> QED BY <1>1, <4>1, LocalsFitAfter DEF LocalsFit
    <3> QED BY <3>1, <3>2
  <2>5. \A q \in Scanners :
          scan[q].pc \in Holding \/ scan'[q].pc \in Holding => scan'[q] = scan[q]
    BY <1>2, <1>5
  <2> QED BY <1>1, <2>3, <2>4, <2>5, AmbientKeeps
<1> QED BY <1>4, <1>5

\* A scan that gets the mutex is early enough, sound or not.
LEMMA LockKeeps ==
  ASSUME QuietInv, IInv', NEW p \in Scanners, Lock(p)
  PROVE  QuietInv'
<1> USE DEF dbVars, worldVars
<1> DEFINE S == scan[p]
<1>t. /\ TypeOK /\ TypeOK' /\ Clocks /\ scan \in [Scanners -> ScanState] /\ faults \in Nat
      /\ S \in ScanState /\ LocalsFit(p) /\ now \in Nat /\ lastScan \in Nat
      /\ lastScan <= now /\ now <= lastScan + ScanGap
  BY ScanParts DEF QuietInv, IInv, TypeOK
<1>1. /\ S.pc = "waiting" /\ mu = Free /\ lastScan' = now
      /\ UNCHANGED <<settings, off, gone, log, failUntil, faults, now>>
      /\ Becomes(p, [S EXCEPT !.pc = "listing", !.at = now, !.todo = Contacts])
  BY DEF Lock
<1>2. /\ scan'[p].pc = "listing" /\ scan'[p].ctx = S.ctx /\ scan'[p].snap = S.snap
      /\ scan'[p].at = now /\ scan'[p].todo = Contacts
      /\ \A q \in Scanners \ {p} : scan'[q] = scan[q]
  BY <1>t, <1>1 DEF ScanState, Becomes
<1>3. \A q \in Scanners : scan[q].pc \notin Holding
  BY <1>1, ScannersAssumption DEF QuietInv, IInv, ScanInvariant
<1>4. /\ p \notin Pending' /\ IsFiniteSet(Pending') /\ Cardinality(Pending') \in Nat
      /\ Cardinality(Pending) \in Nat
      /\ p \in Pending => Cardinality(Pending') = Cardinality(Pending) - 1
      /\ p \notin Pending => Cardinality(Pending') = Cardinality(Pending)
  <2>1. p \notin Pending'
    BY <1>2 DEF Pending
  <2> HIDE DEF Pending
  <2> QED BY <1>t, <1>1, <1>2, <2>1, PendingMoves
<1>5. Clocks' /\ (p \in Pending => Spent < Spent') /\ (p \notin Pending => Spent = Spent')
  <2>1. Cardinality(Pending) <= faults /\ faults <= MaxFaults /\ off = {} /\ gone = {}
        /\ settings \in Settings
    BY <1>t DEF Clocks
  <2>2. Cardinality(Pending') <= faults'
    BY <1>t, <1>1, <1>4, <2>1
  <2>3. (p \in Pending => Spent < Spent') /\ (p \notin Pending => Spent = Spent')
    BY <1>t, <1>1, <1>4, <2>1 DEF Spent
  <2>4. lastScan' <= now' /\ now' <= lastScan' + ScanGap
    BY <1>t, <1>1, SetbackIs
  <2> QED BY <1>1, <1>4, <2>1, <2>2, <2>3, <2>4 DEF Clocks
<1>6. ASSUME NEW q \in Scanners PROVE LocalsFit(q)'
  <2>1. CASE q = p
    <3>1. S.snap \in {settings, DefaultSettings}
      BY <1>t, <1>1 DEF LocalsFit
    <3> QED BY <1>1, <1>2, <2>1, <3>1 DEF LocalsFit
  <2>2. CASE q # p
    <3>1. LocalsFit(q) /\ scan'[q] = scan[q] /\ scan[q].pc \notin Holding
      BY <1>2, <1>3, <2>2 DEF QuietInv
    <3> QED BY <1>1, <3>1, HoldingIs DEF LocalsFit
  <2> QED BY <2>1, <2>2
<1>7. ASSUME NEW r \in Reminders, NEW c \in Channels, Wanted(<<r, c>>)', log'[<<r, c>>] = "none"
      PROVE  OnTime(r, c)'
  <2>1. Wanted(<<r, c>>) /\ log[<<r, c>>] = "none"
    BY <1>1, <1>7, WantedStays
  <2>2. OnTime(r, c)
    BY <2>1 DEF QuietInv, AllOnTime
  <2>3. /\ failUntil[c] \in Nat /\ ScanGap \in Nat /\ Setback \in Nat
        /\ SendAt(r, settings) \in Nat /\ SendAt(r, settings) + ScanGap <= Deadline(r)
        /\ Deadline(r) \in Nat /\ Deadline(r)' \in Nat
        /\ Spent < Spent' => Deadline(r) + Setback <= Deadline(r)'
    BY <1>t, <1>1, <1>5, SetbackIs, SendAtIs, DeadlineIs, DeadlineMoves DEF TypeOK
  <2>4. now <= Deadline(r)
    <3>1. \A q \in Scanners : ~Ahead(q, r, c)
      BY <1>3, HoldingIs DEF Ahead
    <3>2. \/ lastScan < SendAt(r, settings) \/ lastScan < failUntil[c]
          \/ lastScan + ScanGap <= Deadline(r)
      BY <2>2, <3>1 DEF OnTime
    <3>3. failUntil[c] + ScanGap <= Deadline(r)
      BY <2>2 DEF OnTime
    <3> QED BY <1>t, <2>3, <3>2, <3>3
  <2>5. SendAt(r, settings)' = SendAt(r, settings)
    BY <1>1 DEF SendAt
  <2>6. CASE p \in Pending
    <3>1. Deadline(r) + Setback <= Deadline(r)' /\ ScanGap <= Setback
      <4>1. ScanGap <= Setback
        BY SetbackIs, TimingAssumption
      <4>2. Spent < Spent'
        BY <1>5, <2>6
      <4> QED BY <2>3, <4>1, <4>2
    <3>2. lastScan' + Setback <= Deadline(r)' /\ lastScan' <= Deadline(r)'
          /\ lastScan' + ScanGap <= Deadline(r)'
      BY <1>t, <1>1, <2>3, <2>4, <3>1
    <3>3. failUntil'[c] + ScanGap <= Deadline(r)'
      BY <1>1, <2>2, <2>3, <3>1 DEF OnTime
    <3> QED BY <3>2, <3>3 DEF OnTime
  <2>7. CASE p \notin Pending
    <3>1. Deadline(r)' = Deadline(r)
      BY <1>5, <2>5, <2>7 DEF Deadline
    <3>2. S.ctx /\ S.snap = settings
      BY <1>1, <2>7 DEF Pending
    <3>3. lastScan' <= Deadline(r)' /\ failUntil'[c] + ScanGap <= Deadline(r)'
      BY <1>1, <2>2, <2>4, <3>1 DEF OnTime
    <3>4. \A q \in Scanners : ~(scan'[q].pc \in Holding /\ ~scan'[q].ctx)
      BY <1>2, <1>3, <3>2
    <3>5. lastScan' < SendAt(r, settings)' \/ lastScan' < failUntil'[c] \/ Ahead(p, r, c)'
      <4>1. SUFFICES ASSUME SendAt(r, settings) <= now, failUntil[c] <= now
                     PROVE  Ahead(p, r, c)'
        BY <1>t, <1>1, <2>3, <2>5
      <4>2. r \notin Holidays => Source(r) \in Contacts
        BY RemindersAssumption DEF Source
      <4>3. Source(r)' = Source(r)
        BY DEF Source
      <4> QED BY <1>1, <1>2, <2>5, <3>2, <4>1, <4>2, <4>3 DEF Ahead
    <3> HIDE DEF Ahead
    <3> QED BY <3>3, <3>4, <3>5 DEF OnTime
  <2> QED BY <2>6, <2>7
<1>8. CaughtUp'
  BY <1>1 DEF QuietInv, CaughtUp
<1> QED BY <1>5, <1>6, <1>7, <1>8 DEF QuietInv, AllOnTime

\* A crash spends every fault there was, its own included.
LEMMA CrashKeeps ==
  ASSUME QuietInv, IInv', NEW d \in 0 .. MaxDowntime, Crash(d)
  PROVE  QuietInv'
<1> USE DEF dbVars
<1>t. /\ TypeOK /\ TypeOK' /\ Clocks /\ faults \in Nat /\ MaxFaults \in Nat
      /\ now \in Nat /\ lastScan \in Nat /\ d \in Nat /\ d <= MaxDowntime /\ MaxDowntime \in Nat
      /\ lastScan <= now /\ now <= lastScan + ScanGap
  BY TimingAssumption DEF QuietInv, IInv, TypeOK, Clocks
<1>1. /\ faults < MaxFaults /\ faults' = faults + 1
      /\ now' = now + d /\ lastScan' = now + d
      /\ failUntil' = [c \in Channels |-> 0] /\ scan' = [q \in Scanners |-> Idle]
      /\ UNCHANGED <<settings, off, gone, log>>
  BY DEF Crash, Fault
<1>2. \A q \in Scanners : scan'[q].pc = "idle"
  BY <1>1 DEF Idle
<1>3. Pending' = {}
  BY <1>2 DEF Pending
<1>4. IsFiniteSet({}) /\ Cardinality({}) = 0
  BY FS_EmptySet
<1>5. Clocks' /\ Spent < Spent'
  <2>1. Spent' = faults + 1
    BY <1>t, <1>1, <1>3, <1>4 DEF Spent
  <2>2. Cardinality(Pending) \in Nat
    BY <1>t, SpentIs
  <2>3. Spent < Spent'
    BY <1>t, <2>1, <2>2 DEF Spent
  <2>4. lastScan' <= now' /\ now' <= lastScan' + ScanGap /\ faults' <= MaxFaults
    BY <1>t, <1>1, SetbackIs
  <2> QED BY <1>t, <1>1, <1>3, <1>4, <2>3, <2>4 DEF Clocks
<1>6. \A q \in Scanners : LocalsFit(q)'
  BY <1>2, HoldingIs DEF LocalsFit
<1>7. ASSUME NEW r \in Reminders, NEW c \in Channels, Wanted(<<r, c>>)', log'[<<r, c>>] = "none"
      PROVE  OnTime(r, c)'
  <2>1. Wanted(<<r, c>>) /\ log[<<r, c>>] = "none"
    BY <1>1, <1>7, WantedStays
  <2>2. lastScan <= Deadline(r)
    BY <2>1 DEF QuietInv, AllOnTime, OnTime
  <2>3. /\ ScanGap \in Nat /\ Setback \in Nat /\ Deadline(r) \in Nat /\ Deadline(r)' \in Nat
        /\ Deadline(r) + Setback <= Deadline(r)' /\ 2 * ScanGap + MaxDowntime <= Setback
    BY <1>t, <1>1, <1>5, SetbackIs, DeadlineMoves
  <2>4. lastScan' + ScanGap <= Deadline(r)'
    BY <1>t, <1>1, <2>2, <2>3
  <2>5. lastScan' <= Deadline(r)' /\ failUntil'[c] + ScanGap <= Deadline(r)'
    BY <1>t, <1>1, <2>3, <2>4
  <2> QED BY <1>2, <2>4, <2>5, HoldingIs DEF OnTime
<1>8. CaughtUp'
  BY <1>1 DEF QuietInv, CaughtUp
<1> QED BY <1>5, <1>6, <1>7, <1>8 DEF QuietInv, AllOnTime

\* Time passes no further than the next scan.
LEMMA TickKeeps ==
  ASSUME QuietInv, IInv', Tick \/ UNCHANGED vars
  PROVE  QuietInv'
<1> USE DEF dbVars, worldVars, historyVars, vars
<1>t. /\ TypeOK /\ Clocks /\ now \in Nat /\ lastScan \in Nat /\ ScanGap \in Nat
  BY SetbackIs DEF QuietInv, IInv, TypeOK
<1>1. /\ UNCHANGED <<settings, off, gone, log, failUntil, scan, faults, lastScan>>
      /\ \/ now' = now
         \/ now' = now + 1 /\ now < lastScan + ScanGap
  BY DEF Tick
<1>2. Pending' = Pending /\ Spent' = Spent
  BY <1>1 DEF Pending, Spent
<1>3. Clocks'
  BY <1>t, <1>1, <1>2 DEF Clocks
<1>4. ASSUME NEW q \in Scanners PROVE LocalsFit(q)'
  <2>1. LocalsFit(q)
    BY DEF QuietInv
  <2> QED BY <1>1, <2>1, LocalsFitAfter DEF LocalsFit
<1>5. Spent <= Spent'
  BY <1>t, <1>2, SpentIs
<1> QED BY <1>1, <1>3, <1>4, <1>5, AmbientKeeps

\* At the start nothing is late.
LEMMA QuietBegins == Init => QuietInv
<1> SUFFICES ASSUME Init PROVE QuietInv
  OBVIOUS
<1>1. IInv /\ TypeOK
  BY InitInvariant DEF IInv
<1>2. \A q \in Scanners : scan[q].pc = "idle"
  BY DEF Init, Idle
<1>3. Pending = {} /\ IsFiniteSet({}) /\ Cardinality({}) = 0
  BY <1>2, FS_EmptySet DEF Pending
<1>4. Clocks
  BY <1>3, TimingAssumption DEF Init, Clocks
<1>5. \A q \in Scanners : LocalsFit(q)
  BY <1>2, HoldingIs DEF LocalsFit
<1>6. ASSUME NEW r \in Reminders, NEW c \in Channels PROVE OnTime(r, c)
  <2>1. /\ Deadline(r) \in Nat /\ SendAt(r, settings) + ScanGap <= Deadline(r)
        /\ SendAt(r, settings) \in Nat /\ ScanGap \in Nat
    BY <1>1, <1>4, DeadlineIs, SendAtIs, SetbackIs DEF TypeOK
  <2>2. lastScan = 0 /\ failUntil[c] = 0
    BY DEF Init
  <2> QED BY <1>2, <2>1, <2>2, HoldingIs DEF OnTime
<1>7. CaughtUp
  BY DEF Init, CaughtUp
<1> QED BY <1>1, <1>4, <1>5, <1>6, <1>7 DEF QuietInv, AllOnTime

\* No step of the system makes a pair late, while nobody edits.
LEMMA QuietGoesOn ==
  ASSUME WindowSuffices, QuietInv, [SystemNext]_vars
  PROVE  QuietInv'
<1>i. IInv'
  BY NextInvariant DEF QuietInv, Next
<1>1. ASSUME NEW p \in Scanners, ScanStep(p) PROVE QuietInv'
  <2>1. Progress(p)
    BY <1>1, ReadContactProgress, ListingFailsProgress, StartSendingProgress, OpenSourceProgress,
       BeginReminderProgress, RecordMissedProgress, SkipChannelProgress, AttemptProgress,
       ResolveFailsProgress, SendOKProgress, SendFailsProgress, RecordSentProgress, AdvanceProgress
       DEF ScanStep
  <2> QED BY <1>i, <2>1, ProgressKeeps
<1> QED
  BY <1>i, <1>1, TakeSnapshotKeeps, CancelRequestKeeps, LockKeeps, CrashKeeps, TickKeeps
     DEF SystemNext

\* While nobody edits anything, no reminder is ever given up: whatever fails, whenever the
\* process dies and whichever requests go away, MaxFaults of them in all, every scan that
\* would find a window over finds the row that an earlier one wrote.
THEOREM NothingIsMissed == ASSUME WindowSuffices PROVE QuietSpec => []CaughtUp
<1>1. Init => QuietInv
  BY QuietBegins
<1>2. QuietInv /\ [SystemNext]_vars => QuietInv'
  BY QuietGoesOn
<1>3. QuietInv => CaughtUp
  BY DEF QuietInv
<1> QED BY <1>1, <1>2, <1>3, PTL DEF QuietSpec
=============================================================================
