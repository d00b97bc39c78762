------------------------- MODULE ContactPrefsProofs -------------------------
(***************************************************************************)
(* Proofs about ContactPrefs for any channels and offsets and any number   *)
(* of PUTs, losses and deleted channels.                                   *)
(***************************************************************************)
EXTENDS ContactPrefs, SequenceTheorems, TLAPS

\* A field of the row p was sent by some client, or is the first one.
Sent(p, f) ==
  \/ p[f] = FirstPrefs[f]
  \/ \E n \in DOMAIN requests : f \in requests[n].sent /\ p[f] = requests[n].body[f]

\* A row in a handler's hands is made of fields that were sent, and as long as no
\* other has been written it differs from the stored one in what its client sent only.
MergedOK ==
  \A n \in DOMAIN requests :
    /\ requests[n].seen <= writes
    /\ requests[n].st = "merged" =>
         /\ \A f \in PrefFields : Sent(requests[n].row, f)
         /\ exists /\ requests[n].seen = writes =>
              requests[n].row = Merged(requests[n].body, requests[n].sent, prefs)

Unread == \E n \in DOMAIN requests : requests[n].st = "written"

\* Where the page is behind the server, an answer or a read that will make it good is
\* still to come.
ShownOK ==
  exists =>
    /\ trust = "full" =>
         \/ Unread \/ load.st = "asked"
         \/ load.st = "answered" /\ load.prefs = prefs
         \/ load.st = "none" /\ shown = prefs
    /\ trust = "read" => load.st = "answered" /\ (Unread \/ load.prefs = prefs)

TabOK == ~edited => tab = FormOf(shown)

\* Before a patient client's newest PUT has been written the stored selection is what
\* was wanted before it; none but the newest is under way.
Newest == Len(requests)
PatientOK ==
  ~hasty /\ exists =>
    /\ \A n \in DOMAIN requests : InFlight(n) => n = Newest
    /\ (\A n \in DOMAIN requests : requests[n].st \notin {"failed", "refused"}) =>
         IF Newest > 0 /\ requests[Newest].st \in {"sent", "merged"} /\ "channels" \in requests[Newest].sent
         THEN requests[Newest].body.channels = wanted
         ELSE prefs.channels = wanted
    /\ \A n \in DOMAIN requests : requests[n].st = "merged" => requests[n].seen = writes

PrefsInv == PrefsTypeOK /\ NoOrphanPrefs /\ FieldsWereSent /\ MergedOK /\ ShownOK /\ TabOK /\ PatientOK

\* What a step does to the PUTs: nothing, one more, or one of them a stage further.
Resting ==
  UNCHANGED <<prefs, exists, requests, writes, wanted, hasty>>

Sends == \E fields \in SUBSET PrefFields, body \in Prefs : Put(fields, body)

-----------------------------------------------------------------------------
(* Types.                                                                  *)

\* The default row and any merged row are rows.
LEMMA RowTypes ==
  /\ DefaultPrefs \in Prefs
  /\ \A body \in Prefs, row \in Prefs, fields \in SUBSET PrefFields :
       Merged(body, fields, row) \in Prefs
  /\ \A p \in Prefs : FormOf(p) \in [offsets : Offsets, enabled : BOOLEAN]
<1>1. DefaultPrefs \in Prefs
  BY PrefsAssumption DEF DefaultPrefs, Prefs
<1>2. ASSUME NEW body \in Prefs, NEW row \in Prefs, NEW fields \in SUBSET PrefFields
      PROVE  Merged(body, fields, row) \in Prefs
  BY <1>2 DEF Merged, Prefs
<1>3. ASSUME NEW p \in Prefs
      PROVE  FormOf(p) \in [offsets : Offsets, enabled : BOOLEAN]
  BY <1>3 DEF FormOf, Prefs
<1> QED BY <1>1, <1>2, <1>3

\* Every body that the page sends is a row.
LEMMA BodyTypes ==
  ASSUME PrefsTypeOK
  PROVE  /\ \A ch \in AllChannels : ToggleChip(ch) => Sends
         /\ SaveTab => Sends
         /\ ActivateAll => Sends
<1>1. \A ch \in AllChannels :
        [DefaultPrefs EXCEPT !.channels = Toggled(shown.channels, ch)] \in Prefs
  BY RowTypes DEF Toggled, PrefsTypeOK, Prefs
<1>2. [DefaultPrefs EXCEPT !.offsets = tab.offsets, !.enabled = tab.enabled] \in Prefs
  BY RowTypes DEF PrefsTypeOK, Prefs
<1>3. {"channels"} \in SUBSET PrefFields /\ {"offsets", "enabled"} \in SUBSET PrefFields
      /\ {"enabled"} \in SUBSET PrefFields
  BY DEF PrefFields
<1> QED BY <1>1, <1>2, <1>3, RowTypes DEF Sends, ToggleChip, SaveTab, ActivateAll

\* At first every variable holds a value of its kind.
LEMMA TypeInit == PrefsInit => PrefsTypeOK
<1> SUFFICES ASSUME PrefsInit PROVE PrefsTypeOK
  OBVIOUS
<1>1. prefs \in Prefs /\ shown \in Prefs /\ tab \in [offsets : Offsets, enabled : BOOLEAN]
  BY PrefsAssumption, RowTypes DEF PrefsInit
<1>2. load \in [st : {"none", "asked", "answered"}, prefs : Prefs]
  BY RowTypes DEF PrefsInit, NoLoad
<1>3. wanted \subseteq AllChannels
  BY <1>1 DEF PrefsInit, Prefs
<1>4. requests \in Seq(Request)
  BY DEF PrefsInit
<1> QED BY <1>1, <1>2, <1>3, <1>4 DEF PrefsInit, PrefsTypeOK

\* A PUT appended, and a PUT a stage further, are requests.
LEMMA RequestTypes ==
  ASSUME PrefsTypeOK
  PROVE  /\ \A fields \in SUBSET PrefFields, body \in Prefs :
              Put(fields, body) => /\ requests' \in Seq(Request)
                                   /\ Len(requests') = Len(requests) + 1
                                   /\ DOMAIN requests' = DOMAIN requests \cup {Len(requests')}
                                   /\ \A n \in DOMAIN requests : requests'[n] = requests[n]
                                   /\ requests'[Len(requests')] =
                                        [sent |-> fields, body |-> body, row |-> DefaultPrefs,
                                         seen |-> 0, st |-> "sent"]
         /\ \A n \in DOMAIN requests :
              requests[n] \in Request
<1> USE DEF PrefsTypeOK
<1>1. ASSUME NEW fields \in SUBSET PrefFields, NEW body \in Prefs, Put(fields, body)
      PROVE  /\ requests' \in Seq(Request)
             /\ Len(requests') = Len(requests) + 1
             /\ DOMAIN requests' = DOMAIN requests \cup {Len(requests')}
             /\ \A n \in DOMAIN requests : requests'[n] = requests[n]
             /\ requests'[Len(requests')] =
                  [sent |-> fields, body |-> body, row |-> DefaultPrefs, seen |-> 0, st |-> "sent"]
  <2> DEFINE r == [sent |-> fields, body |-> body, row |-> DefaultPrefs, seen |-> 0, st |-> "sent"]
  <2>1. r \in Request
    BY RowTypes DEF Request
  <2>2. requests' = Append(requests, r)
    BY <1>1 DEF Put
  <2> HIDE DEF r
  <2>3. /\ requests' \in Seq(Request) /\ Len(requests') = Len(requests) + 1
        /\ \A n \in 1 .. Len(requests) : requests'[n] = requests[n]
        /\ requests'[Len(requests) + 1] = r
    BY <2>1, <2>2
  <2>4. DOMAIN requests = 1 .. Len(requests) /\ DOMAIN requests' = 1 .. Len(requests')
        /\ Len(requests) \in Nat
    BY <2>3
  <2> QED BY <2>3, <2>4 DEF r
<1>2. \A n \in DOMAIN requests : requests[n] \in Request
  OBVIOUS
<1> QED BY <1>1, <1>2

\* The stages of a PUT.
Stage == {"sent", "merged", "written", "refused", "saved", "failed"}

\* One PUT a stage further: its body and its fields stay, and so do all others.
Stages(n, st, row, seen) ==
  requests' = [requests EXCEPT ![n].st = st, ![n].row = row, ![n].seen = seen]

\* A PUT a stage further is a PUT, and the others are what they were.
LEMMA StageTypes ==
  ASSUME PrefsTypeOK, NEW n \in DOMAIN requests, NEW st \in Stage, NEW row \in Prefs,
         NEW seen \in Nat, Stages(n, st, row, seen)
  PROVE  /\ requests' \in Seq(Request)
         /\ Len(requests') = Len(requests) /\ DOMAIN requests' = DOMAIN requests
         /\ \A m \in DOMAIN requests : m # n => requests'[m] = requests[m]
         /\ requests'[n] = [requests[n] EXCEPT !.st = st, !.row = row, !.seen = seen]
<1> DEFINE r == [requests[n] EXCEPT !.st = st, !.row = row, !.seen = seen]
<1>1. requests[n] \in Request
  BY RequestTypes
<1>2. r \in Request
  BY <1>1 DEF Request, Stage
<1>3. requests' = [requests EXCEPT ![n] = r]
  BY DEF Stages
<1> HIDE DEF r
<1>4. requests \in Seq(Request)
  BY DEF PrefsTypeOK
<1>5. requests' \in Seq(Request) /\ Len(requests') = Len(requests)
      /\ DOMAIN requests' = DOMAIN requests /\ requests'[n] = r
      /\ \A m \in DOMAIN requests : m # n => requests'[m] = requests[m]
  BY <1>2, <1>3, <1>4
<1> QED BY <1>5 DEF r

\* Each of the five steps of a PUT is a stage.
LEMMA StageSteps ==
  ASSUME PrefsTypeOK, NEW n \in DOMAIN requests
  PROVE  /\ PutSucceeds(n) => Stages(n, "saved", requests[n].row, requests[n].seen)
         /\ PutFails(n) => Stages(n, "failed", requests[n].row, requests[n].seen)
         /\ MergePrefs(n) =>
              Stages(n, "merged", Merged(requests[n].body, requests[n].sent, prefs), writes)
         /\ WritePrefs(n) => Stages(n, "written", DefaultPrefs, 0)
         /\ RefusePrefs(n) => Stages(n, "refused", DefaultPrefs, 0)
         /\ requests[n].row \in Prefs /\ requests[n].seen \in Nat /\ writes \in Nat
         /\ Merged(requests[n].body, requests[n].sent, prefs) \in Prefs
<1>1. requests[n] \in Request
  BY RequestTypes
<1>2. requests \in Seq(Request)
  BY DEF PrefsTypeOK
<1>3. \A s : [requests EXCEPT ![n].st = s] =
             [requests EXCEPT ![n].st = s, ![n].row = requests[n].row, ![n].seen = requests[n].seen]
  <2> TAKE s
  <2>1. [requests[n] EXCEPT !.st = s] =
        [requests[n] EXCEPT !.st = s, !.row = requests[n].row, !.seen = requests[n].seen]
    BY <1>1 DEF Request
  <2> QED BY <1>2, <2>1
<1>4. MergePrefs(n) =>
        Stages(n, "merged", Merged(requests[n].body, requests[n].sent, prefs), writes)
  BY <1>1, <1>2 DEF MergePrefs, Stages, Request
<1>5. requests[n].row \in Prefs /\ requests[n].seen \in Nat /\ writes \in Nat
      /\ Merged(requests[n].body, requests[n].sent, prefs) \in Prefs
  BY <1>1, RowTypes DEF PrefsTypeOK, Request
<1> QED BY <1>3, <1>4, <1>5 DEF PutSucceeds, PutFails, WritePrefs, RefusePrefs, Stages

\* Its body and its fields stay, its row is the new one.
LEMMA StageEffect ==
  ASSUME PrefsTypeOK, NEW n \in DOMAIN requests, NEW st \in Stage, NEW row \in Prefs,
         NEW seen \in Nat, Stages(n, st, row, seen)
  PROVE  /\ Len(requests') = Len(requests) /\ DOMAIN requests' = DOMAIN requests
         /\ \A m \in DOMAIN requests : /\ requests'[m].sent = requests[m].sent
                                       /\ requests'[m].body = requests[m].body
                                       /\ m # n => requests'[m] = requests[m]
         /\ requests'[n].st = st /\ requests'[n].row = row /\ requests'[n].seen = seen
<1>1. requests[n] \in Request
  BY RequestTypes
<1>2. requests'[n] = [requests[n] EXCEPT !.st = st, !.row = row, !.seen = seen]
  <2>1. requests \in Seq(Request)
    BY DEF PrefsTypeOK
  <2>2. requests' = [requests EXCEPT ![n] = [requests[n] EXCEPT !.st = st, !.row = row, !.seen = seen]]
    BY DEF Stages
  <2> QED BY <2>1, <2>2
<1>3. /\ Len(requests') = Len(requests) /\ DOMAIN requests' = DOMAIN requests
      /\ \A m \in DOMAIN requests : m # n => requests'[m] = requests[m]
  BY StageTypes
<1>4. /\ requests'[n].sent = requests[n].sent /\ requests'[n].body = requests[n].body
      /\ requests'[n].st = st /\ requests'[n].row = row /\ requests'[n].seen = seen
  BY <1>1, <1>2 DEF Request
<1> QED BY <1>3, <1>4

\* Every step of a PUT is some stage.
LEMMA OneStage ==
  ASSUME PrefsTypeOK, NEW n \in DOMAIN requests,
         PutSucceeds(n) \/ PutFails(n) \/ MergePrefs(n) \/ WritePrefs(n) \/ RefusePrefs(n)
  PROVE  \E st \in Stage, row \in Prefs, seen \in Nat : Stages(n, st, row, seen)
<1>1. DefaultPrefs \in Prefs /\ 0 \in Nat
  BY RowTypes
<1>2. {"saved", "failed", "merged", "written", "refused"} \subseteq Stage
  BY DEF Stage
<1>3. requests[n].row \in Prefs /\ requests[n].seen \in Nat /\ writes \in Nat
      /\ Merged(requests[n].body, requests[n].sent, prefs) \in Prefs
  BY StageSteps
<1>4. ASSUME NEW st \in Stage, NEW row \in Prefs, NEW seen \in Nat, Stages(n, st, row, seen)
      PROVE  \E st_1 \in Stage, row_1 \in Prefs, seen_1 \in Nat : Stages(n, st_1, row_1, seen_1)
  BY <1>4
<1>5. CASE PutSucceeds(n)
  <2>1. Stages(n, "saved", requests[n].row, requests[n].seen)
    BY <1>5, StageSteps
  <2> QED BY <1>1, <1>2, <1>3, <1>4, <2>1
<1>6. CASE PutFails(n)
  <2>1. Stages(n, "failed", requests[n].row, requests[n].seen)
    BY <1>6, StageSteps
  <2> QED BY <1>1, <1>2, <1>3, <1>4, <2>1
<1>7. CASE MergePrefs(n)
  <2>1. Stages(n, "merged", Merged(requests[n].body, requests[n].sent, prefs), writes)
    BY <1>7, StageSteps
  <2> QED BY <1>1, <1>2, <1>3, <1>4, <2>1
<1>8. CASE WritePrefs(n)
  <2>1. Stages(n, "written", DefaultPrefs, 0)
    BY <1>8, StageSteps
  <2> QED BY <1>1, <1>2, <1>3, <1>4, <2>1
<1>9. CASE RefusePrefs(n)
  <2>1. Stages(n, "refused", DefaultPrefs, 0)
    BY <1>9, StageSteps
  <2> QED BY <1>1, <1>2, <1>3, <1>4, <2>1
<1> QED BY <1>5, <1>6, <1>7, <1>8, <1>9

\* A stage of a PUT leaves these alone.
PageRests == UNCHANGED <<shown, tab, edited, wanted, hasty, exists, channels, muted>>

\* A step of a PUT leaves the page and the list of channels alone.
LEMMA StageKeeps ==
  ASSUME NEW n \in DOMAIN requests,
         PutSucceeds(n) \/ PutFails(n) \/ MergePrefs(n) \/ WritePrefs(n) \/ RefusePrefs(n)
  PROVE  PageRests
BY DEF PutSucceeds, PutFails, MergePrefs, WritePrefs, RefusePrefs, PageRests, serverVars,
       tabVars, prefsHistory

\* Every step keeps the types.
LEMMA TypeNext == PrefsTypeOK /\ [PrefsNext]_contactVars => PrefsTypeOK'
<1> SUFFICES ASSUME PrefsTypeOK, [PrefsNext]_contactVars PROVE PrefsTypeOK'
  OBVIOUS
<1> USE RowTypes
<1>0. upsets \in Nat /\ (Upset => upsets' \in Nat)
  BY DEF PrefsTypeOK, Upset
<1>1. ASSUME NEW fields \in SUBSET PrefFields, NEW body \in Prefs, Put(fields, body),
             wanted' \subseteq AllChannels
      PROVE  PrefsTypeOK'
  <2>1. requests' \in Seq(Request) /\ hasty' \in BOOLEAN
    BY <1>1, RequestTypes DEF Put, PrefsTypeOK, Quiet
  <2> QED BY <1>1, <2>1 DEF Put, PrefsTypeOK, serverVars, tabVars
<1>2. ASSUME NEW ch \in AllChannels, ToggleChip(ch) PROVE PrefsTypeOK'
  <2>1. [DefaultPrefs EXCEPT !.channels = Toggled(shown.channels, ch)] \in Prefs
    BY DEF Toggled, PrefsTypeOK, Prefs
  <2>2. wanted' \subseteq AllChannels
    BY <1>2 DEF ToggleChip, Toggled, PrefsTypeOK
  <2> QED BY <1>1, <1>2, <2>1, <2>2 DEF ToggleChip, PrefFields
<1>3. CASE SaveTab
  <2>1. [DefaultPrefs EXCEPT !.offsets = tab.offsets, !.enabled = tab.enabled] \in Prefs
    BY DEF PrefsTypeOK, Prefs
  <2>2. wanted' \subseteq AllChannels
    BY <1>3 DEF SaveTab, PrefsTypeOK
  <2> QED BY <1>1, <1>3, <2>1, <2>2 DEF SaveTab, PrefFields
<1>4. CASE ActivateAll
  <2>1. wanted' \subseteq AllChannels
    BY <1>4 DEF ActivateAll, PrefsTypeOK
  <2> QED BY <1>1, <1>4, <2>1 DEF ActivateAll, PrefFields
<1>5. ASSUME NEW n \in DOMAIN requests,
             PutSucceeds(n) \/ PutFails(n) \/ MergePrefs(n) \/ WritePrefs(n) \/ RefusePrefs(n)
      PROVE  PrefsTypeOK'
  <2>1. requests' \in Seq(Request)
    <3>1. PICK st \in Stage, row \in Prefs, seen \in Nat : Stages(n, st, row, seen)
      BY <1>5, OneStage
    <3> QED BY <3>1, StageTypes
  <2>2. PageRests
    BY <1>5, StageKeeps
  <2>3. prefs' \in Prefs /\ writes' \in Nat
    <3>1. requests[n].row \in Prefs /\ prefs \in Prefs /\ writes \in Nat
      BY StageSteps DEF PrefsTypeOK
    <3> QED BY <1>5, <3>1 DEF PutSucceeds, PutFails, MergePrefs, WritePrefs, RefusePrefs,
                   serverVars, prefsHistory
  <2>4. load' \in [st : {"none", "asked", "answered"}, prefs : Prefs]
        /\ trust' \in {"none", "read", "full"} /\ upsets' \in Nat
    BY <1>0, <1>5 DEF PutSucceeds, PutFails, MergePrefs, WritePrefs, RefusePrefs,
       tabVars, prefsHistory, PrefsTypeOK, Reload, Loss
  <2> QED BY <2>1, <2>2, <2>3, <2>4 DEF PageRests, PrefsTypeOK
<1>6. ASSUME NEW form \in [offsets : Offsets, enabled : BOOLEAN], EditTab(form)
      PROVE  PrefsTypeOK'
  BY <1>6 DEF EditTab, PrefsTypeOK, serverVars, prefsHistory
<1>7. CASE Revisit
  BY <1>7 DEF Revisit, PrefsTypeOK, serverVars, prefsHistory, Reload
<1>8. CASE ReadPrefs
  BY <1>8 DEF ReadPrefs, PrefsTypeOK, serverVars
<1>9. CASE LandPrefs
  BY <1>9 DEF LandPrefs, PrefsTypeOK, serverVars, NoLoad
<1>10. CASE LoadFails
  BY <1>10, <1>0 DEF LoadFails, PrefsTypeOK, serverVars, NoLoad, Loss
<1>11. CASE DeleteContact
  BY <1>11 DEF DeleteContact, PrefsTypeOK, tabVars, prefsHistory
<1>12. ASSUME NEW ch \in AllChannels, DeleteChannel(ch) PROVE PrefsTypeOK'
  BY <1>12, <1>0 DEF DeleteChannel, PrefsTypeOK, tabVars
<1>13. ASSUME NEW ch \in AllChannels, SetChannelEnabled(ch) PROVE PrefsTypeOK'
  BY <1>13, <1>0 DEF SetChannelEnabled, Toggled, PrefsTypeOK, tabVars
<1>14. CASE UNCHANGED contactVars
  BY <1>14 DEF contactVars, serverVars, tabVars, prefsHistory, PrefsTypeOK
<1> QED BY <1>2, <1>3, <1>4, <1>5, <1>6, <1>7, <1>8, <1>9, <1>10, <1>11, <1>12, <1>13, <1>14
        DEF PrefsNext

\* The types hold of every behaviour.
THEOREM TypeCorrect == PrefsSpec => []PrefsTypeOK
<1> QED BY TypeInit, TypeNext, PTL DEF PrefsSpec

-----------------------------------------------------------------------------
(* What a step does to PUTs and row.                                       *)

\* A step leaves PUTs and row alone, deletes the contact, sends a PUT or takes one a
\* stage further.
LEMMA Dispatch ==
  ASSUME PrefsTypeOK, [PrefsNext]_contactVars
  PROVE  \/ Resting
         \/ DeleteContact
         \/ Sends /\ UNCHANGED <<prefs, exists, writes>>
         \/ \E n \in DOMAIN requests :
              PutSucceeds(n) \/ PutFails(n) \/ MergePrefs(n) \/ WritePrefs(n) \/ RefusePrefs(n)
<1>1. \A fields, body : Put(fields, body) => UNCHANGED <<prefs, exists, writes>>
  BY DEF Put, serverVars
<1>2. ASSUME NEW ch \in AllChannels, ToggleChip(ch)
      PROVE Sends /\ UNCHANGED <<prefs, exists, writes>>
  BY <1>1, <1>2, BodyTypes DEF ToggleChip
<1>3. SaveTab => Sends /\ UNCHANGED <<prefs, exists, writes>>
  BY <1>1, BodyTypes DEF SaveTab
<1>4. ActivateAll => Sends /\ UNCHANGED <<prefs, exists, writes>>
  BY <1>1, BodyTypes DEF ActivateAll
<1>5. ASSUME NEW ch \in AllChannels PROVE DeleteChannel(ch) \/ SetChannelEnabled(ch) => Resting
  BY DEF DeleteChannel, SetChannelEnabled, Resting
<1>6. ASSUME NEW form PROVE EditTab(form) => Resting
  BY DEF EditTab, Resting, serverVars, prefsHistory
<1>7. Revisit \/ ReadPrefs \/ LandPrefs \/ LoadFails => Resting
  BY DEF Revisit, ReadPrefs, LandPrefs, LoadFails, Resting, serverVars, prefsHistory
<1>8. UNCHANGED contactVars => Resting
  BY DEF contactVars, serverVars, prefsHistory, Resting
<1> QED BY <1>2, <1>3, <1>4, <1>5, <1>6, <1>7, <1>8 DEF PrefsNext

\* What has been sent stays sent.
LEMMA SentStays ==
  ASSUME PrefsTypeOK, [PrefsNext]_contactVars, NEW p \in Prefs, NEW f \in PrefFields, Sent(p, f)
  PROVE  Sent(p, f)'
<1>1. \A n \in DOMAIN requests : /\ n \in DOMAIN requests'
                                 /\ requests'[n].sent = requests[n].sent
                                 /\ requests'[n].body = requests[n].body
  <2>1. CASE Resting
    BY <2>1 DEF Resting
  <2>2. CASE DeleteContact
    BY <2>2 DEF DeleteContact
  <2>3. CASE Sends
    BY <2>3, RequestTypes DEF Sends
  <2>5. ASSUME NEW n \in DOMAIN requests,
               PutSucceeds(n) \/ PutFails(n) \/ MergePrefs(n) \/ WritePrefs(n) \/ RefusePrefs(n)
        PROVE  \A m \in DOMAIN requests : /\ m \in DOMAIN requests'
                                          /\ requests'[m].sent = requests[m].sent
                                          /\ requests'[m].body = requests[m].body
    <3>1. PICK st \in Stage, row \in Prefs, seen \in Nat : Stages(n, st, row, seen)
      BY <2>5, OneStage
    <3> QED BY <3>1, StageEffect
  <2> QED BY <2>1, <2>2, <2>3, <2>5, Dispatch
<1> QED BY <1>1 DEF Sent

-----------------------------------------------------------------------------
(* The invariants.                                                         *)

\* The invariants hold at first.
LEMMA RowsInit ==
  PrefsInit => NoOrphanPrefs /\ FieldsWereSent /\ MergedOK /\ ShownOK /\ TabOK
<1> SUFFICES ASSUME PrefsInit PROVE NoOrphanPrefs /\ FieldsWereSent /\ MergedOK /\ ShownOK /\ TabOK
  OBVIOUS
<1>1. requests = <<>> /\ prefs = FirstPrefs /\ exists = TRUE
  BY DEF PrefsInit
<1>2. NoOrphanPrefs /\ FieldsWereSent /\ MergedOK
  BY <1>1 DEF NoOrphanPrefs, FieldsWereSent, MergedOK
<1>3. ShownOK /\ TabOK
  BY DEF PrefsInit, ShownOK, TabOK, NoLoad
<1> QED BY <1>2, <1>3

\* No row is written for a contact that is gone.
LEMMA OrphanNext ==
  PrefsTypeOK /\ NoOrphanPrefs /\ [PrefsNext]_contactVars => NoOrphanPrefs'
<1> SUFFICES ASSUME PrefsTypeOK, NoOrphanPrefs, [PrefsNext]_contactVars PROVE NoOrphanPrefs'
  OBVIOUS
<1>1. CASE Resting
  BY <1>1 DEF Resting, NoOrphanPrefs
<1>2. CASE DeleteContact
  BY <1>2 DEF DeleteContact, NoOrphanPrefs
<1>3. CASE UNCHANGED <<prefs, exists, writes>>
  BY <1>3 DEF NoOrphanPrefs
<1>4. ASSUME NEW n \in DOMAIN requests,
             PutSucceeds(n) \/ PutFails(n) \/ MergePrefs(n) \/ WritePrefs(n) \/ RefusePrefs(n)
      PROVE  NoOrphanPrefs'
  BY <1>4 DEF PutSucceeds, PutFails, MergePrefs, WritePrefs, RefusePrefs, serverVars, NoOrphanPrefs
<1> QED BY <1>1, <1>2, <1>3, <1>4, Dispatch

\* Stored and merged rows are made of what was sent.
LEMMA RowsNext ==
  PrefsTypeOK /\ FieldsWereSent /\ MergedOK /\ [PrefsNext]_contactVars
    => FieldsWereSent' /\ MergedOK'
<1> SUFFICES ASSUME PrefsTypeOK, FieldsWereSent, MergedOK, [PrefsNext]_contactVars
             PROVE  FieldsWereSent' /\ MergedOK'
  OBVIOUS
<1> USE DEF FieldsWereSent
<1>0. /\ writes \in Nat /\ prefs \in Prefs
      /\ \A n \in DOMAIN requests : requests[n] \in Request
  BY RequestTypes DEF PrefsTypeOK
<1>1. exists => \A f \in PrefFields : Sent(prefs, f)
  BY DEF Sent
<1>2. ASSUME NEW p \in Prefs, NEW f \in PrefFields, Sent(p, f)
      PROVE  \/ p[f] = FirstPrefs[f]
             \/ \E n \in DOMAIN requests' :
                  f \in requests'[n].sent /\ p[f] = requests'[n].body[f]
  BY <1>2, SentStays DEF Sent
<1>3. ASSUME NEW p \in Prefs, \A f \in PrefFields : Sent(p, f), prefs' = p
      PROVE  FieldsWereSent'
  BY <1>2, <1>3
<1>4. CASE Resting
  <2>1. FieldsWereSent'
    BY <1>4 DEF Resting
  <2>2. MergedOK'
    BY <1>4 DEF Resting, MergedOK, Sent
  <2> QED BY <2>1, <2>2
<1>5. CASE DeleteContact
  <2>1. FieldsWereSent'
    BY <1>5 DEF DeleteContact
  <2>2. requests' = requests /\ writes' = writes /\ exists' = FALSE
    BY <1>5 DEF DeleteContact, prefsHistory
  <2>3. MergedOK'
    BY <2>2 DEF MergedOK, Sent
  <2> QED BY <2>1, <2>3
<1>6. CASE Sends /\ UNCHANGED <<prefs, exists, writes>>
  <2>1. FieldsWereSent'
    BY <1>0, <1>1, <1>3, <1>6
  <2>2. PICK fields \in SUBSET PrefFields, body \in Prefs : Put(fields, body)
    BY <1>6 DEF Sends
  <2>3. SUFFICES ASSUME NEW n \in DOMAIN requests'
                 PROVE  /\ requests'[n].seen <= writes
                        /\ requests'[n].st = "merged" =>
                             /\ \A f \in PrefFields : Sent(requests[n].row, f)'
                             /\ exists /\ requests'[n].seen = writes =>
                                  requests'[n].row = Merged(requests'[n].body, requests'[n].sent, prefs)
    BY <1>6, <2>1 DEF MergedOK
  <2>4. CASE n \in DOMAIN requests
    <3>1. requests'[n] = requests[n] /\ requests[n].row \in Prefs
      BY <1>0, <2>2, <2>4, RequestTypes DEF Request
    <3>2. requests[n].st = "merged" => \A f \in PrefFields : Sent(requests[n].row, f)'
      BY <2>4, <3>1, <1>2 DEF MergedOK, Sent
    <3> QED BY <2>4, <3>1, <3>2 DEF MergedOK
  <2>5. CASE n = Len(requests')
    BY <1>0, <2>2, <2>5, RequestTypes
  <2> QED BY <2>2, <2>4, <2>5, RequestTypes
<1>7. ASSUME NEW n \in DOMAIN requests,
             PutSucceeds(n) \/ PutFails(n) \/ MergePrefs(n) \/ WritePrefs(n) \/ RefusePrefs(n)
      PROVE  FieldsWereSent' /\ MergedOK'
  <2>0. requests[n] \in Request
    BY <1>0
  <2>1. FieldsWereSent'
    <3>1. CASE WritePrefs(n)
      <4>1. prefs' = requests[n].row /\ requests[n].st = "merged"
        BY <3>1 DEF WritePrefs
      <4>2. requests[n].row \in Prefs /\ \A f \in PrefFields : Sent(requests[n].row, f)
        BY <2>0, <4>1 DEF MergedOK, Request
      <4> QED BY <1>3, <4>1, <4>2
    <3>2. CASE prefs' = prefs /\ exists' = exists
      <4>1. CASE exists
        BY <1>0, <1>1, <1>3, <3>2, <4>1
      <4>2. CASE ~exists
        BY <3>2, <4>2
      <4> QED BY <4>1, <4>2
    <3> QED BY <1>7, <3>1, <3>2
           DEF PutSucceeds, PutFails, MergePrefs, RefusePrefs, serverVars
  <2>2. \A m \in DOMAIN requests \ {n} :
          requests[m].st = "merged" => \A f \in PrefFields : Sent(requests[m].row, f)'
    <3> SUFFICES ASSUME NEW m \in DOMAIN requests \ {n}, NEW f \in PrefFields,
                        requests[m].st = "merged"
                 PROVE  Sent(requests[m].row, f)'
      OBVIOUS
    <3>1. requests[m].row \in Prefs /\ Sent(requests[m].row, f)
      BY <1>0 DEF MergedOK, Request
    <3>2. requests'[m] = requests[m]
      <4>1. PICK st \in Stage, row \in Prefs, seen \in Nat : Stages(n, st, row, seen)
        BY <1>7, OneStage
      <4> QED BY <4>1, StageEffect
    <3> QED BY <3>1, <3>2, <1>2 DEF Sent
  <2>3. \A m \in DOMAIN requests \ {n} : requests'[m] = requests[m]
    <3>1. PICK st \in Stage, row \in Prefs, seen \in Nat : Stages(n, st, row, seen)
      BY <1>7, OneStage
    <3> QED BY <3>1, StageEffect
  <2>4. DOMAIN requests' = DOMAIN requests
    <3>1. PICK st \in Stage, row \in Prefs, seen \in Nat : Stages(n, st, row, seen)
      BY <1>7, OneStage
    <3> QED BY <3>1, StageEffect
  <2>5. \/ WritePrefs(n) /\ writes' = writes + 1
        \/ prefs' = prefs /\ exists' = exists /\ writes' = writes
    BY <1>7 DEF PutSucceeds, PutFails, MergePrefs, WritePrefs, RefusePrefs, serverVars,
                prefsHistory
  <2>6. ASSUME NEW m \in DOMAIN requests \ {n}
        PROVE  /\ requests'[m].seen <= writes'
               /\ requests'[m].st = "merged" =>
                    /\ \A f \in PrefFields : Sent(requests[m].row, f)'
                    /\ exists' /\ requests'[m].seen = writes' =>
                         requests'[m].row = Merged(requests'[m].body, requests'[m].sent, prefs')
    <3>1. requests'[m] = requests[m] /\ requests[m].seen \in Nat /\ requests[m].seen <= writes
      BY <1>0, <2>3 DEF MergedOK, Request
    <3>2. requests[m].seen <= writes' /\ (requests[m].seen = writes' => ~WritePrefs(n) \/ writes' = writes)
      BY <1>0, <2>5, <3>1
    <3>3. requests[m].seen = writes' => prefs' = prefs /\ exists' = exists /\ writes' = writes
      BY <1>0, <2>5, <3>1
    <3> QED BY <2>2, <3>1, <3>2, <3>3 DEF MergedOK
  <2>7. /\ requests'[n].seen <= writes'
        /\ requests'[n].st = "merged" =>
             /\ \A f \in PrefFields : Sent(requests[n].row, f)'
             /\ exists' /\ requests'[n].seen = writes' =>
                  requests'[n].row = Merged(requests'[n].body, requests'[n].sent, prefs')
    <3>1. CASE MergePrefs(n)
      <4> DEFINE row == Merged(requests[n].body, requests[n].sent, prefs)
      <4>1. Stages(n, "merged", row, writes) /\ row \in Prefs
        BY <3>1, StageSteps
      <4>2. /\ requests'[n].row = row /\ requests'[n].seen = writes /\ requests'[n].st = "merged"
            /\ requests'[n].body = requests[n].body /\ requests'[n].sent = requests[n].sent
        BY <1>0, <4>1, StageEffect DEF Stage
      <4>3. exists /\ prefs' = prefs /\ writes' = writes
        BY <3>1 DEF MergePrefs, serverVars, prefsHistory
      <4>4. ASSUME NEW f \in PrefFields PROVE Sent(row, f)
        <5>1. CASE f \in requests[n].sent
          <6>1. row[f] = requests[n].body[f]
            BY <5>1 DEF Merged, PrefFields
          <6> QED BY <5>1, <6>1 DEF Sent
        <5>2. CASE f \notin requests[n].sent
          <6>1. row[f] = prefs[f]
            BY <5>2 DEF Merged, PrefFields
          <6> QED BY <1>1, <4>3, <6>1 DEF Sent
        <5> QED BY <5>1, <5>2
      <4> HIDE DEF row
      <4>5. \A f \in PrefFields : Sent(requests[n].row, f)'
        BY <1>2, <4>1, <4>2, <4>4 DEF Sent
      <4>6. requests'[n].row = Merged(requests'[n].body, requests'[n].sent, prefs')
        BY <4>2, <4>3 DEF row
      <4> QED BY <1>0, <4>2, <4>3, <4>5, <4>6
    <3>2. ASSUME NEW st \in Stage, NEW row \in Prefs, NEW seen \in Nat, Stages(n, st, row, seen),
                 st # "merged", seen <= writes'
          PROVE  requests'[n].seen <= writes' /\ requests'[n].st # "merged"
      BY <3>2, StageEffect
    <3>3. requests[n].seen <= writes' /\ 0 <= writes'
      BY <1>0, <2>0, <2>5 DEF MergedOK, Request
    <3>4. {"saved", "failed", "written", "refused"} \subseteq Stage
      BY DEF Stage
    <3>5. PutSucceeds(n) => requests'[n].seen <= writes' /\ requests'[n].st # "merged"
      BY <3>2, <3>3, <3>4, StageSteps
    <3>6. PutFails(n) => requests'[n].seen <= writes' /\ requests'[n].st # "merged"
      BY <3>2, <3>3, <3>4, StageSteps
    <3>7. WritePrefs(n) => requests'[n].seen <= writes' /\ requests'[n].st # "merged"
      BY <3>2, <3>3, <3>4, StageSteps, RowTypes
    <3>8. RefusePrefs(n) => requests'[n].seen <= writes' /\ requests'[n].st # "merged"
      BY <3>2, <3>3, <3>4, StageSteps, RowTypes
    <3> QED BY <1>7, <3>1, <3>5, <3>6, <3>7, <3>8
  <2>8. MergedOK'
    BY <2>4, <2>6, <2>7 DEF MergedOK
  <2> QED BY <2>1, <2>8
<1> QED BY <1>4, <1>5, <1>6, <1>7, Dispatch
-----------------------------------------------------------------------------
(* What the page knows.                                                    *)

\* A stage of any PUT but a written one leaves the unread ones unread.
LEMMA UnreadStays ==
  ASSUME PrefsTypeOK, NEW n \in DOMAIN requests,
         \/ MergePrefs(n) \/ RefusePrefs(n)
         \/ PutFails(n) /\ requests[n].st # "written"
  PROVE  Unread => Unread'
<1> SUFFICES ASSUME NEW m \in DOMAIN requests, requests[m].st = "written" PROVE Unread'
  BY DEF Unread
<1>1. m # n
  BY DEF MergePrefs, RefusePrefs
<1>2. PICK st \in Stage, row \in Prefs, seen \in Nat : Stages(n, st, row, seen)
  BY OneStage
<1>3. m \in DOMAIN requests' /\ requests'[m] = requests[m]
  BY <1>1, <1>2, StageEffect
<1> QED BY <1>3 DEF Unread

\* A page behind the server stays due an answer or a read.
LEMMA ShownNext == PrefsTypeOK /\ ShownOK /\ [PrefsNext]_contactVars => ShownOK'
<1> SUFFICES ASSUME PrefsTypeOK, ShownOK, [PrefsNext]_contactVars PROVE ShownOK'
  OBVIOUS
<1>1. CASE Sends
  <2>1. PICK fields \in SUBSET PrefFields, body \in Prefs : Put(fields, body)
    BY <1>1 DEF Sends
  <2>2. Unread => Unread'
    BY <2>1, RequestTypes DEF Unread
  <2> QED BY <2>1, <2>2 DEF Put, serverVars, tabVars, ShownOK
<1>2. CASE UNCHANGED <<prefs, exists, shown, load, requests, trust>>
  BY <1>2 DEF ShownOK, Unread
<1>3. ASSUME NEW n \in DOMAIN requests, MergePrefs(n) \/ RefusePrefs(n) PROVE ShownOK'
  <2>1. UNCHANGED <<prefs, exists, shown, load, trust>>
    BY <1>3 DEF MergePrefs, RefusePrefs, serverVars, tabVars, prefsHistory
  <2> QED BY <1>3, <2>1, UnreadStays DEF ShownOK
<1>4. ASSUME NEW n \in DOMAIN requests, PutSucceeds(n) PROVE ShownOK'
  BY <1>4 DEF PutSucceeds, Reload, ShownOK, PrefsTypeOK
<1>5. ASSUME NEW n \in DOMAIN requests, PutFails(n) PROVE ShownOK'
  <2>1. CASE requests[n].st = "written"
    BY <1>5, <2>1 DEF PutFails, Loss, ShownOK
  <2>2. CASE requests[n].st # "written"
    <3>1. UNCHANGED <<prefs, exists, shown, load, trust>>
      BY <1>5, <2>2 DEF PutFails, serverVars, tabVars
    <3> QED BY <1>5, <2>2, <3>1, UnreadStays DEF ShownOK
  <2> QED BY <2>1, <2>2
<1>6. ASSUME NEW n \in DOMAIN requests, WritePrefs(n) PROVE ShownOK'
  <2>1. n \in DOMAIN requests' /\ requests'[n].st = "written"
    BY <1>6, StageSteps, StageEffect, RowTypes DEF Stage
  <2> QED BY <1>6, <2>1 DEF WritePrefs, tabVars, ShownOK, Unread
<1>7. CASE Revisit
  BY <1>7 DEF Revisit, Reload, ShownOK, serverVars, prefsHistory, Unread
<1>8. CASE ReadPrefs
  BY <1>8 DEF ReadPrefs, ShownOK, serverVars, PrefsTypeOK
<1>9. CASE LandPrefs
  BY <1>9 DEF LandPrefs, NoLoad, ShownOK, serverVars, PrefsTypeOK, Unread
<1>10. CASE LoadFails
  BY <1>10 DEF LoadFails, Loss, ShownOK, serverVars
<1>11. CASE DeleteContact
  BY <1>11 DEF DeleteContact, ShownOK
<1>12. ASSUME NEW ch \in AllChannels, DeleteChannel(ch) \/ SetChannelEnabled(ch) PROVE ShownOK'
  BY <1>2, <1>12 DEF DeleteChannel, SetChannelEnabled, tabVars
<1>13. ASSUME NEW form, EditTab(form) PROVE ShownOK'
  BY <1>2, <1>13 DEF EditTab, serverVars, prefsHistory
<1>14. CASE UNCHANGED contactVars
  BY <1>2, <1>14 DEF contactVars, serverVars, tabVars, prefsHistory
<1> QED BY <1>1, <1>3, <1>4, <1>5, <1>6, <1>7, <1>8, <1>9, <1>10, <1>11, <1>12, <1>13, <1>14,
        BodyTypes DEF PrefsNext

\* A form nobody typed in follows what is shown.
LEMMA TabNext == TabOK /\ [PrefsNext]_contactVars => TabOK'
<1> SUFFICES ASSUME TabOK, [PrefsNext]_contactVars PROVE TabOK'
  OBVIOUS
<1>1. CASE LandPrefs
  BY <1>1 DEF LandPrefs, TabOK
<1>2. ASSUME NEW form, EditTab(form) PROVE TabOK'
  BY <1>2 DEF EditTab, TabOK
<1>3. CASE UNCHANGED <<shown, tab, edited>>
  BY <1>3 DEF TabOK
<1>4. \A fields, body : Put(fields, body) => UNCHANGED <<shown, tab, edited>>
  BY DEF Put, tabVars
<1>5. SaveTab \/ ActivateAll \/ (\E ch \in AllChannels : ToggleChip(ch))
        => UNCHANGED <<shown, tab, edited>>
  BY <1>4 DEF SaveTab, ActivateAll, ToggleChip
<1>6. ASSUME NEW n \in DOMAIN requests,
             PutSucceeds(n) \/ PutFails(n) \/ MergePrefs(n) \/ WritePrefs(n) \/ RefusePrefs(n)
      PROVE  UNCHANGED <<shown, tab, edited>>
  BY <1>6, StageKeeps DEF PageRests
<1>7. Revisit \/ ReadPrefs \/ LoadFails \/ DeleteContact => UNCHANGED <<shown, tab, edited>>
  BY DEF Revisit, ReadPrefs, LoadFails, DeleteContact, tabVars
<1>8. ASSUME NEW ch \in AllChannels, DeleteChannel(ch) \/ SetChannelEnabled(ch)
      PROVE  UNCHANGED <<shown, tab, edited>>
  BY <1>8 DEF DeleteChannel, SetChannelEnabled, tabVars
<1>9. UNCHANGED contactVars => UNCHANGED <<shown, tab, edited>>
  BY DEF contactVars, tabVars
<1> QED BY <1>1, <1>2, <1>3, <1>5, <1>6, <1>7, <1>8, <1>9 DEF PrefsNext

-----------------------------------------------------------------------------
(* Patient clicks.                                                         *)

\* A user who has not clicked wants what is stored.
LEMMA PatientInit == PrefsInit => PatientOK
<1> SUFFICES ASSUME PrefsInit PROVE PatientOK
  OBVIOUS
<1>1. requests = <<>> /\ wanted = prefs.channels
  BY DEF PrefsInit
<1>2. Newest = 0 /\ DOMAIN requests = {}
  BY <1>1 DEF Newest
<1> QED BY <1>1, <1>2 DEF PatientOK

\* A PUT sent while everything is answered and nothing was lost starts from the stored
\* row.
LEMMA PatientPut ==
  ASSUME PrefsTypeOK, ShownOK, PatientOK,
         NEW fields \in SUBSET PrefFields, NEW body \in Prefs, Put(fields, body),
         IF "channels" \in fields
         THEN shown.channels = wanted => body.channels = wanted'
         ELSE wanted' = wanted
  PROVE  PatientOK'
<1> SUFFICES ASSUME ~hasty', exists' PROVE PatientOK'
  BY DEF PatientOK
<1>1. /\ ~hasty /\ Quiet /\ trust = "full"
      /\ UNCHANGED <<prefs, exists, writes>>
  BY DEF Put, serverVars
<1>2. /\ \A n \in DOMAIN requests : ~InFlight(n)
      /\ shown = prefs
  BY <1>1 DEF Quiet, InFlight, ShownOK, Unread
<1>3. /\ Len(requests') = Len(requests) + 1 /\ Len(requests) \in Nat
      /\ DOMAIN requests = 1 .. Len(requests)
      /\ DOMAIN requests' = DOMAIN requests \cup {Len(requests')}
      /\ \A n \in DOMAIN requests : requests'[n] = requests[n]
      /\ requests'[Len(requests')] =
           [sent |-> fields, body |-> body, row |-> DefaultPrefs, seen |-> 0, st |-> "sent"]
  <2>1. Len(requests) \in Nat /\ DOMAIN requests = 1 .. Len(requests)
    BY DEF PrefsTypeOK
  <2> QED BY <2>1, RequestTypes
<1> DEFINE r == requests'[Len(requests')]
<1>4. r.st = "sent" /\ r.sent = fields /\ r.body = body
  BY <1>3
<1>5. \A n \in DOMAIN requests : ~InFlight(n)'
  BY <1>2, <1>3 DEF InFlight
<1>6. ASSUME \A n \in DOMAIN requests' : requests'[n].st \notin {"failed", "refused"}
      PROVE  prefs.channels = wanted
  <2>1. \A n \in DOMAIN requests : requests[n].st \notin {"failed", "refused"}
    BY <1>3, <1>6
  <2>2. Newest > 0 => requests[Newest].st \notin {"sent", "merged"}
    BY <1>2, <1>3 DEF Newest, InFlight
  <2> QED BY <1>1, <2>1, <2>2 DEF PatientOK
<1>7. \A n \in DOMAIN requests' : n # Len(requests') => n \in DOMAIN requests /\ ~InFlight(n)'
  BY <1>3, <1>5
<1>8. \A n \in DOMAIN requests' : requests'[n].st # "merged"
  BY <1>4, <1>7 DEF InFlight
<1>9. (\A n \in DOMAIN requests' : requests'[n].st \notin {"failed", "refused"}) =>
        IF "channels" \in r.sent THEN r.body.channels = wanted' ELSE prefs'.channels = wanted'
  BY <1>1, <1>2, <1>4, <1>6
<1>10. Newest' = Len(requests') /\ Newest' > 0 /\ r.st \in {"sent", "merged"}
  BY <1>3, <1>4 DEF Newest
<1> QED BY <1>7, <1>8, <1>9, <1>10 DEF PatientOK

\* So do the clicks of a patient user all count, step by step.
LEMMA PatientNext ==
  PrefsTypeOK /\ MergedOK /\ ShownOK /\ PatientOK /\ [PrefsNext]_contactVars => PatientOK'
<1> SUFFICES ASSUME PrefsTypeOK, MergedOK, ShownOK, PatientOK, [PrefsNext]_contactVars
             PROVE  PatientOK'
  OBVIOUS
<1>1. ASSUME NEW ch \in AllChannels, ToggleChip(ch) PROVE PatientOK'
  <2> DEFINE body == [DefaultPrefs EXCEPT !.channels = Toggled(shown.channels, ch)]
  <2>1. body \in Prefs /\ body.channels = Toggled(shown.channels, ch)
    BY RowTypes DEF Toggled, PrefsTypeOK, Prefs, DefaultPrefs
  <2>2. Put({"channels"}, body) /\ wanted' = Toggled(wanted, ch)
    BY <1>1 DEF ToggleChip
  <2>3. {"channels"} \in SUBSET PrefFields
    BY DEF PrefFields
  <2> HIDE DEF body
  <2> QED BY <2>1, <2>2, <2>3, PatientPut
<1>2. CASE SaveTab
  <2> DEFINE body == [DefaultPrefs EXCEPT !.offsets = tab.offsets, !.enabled = tab.enabled]
  <2>1. body \in Prefs
    BY RowTypes DEF PrefsTypeOK, Prefs
  <2>2. Put({"offsets", "enabled"}, body) /\ wanted' = wanted
    BY <1>2 DEF SaveTab
  <2>3. {"offsets", "enabled"} \in SUBSET PrefFields /\ "channels" \notin {"offsets", "enabled"}
    BY DEF PrefFields
  <2> HIDE DEF body
  <2> QED BY <2>1, <2>2, <2>3, PatientPut
<1>3. CASE ActivateAll
  <2>1. Put({"enabled"}, DefaultPrefs) /\ wanted' = wanted /\ DefaultPrefs \in Prefs
    BY <1>3, RowTypes DEF ActivateAll
  <2>2. {"enabled"} \in SUBSET PrefFields /\ "channels" \notin {"enabled"}
    BY DEF PrefFields
  <2> QED BY <2>1, <2>2, PatientPut
<1>4. CASE Resting
  BY <1>4 DEF Resting, PatientOK, InFlight, Newest
<1>5. CASE DeleteContact
  BY <1>5 DEF DeleteContact, PatientOK
<1>6. ASSUME NEW n \in DOMAIN requests,
             PutSucceeds(n) \/ PutFails(n) \/ MergePrefs(n) \/ WritePrefs(n) \/ RefusePrefs(n),
             ~hasty', exists'
      PROVE  PatientOK'
  <2>0. ~hasty /\ exists /\ wanted' = wanted
    BY <1>6, StageKeeps DEF PageRests
  <2>1. n = Newest
    BY <1>6, <2>0 DEF PatientOK, InFlight, PutSucceeds, PutFails, MergePrefs, WritePrefs, RefusePrefs
  <2>2. PICK st \in Stage, row \in Prefs, seen \in Nat : Stages(n, st, row, seen)
    BY <1>6, OneStage
  <2>3. /\ Newest' = Newest /\ Newest > 0 /\ DOMAIN requests' = DOMAIN requests
        /\ \A m \in DOMAIN requests : m # n => requests'[m] = requests[m]
        /\ requests'[n].sent = requests[n].sent /\ requests'[n].body = requests[n].body
    BY <2>1, <2>2, StageEffect DEF Newest, PrefsTypeOK
  <2>4. \A m \in DOMAIN requests' : InFlight(m)' => m = Newest'
    BY <2>0, <2>1, <2>3 DEF PatientOK, InFlight
  <2>5. \A m \in DOMAIN requests' : m # n => requests'[m].st # "merged"
    BY <2>1, <2>3, <2>4 DEF InFlight
  <2>6. CASE PutFails(n) \/ RefusePrefs(n)
    <3>1. requests'[n].st \in {"failed", "refused"}
      BY <2>6, StageSteps, StageEffect, RowTypes DEF Stage
    <3> QED BY <2>3, <2>4, <2>5, <3>1 DEF PatientOK
  <2>7. ASSUME requests[n].st \notin {"failed", "refused"},
               \A m \in DOMAIN requests' : requests'[m].st \notin {"failed", "refused"}
        PROVE  IF requests[n].st \in {"sent", "merged"} /\ "channels" \in requests[n].sent
               THEN requests[n].body.channels = wanted ELSE prefs.channels = wanted
    <3>1. \A m \in DOMAIN requests : requests[m].st \notin {"failed", "refused"}
      BY <2>3, <2>7
    <3> QED BY <2>0, <2>1, <2>3, <3>1 DEF PatientOK
  <2>8. CASE MergePrefs(n)
    <3>1. requests'[n].st = "merged" /\ requests'[n].seen = writes
      BY <2>8, StageSteps, StageEffect DEF Stage
    <3>2. requests[n].st = "sent" /\ prefs' = prefs /\ writes' = writes
      BY <2>8 DEF MergePrefs, serverVars, prefsHistory
    <3> QED BY <2>0, <2>1, <2>3, <2>4, <2>5, <2>7, <3>1, <3>2 DEF PatientOK
  <2>9. CASE PutSucceeds(n)
    <3>1. requests'[n].st = "saved"
      BY <2>9, StageSteps, StageEffect DEF Stage
    <3>2. requests[n].st = "written" /\ prefs' = prefs
      BY <2>9 DEF PutSucceeds, serverVars
    <3> QED BY <2>0, <2>1, <2>3, <2>4, <2>5, <2>7, <3>1, <3>2 DEF PatientOK
  <2>10. CASE WritePrefs(n)
    <3>1. requests'[n].st = "written"
      BY <2>10, StageSteps, StageEffect, RowTypes DEF Stage
    <3>2. requests[n].st = "merged" /\ prefs' = requests[n].row
      BY <2>10 DEF WritePrefs
    <3>3. requests[n].seen = writes
      BY <2>0, <3>2 DEF PatientOK
    <3>4. prefs' = Merged(requests[n].body, requests[n].sent, prefs)
      BY <2>0, <3>2, <3>3 DEF MergedOK
    <3>5. prefs'.channels = IF "channels" \in requests[n].sent THEN requests[n].body.channels
                                                              ELSE prefs.channels
      BY <3>4 DEF Merged
    <3> QED BY <2>0, <2>1, <2>3, <2>4, <2>5, <2>7, <3>1, <3>2, <3>5 DEF PatientOK
  <2> QED BY <1>6, <2>6, <2>8, <2>9, <2>10
<1>7. ASSUME NEW n \in DOMAIN requests,
             PutSucceeds(n) \/ PutFails(n) \/ MergePrefs(n) \/ WritePrefs(n) \/ RefusePrefs(n)
      PROVE  PatientOK'
  BY <1>6, <1>7 DEF PatientOK
<1>8. ASSUME NEW ch \in AllChannels PROVE DeleteChannel(ch) \/ SetChannelEnabled(ch) => Resting
  BY DEF DeleteChannel, SetChannelEnabled, Resting
<1>9. ASSUME NEW form PROVE EditTab(form) => Resting
  BY DEF EditTab, Resting, serverVars, prefsHistory
<1>10. Revisit \/ ReadPrefs \/ LandPrefs \/ LoadFails => Resting
  BY DEF Revisit, ReadPrefs, LandPrefs, LoadFails, Resting, serverVars, prefsHistory
<1>11. UNCHANGED contactVars => Resting
  BY DEF contactVars, serverVars, prefsHistory, Resting
<1> QED BY <1>1, <1>2, <1>3, <1>4, <1>5, <1>7, <1>8, <1>9, <1>10, <1>11 DEF PrefsNext

-----------------------------------------------------------------------------
(* The theorems.                                                           *)

\* The parts of the inductive invariant hold of every behaviour.
LEMMA InvHolds == PrefsSpec => []PrefsInv
<1>1. PrefsInit => PrefsInv
  BY TypeInit, RowsInit, PatientInit DEF PrefsInv
<1>2. PrefsInv /\ [PrefsNext]_contactVars => PrefsInv'
  BY TypeNext, OrphanNext, RowsNext, ShownNext, TabNext, PatientNext DEF PrefsInv
<1> QED BY <1>1, <1>2, PTL DEF PrefsSpec

\* A contact deleted between the handler's read and its write gets no row again.
THEOREM NoRowForTheDeleted == PrefsSpec => []NoOrphanPrefs
<1>1. PrefsInv => NoOrphanPrefs
  BY DEF PrefsInv
<1> QED BY <1>1, InvHolds, PTL

\* However PUTs overlap, handleSetPrefs stores no field that no client sent.
THEOREM StoredWasSent == PrefsSpec => []FieldsWereSent
<1>1. PrefsInv => FieldsWereSent
  BY DEF PrefsInv
<1> QED BY <1>1, InvHolds, PTL

\* A quiet page shows the stored row, and so does its form unless something is typed
\* there.
THEOREM QuietPageAgrees == PrefsSpec => []QuietPageShowsPrefs
<1>1. PrefsInv => QuietPageShowsPrefs
  BY DEF PrefsInv, ShownOK, TabOK, QuietPageShowsPrefs, Quiet, InFlight, Unread
<1> QED BY <1>1, InvHolds, PTL

\* Clicks on channel chips that wait for one another all count.
THEOREM PatientClicksCount == PrefsSpec => []PatientClicksKept
<1>1. ASSUME PrefsInv PROVE PatientClicksKept
  <2> SUFFICES ASSUME Quiet, ~hasty, exists, \A n \in DOMAIN requests : requests[n].st = "saved"
               PROVE  prefs.channels = wanted
    BY DEF PatientClicksKept
  <2>1. Newest > 0 => Newest \in DOMAIN requests
    BY <1>1 DEF PrefsInv, PrefsTypeOK, Newest
  <2> QED BY <1>1, <2>1 DEF PrefsInv, PatientOK
<1> QED BY <1>1, InvHolds, PTL

\* A PUT changes none of the fields it did not send, unless another was written since
\* it read the row.
THEOREM OnlySentChange == PrefsSpec => SentFieldsChange
<1> DEFINE Change ==
      \A n \in DOMAIN requests :
        requests'[n].st = "written" /\ requests[n].seen = writes =>
          requests[n].st = "written" \/
          \A f \in PrefFields \ requests[n].sent : prefs'[f] = prefs[f]
<1>1. ASSUME PrefsInv, [PrefsNext]_contactVars PROVE [Change]_contactVars
  <2> SUFFICES ASSUME NEW n \in DOMAIN requests, requests'[n].st = "written",
                      requests[n].seen = writes, requests[n].st # "written",
                      NEW f \in PrefFields \ requests[n].sent
               PROVE  prefs'[f] = prefs[f]
    OBVIOUS
  <2>0. PrefsTypeOK /\ MergedOK
    BY <1>1 DEF PrefsInv
  <2>1. ~Resting /\ ~DeleteContact
    BY DEF Resting, DeleteContact
  <2>2. CASE Sends /\ UNCHANGED <<prefs, exists, writes>>
    BY <2>2
  <2>3. ASSUME NEW m \in DOMAIN requests,
               PutSucceeds(m) \/ PutFails(m) \/ MergePrefs(m) \/ WritePrefs(m) \/ RefusePrefs(m)
        PROVE  prefs'[f] = prefs[f]
    <3>1. CASE ~WritePrefs(m)
      BY <2>3, <3>1 DEF PutSucceeds, PutFails, MergePrefs, RefusePrefs, serverVars
    <3>2. CASE WritePrefs(m)
      <4>1. m = n
        <5>1. PICK st \in Stage, row \in Prefs, seen \in Nat : Stages(m, st, row, seen)
          BY <2>0, <2>3, OneStage
        <5> QED BY <2>0, <5>1, StageEffect
      <4>2. requests[n].st = "merged" /\ exists /\ prefs' = requests[n].row
        BY <3>2, <4>1 DEF WritePrefs
      <4>3. prefs' = Merged(requests[n].body, requests[n].sent, prefs)
        BY <2>0, <4>2 DEF MergedOK
      <4> QED BY <4>3 DEF Merged, PrefFields
    <3> QED BY <3>1, <3>2
  <2> QED BY <1>1, <2>0, <2>1, <2>2, <2>3, Dispatch
<1>2. PrefsSpec => [][Change]_contactVars
  BY <1>1, InvHolds, PTL DEF PrefsSpec
<1> QED BY <1>2 DEF SentFieldsChange
=============================================================================
