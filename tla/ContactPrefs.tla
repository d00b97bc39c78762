---------------------------- MODULE ContactPrefs ----------------------------
(***************************************************************************)
(* A contact's reminder preferences: the tab that edits them               *)
(* (reminder-prefs-tab.tsx), the Activate button of the occasions tab, the *)
(* merging PUT behind both (handleSetPrefs), and what a scan makes of the  *)
(* selected channels (scheduler.go, targetChannels).                       *)
(*                                                                         *)
(* The PUT is a read and a write with nothing that keeps the two together, *)
(* and no click waits for the one before.  A contact without a row is one  *)
(* with the default row: no request and no page tells them apart.          *)
(***************************************************************************)
EXTENDS Integers, Sequences

CONSTANTS
  AllChannels,        \* ids of the user's channels
  Offsets, NoOffsets, \* offset maps; the empty one
  Defaults,           \* default_channel_ids of the settings
  FirstPrefs,         \* the contact's row at first
  MaxRequests,        \* bounds of the model: PUTs sent;
  MaxUpsets           \* answers and refetches lost, channels deleted or switched

Prefs == [offsets : Offsets, channels : SUBSET AllChannels, enabled : BOOLEAN]
DefaultPrefs == [offsets |-> NoOffsets, channels |-> {}, enabled |-> TRUE]
PrefFields == {"offsets", "channels", "enabled"}

ASSUME PrefsAssumption ==
  /\ NoOffsets \in Offsets
  /\ Defaults \subseteq AllChannels /\ FirstPrefs \in Prefs
  /\ MaxRequests \in Nat /\ MaxUpsets \in Nat

VARIABLES
  \* the server
  prefs,              \* the contact's row in reminder_prefs
  exists,             \* FALSE once the contact is deleted
  channels,           \* the channels that exist
  muted,              \* those that are disabled
  \* the page
  shown,              \* the cached contact's prefs, and what is read from them
  tab,                \* the form of the tab: offsets and the Active switch
  edited,             \* the form has been touched since it was hydrated
  load,               \* the refetch of the contact
  requests,           \* every PUT sent, in this order
  \* history
  writes,             \* how many PUTs have been written
  wanted,             \* the channels as clicked
  hasty,              \* a PUT was sent while another, or a refetch, was open or lost
  trust,              \* "none" after a loss until a later read has landed
  upsets

serverVars == <<prefs, exists, channels, muted>>
tabVars == <<shown, tab, edited, load>>
prefsHistory == <<writes, wanted, hasty, trust, upsets>>
contactVars == <<serverVars, tabVars, requests, prefsHistory>>

\* sent: the fields of the body; row: the merged row once the handler has read, and
\* seen: how many PUTs had been written then.
Request ==
  [sent : SUBSET PrefFields, body : Prefs, row : Prefs, seen : Nat,
   st : {"sent", "merged", "written", "refused", "saved", "failed"}]

NoLoad == [st |-> "none", prefs |-> DefaultPrefs]
Reload == [st |-> "asked", prefs |-> DefaultPrefs]

\* hydratePrefsForm
FormOf(p) == [offsets |-> p.offsets, enabled |-> p.enabled]

PrefsInit ==
  /\ prefs = FirstPrefs /\ exists = TRUE
  /\ channels = AllChannels /\ muted = {}
  /\ shown = prefs /\ tab = FormOf(prefs) /\ edited = FALSE
  /\ load = NoLoad /\ requests = <<>>
  /\ writes = 0 /\ wanted = prefs.channels /\ hasty = FALSE
  /\ trust = "full" /\ upsets = 0

InFlight(n) == requests[n].st \in {"sent", "merged", "written", "refused"}
Quiet == load.st = "none" /\ \A n \in DOMAIN requests : ~InFlight(n)

Upset == upsets < MaxUpsets /\ upsets' = upsets + 1
Loss == Upset /\ trust' = "none"

-----------------------------------------------------------------------------
(* The page.                                                               *)

Put(fields, body) ==
  /\ Len(requests) < MaxRequests
  /\ requests' = Append(requests,
       [sent |-> fields, body |-> body, row |-> DefaultPrefs, seen |-> 0, st |-> "sent"])
  /\ hasty' = (hasty \/ ~Quiet \/ trust # "full")
  /\ UNCHANGED <<serverVars, tabVars, writes, trust, upsets>>

Toggled(set, ch) == IF ch \in set THEN set \ {ch} ELSE set \cup {ch}

\* A click on a channel's chip saves at once; ids of channels that are no longer
\* listed stay in the selection.
ToggleChip(ch) ==
  /\ ch \in channels
  /\ Put({"channels"}, [DefaultPrefs EXCEPT !.channels = Toggled(shown.channels, ch)])
  /\ wanted' = Toggled(wanted, ch)

\* Typing offsets, or the Active switch: nothing is sent.
EditTab(form) ==
  /\ form # tab
  /\ tab' = form /\ edited' = TRUE
  /\ UNCHANGED <<serverVars, shown, load, requests, prefsHistory>>

\* Mutant: the two fields of the form are mixed up.
SaveTabSwapped ==
  /\ Put({"offsets", "enabled"},
         [DefaultPrefs EXCEPT !.offsets = tab.enabled, !.enabled = tab.offsets])
  /\ UNCHANGED wanted

\* Save preferences.
SaveTab ==
  /\ Put({"offsets", "enabled"},
         [DefaultPrefs EXCEPT !.offsets = tab.offsets, !.enabled = tab.enabled])
  /\ UNCHANGED wanted

\* Activate, in the dialog of the occasions tab.
ActivateAll ==
  /\ ~shown.enabled
  /\ Put({"enabled"}, DefaultPrefs)
  /\ UNCHANGED wanted

\* Mutant: a PUT leaves the cached contact as it is.
PutSucceedsQuietly(n) ==
  /\ requests[n].st = "written"
  /\ requests' = [requests EXCEPT ![n].st = "saved"]
  /\ UNCHANGED <<serverVars, tabVars, prefsHistory>>

\* onSuccess: the contact is invalidated; a refetch under way is dropped.
PutSucceeds(n) ==
  /\ requests[n].st = "written"
  /\ requests' = [requests EXCEPT ![n].st = "saved"]
  /\ load' = Reload
  /\ trust' = IF trust = "read" THEN "none" ELSE trust
  /\ UNCHANGED <<serverVars, shown, tab, edited, writes, wanted, hasty, upsets>>

\* onError: a toast and nothing else, also when only the answer was lost.
PutFails(n) ==
  /\ \/ requests[n].st = "refused" /\ UNCHANGED <<trust, upsets>>
     \/ requests[n].st = "written" /\ Loss
  /\ requests' = [requests EXCEPT ![n].st = "failed"]
  /\ UNCHANGED <<serverVars, tabVars, writes, wanted, hasty>>

\* The window gains focus, or another part of the page invalidates the contact.
Revisit ==
  /\ load.st = "none"
  /\ load' = Reload
  /\ UNCHANGED <<serverVars, shown, tab, edited, requests, prefsHistory>>

ReadPrefs ==
  /\ load.st = "asked" /\ exists
  /\ load' = [st |-> "answered", prefs |-> prefs]
  /\ trust' = IF trust = "none" THEN "read" ELSE trust
  /\ UNCHANGED <<serverVars, shown, tab, edited, requests, writes, wanted, hasty, upsets>>

\* Mutant: the form is hydrated by its first render only.
LandUnhydrated ==
  /\ load.st = "answered"
  /\ shown' = load.prefs /\ load' = NoLoad
  /\ trust' = IF trust = "read" THEN "full" ELSE trust
  /\ UNCHANGED <<serverVars, tab, edited, requests, writes, wanted, hasty, upsets>>

\* The answer is cached.  Prefs that differ hydrate the form, whatever is typed
\* there; equal ones keep their identity and do nothing.
LandPrefs ==
  /\ load.st = "answered"
  /\ shown' = load.prefs /\ load' = NoLoad
  /\ IF load.prefs # shown THEN tab' = FormOf(load.prefs) /\ edited' = FALSE
                           ELSE UNCHANGED <<tab, edited>>
  /\ trust' = IF trust = "read" THEN "full" ELSE trust
  /\ UNCHANGED <<serverVars, requests, writes, wanted, hasty, upsets>>

LoadFails ==
  /\ load.st # "none"
  /\ \/ exists /\ Loss
     \/ ~exists /\ UNCHANGED <<trust, upsets>>
  /\ load' = NoLoad
  /\ UNCHANGED <<serverVars, shown, tab, edited, requests, writes, wanted, hasty>>

-----------------------------------------------------------------------------
(* The server.                                                             *)

Merged(body, fields, row) ==
  [offsets |-> IF "offsets" \in fields THEN body.offsets ELSE row.offsets,
   channels |-> IF "channels" \in fields THEN body.channels ELSE row.channels,
   enabled |-> IF "enabled" \in fields THEN body.enabled ELSE row.enabled]

\* Mutant: the handler replaces the row.
ReplacePrefs(n) ==
  /\ requests[n].st = "sent" /\ exists
  /\ requests' = [requests EXCEPT ![n].st = "merged", ![n].row = requests[n].body,
                                 ![n].seen = writes]
  /\ UNCHANGED <<serverVars, tabVars, prefsHistory>>

\* handleSetPrefs: GetContact, and the body merged into the row it found.
MergePrefs(n) ==
  /\ requests[n].st = "sent" /\ exists
  /\ requests' = [requests EXCEPT ![n].st = "merged", ![n].seen = writes,
       ![n].row = Merged(requests[n].body, requests[n].sent, prefs)]
  /\ UNCHANGED <<serverVars, tabVars, prefsHistory>>

\* Mutant: a row is written for a contact that is gone.
WriteUnreferenced(n) ==
  /\ requests[n].st = "merged"
  /\ prefs' = requests[n].row
  /\ requests' = [requests EXCEPT ![n].st = "written", ![n].row = DefaultPrefs, ![n].seen = 0]
  /\ writes' = writes + 1
  /\ UNCHANGED <<exists, channels, muted, tabVars, wanted, hasty, trust, upsets>>

\* SetReminderPrefs: the whole row, if the contact it references is still there.
WritePrefs(n) ==
  /\ requests[n].st = "merged" /\ exists
  /\ prefs' = requests[n].row
  /\ requests' = [requests EXCEPT ![n].st = "written", ![n].row = DefaultPrefs, ![n].seen = 0]
  /\ writes' = writes + 1
  /\ UNCHANGED <<exists, channels, muted, tabVars, wanted, hasty, trust, upsets>>

\* An offset out of range, a contact that is not found or no longer referenced, a
\* network that is down.
RefusePrefs(n) ==
  /\ requests[n].st \in {"sent", "merged"}
  /\ requests' = [requests EXCEPT ![n].st = "refused", ![n].row = DefaultPrefs, ![n].seen = 0]
  /\ UNCHANGED <<serverVars, tabVars, prefsHistory>>

\* The contact is deleted elsewhere, and its row with it.
DeleteContact ==
  /\ exists /\ exists' = FALSE
  /\ prefs' = DefaultPrefs
  /\ UNCHANGED <<channels, muted, tabVars, requests, prefsHistory>>

\* The channels page; the list there and here is refetched at once.
DeleteChannel(ch) ==
  /\ ch \in channels /\ Upset
  /\ channels' = channels \ {ch}
  /\ UNCHANGED <<prefs, exists, muted, tabVars, requests, writes, wanted, hasty, trust>>

SetChannelEnabled(ch) ==
  /\ ch \in channels /\ Upset
  /\ muted' = Toggled(muted, ch)
  /\ UNCHANGED <<prefs, exists, channels, tabVars, requests, writes, wanted, hasty, trust>>

\* targetChannels with nothing selected.
DefaultTargets ==
  LET enabled == channels \ muted
  IN IF enabled \cap Defaults # {} THEN enabled \cap Defaults ELSE enabled

\* targetChannels: only a selection without any id means the defaults.
TargetChannels ==
  IF prefs.channels # {} THEN prefs.channels \cap (channels \ muted) ELSE DefaultTargets

\* The channels a scan sends the contact's reminders to: it passes over a paused one.
Targets == IF prefs.enabled THEN TargetChannels ELSE {}

PrefsNext ==
  \/ \E ch \in AllChannels : ToggleChip(ch) \/ DeleteChannel(ch) \/ SetChannelEnabled(ch)
  \/ \E form \in [offsets : Offsets, enabled : BOOLEAN] : EditTab(form)
  \/ SaveTab \/ ActivateAll
  \/ \E n \in DOMAIN requests :
       \/ PutSucceeds(n) \/ PutFails(n)
       \/ MergePrefs(n) \/ WritePrefs(n) \/ RefusePrefs(n)
  \/ Revisit \/ ReadPrefs \/ LandPrefs \/ LoadFails
  \/ DeleteContact

PrefsSpec == PrefsInit /\ [][PrefsNext]_contactVars

-----------------------------------------------------------------------------
(* Properties.                                                             *)

\* Every variable holds a value of its kind.
PrefsTypeOK ==
  /\ prefs \in Prefs /\ exists \in BOOLEAN
  /\ channels \subseteq AllChannels /\ muted \subseteq AllChannels
  /\ shown \in Prefs /\ tab \in [offsets : Offsets, enabled : BOOLEAN] /\ edited \in BOOLEAN
  /\ load \in [st : {"none", "asked", "answered"}, prefs : Prefs]
  /\ requests \in Seq(Request) /\ writes \in Nat
  /\ wanted \subseteq AllChannels /\ hasty \in BOOLEAN /\ trust \in {"none", "read", "full"}
  /\ upsets \in Nat

\* "Merge: only the fields the client sent change", where it holds: a PUT leaves the
\* fields it did not send alone unless another was written since it read the row.
SentFieldsChange ==
  [][\A n \in DOMAIN requests :
       requests'[n].st = "written" /\ requests[n].seen = writes =>
         requests[n].st = "written" \/
         \A f \in PrefFields \ requests[n].sent : prefs'[f] = prefs[f]]_contactVars

\* However PUTs overlap, a stored field is the first one or one that some client
\* sent: a lost update restores an old value and never makes one up.
FieldsWereSent ==
  exists => \A f \in PrefFields :
    \/ prefs[f] = FirstPrefs[f]
    \/ \E n \in DOMAIN requests : f \in requests[n].sent /\ prefs[f] = requests[n].body[f]

\* A contact deleted between the handler's read and its write gets no row again.
NoOrphanPrefs == ~exists => prefs = DefaultPrefs

\* Once everything is answered the page shows the stored row, whatever overlapped, and
\* so does the form unless something is typed there; after a lost answer, from the
\* next read on.
QuietPageShowsPrefs ==
  Quiet /\ exists /\ trust = "full" => shown = prefs /\ (~edited => tab = FormOf(prefs))

\* Clicks that wait for the one before to be saved and reloaded all count, whatever
\* happens to the channels: chips compose their bodies from the cached row, and Save,
\* or Activate, in between disturbs no selection.
PatientClicksKept ==
  /\ Quiet /\ ~hasty /\ exists
  /\ \A n \in DOMAIN requests : requests[n].st = "saved"
  => prefs.channels = wanted

\* "Changes save automatically - no selection uses the system default channels": with
\* no chip checked on a quiet page, the reminders of an active contact go to the defaults.
NoSelectionUsesDefaults ==
  /\ Quiet /\ exists /\ trust = "full"
  /\ shown.enabled /\ shown.channels \cap channels = {}
  => Targets = DefaultTargets
=============================================================================
