------------------------ MODULE OccasionPrefsEditor ------------------------
(***************************************************************************)
(* The editor of one occasion's reminder override                          *)
(* (occasion-prefs-editor.tsx), the query cache it reads and the server's  *)
(* full-replace PUT (api/occasionprefs.go).  Every edit sends the complete *)
(* row, none waits for the one before, and what is on screen is also       *)
(* changed by answers and refetches that left before the last edit.        *)
(*                                                                         *)
(* Offsets and channels of a row are its contents.  An edit is one click   *)
(* or one blurred input; the render that follows it is part of it.         *)
(***************************************************************************)
EXTENDS Integers, Sequences

CONSTANTS
  Contents,           \* what offsets and channels may be
  MaxPuts,            \* bounds of the model: rows sent and loaded,
  MaxFaults           \* answers and refetches lost

ASSUME BoundsAssumption == Contents # {} /\ MaxPuts \in Nat /\ MaxFaults \in Nat

Row == [contents : Contents, enabled : BOOLEAN, custom : BOOLEAN]
Fields == {"contents", "enabled", "custom"}

VARIABLES
  stored,             \* the occasion's row in occasion_prefs
  \* the page
  local,              \* rowRef.current: its row, and the PUT it is the body of (0: none)
  custom,             \* the mirror of the row's flag that drives switch and panel
  cache,              \* the row in the cached contact, which is also the prop
  fetch,              \* the refetch of the contact
  puts,               \* the row found first and every one sent, in this order
  mounted,            \* how many of them are older than this editor
  \* history
  faults, overtaken   \* did a PUT overtake an older one on its way

pageVars == <<local, custom, cache, fetch, puts, mounted>>
vars == <<stored, pageVars, faults, overtaken>>

PutState == {"sent", "applied", "refused", "saved", "failed"}
Open == {"sent", "applied", "refused"}       \* its answer has not arrived
Newest == Len(puts)

NoFetch == [st |-> "none", row |-> CHOOSE r \in Row : TRUE]

Init ==
  /\ stored \in Row /\ cache = stored
  /\ local = [row |-> stored, put |-> 0] /\ custom = stored.custom
  /\ fetch = NoFetch
  /\ puts = <<[body |-> stored, st |-> "saved"]>> /\ mounted = 1
  /\ faults = 0 /\ overtaken = FALSE

Fault == faults < MaxFaults /\ faults' = faults + 1

\* save.isPending: the newest mutation of this editor has no answer yet.
Pending == Newest > mounted /\ puts[Newest].st \in Open

\* syncFromServer: a row that differs is adopted, and is no PUT's body.
Synced(row) == IF local.row = row THEN local ELSE [row |-> row, put |-> 0]

-----------------------------------------------------------------------------
(* The user.                                                               *)

\* Mutant: the body is numbered like the PUT before it.
SaveUnderOldNumber(row) ==
  /\ Newest < MaxPuts
  /\ local' = [row |-> row, put |-> Newest + 2]
  /\ puts' = Append(puts, [body |-> row, st |-> "sent"])

\* saveRow: the row becomes the local one and the body of a PUT of its own.
Save(row) ==
  /\ Newest < MaxPuts
  /\ local' = [row |-> row, put |-> Newest + 1]
  /\ puts' = Append(puts, [body |-> row, st |-> "sent"])

\* Blurring the offsets input or clicking a channel chip; the panel is open.
EditContents(c) ==
  /\ custom /\ c # local.row.contents
  /\ Save([local.row EXCEPT !.contents = c])
  /\ UNCHANGED <<stored, custom, cache, fetch, mounted, faults, overtaken>>

\* The Active switch; off is confirmed in a dialog, and saved from the row then.
FlipEnabled ==
  /\ Save([local.row EXCEPT !.enabled = ~@])
  /\ UNCHANGED <<stored, custom, cache, fetch, mounted, faults, overtaken>>

\* The Custom switch, which is locked while the newest PUT is pending.
CustomOn ==
  /\ ~custom /\ ~Pending
  /\ custom' = TRUE
  /\ IF local.row.custom THEN UNCHANGED <<local, puts>>
     ELSE Save([local.row EXCEPT !.custom = TRUE])
  /\ UNCHANGED <<stored, cache, fetch, mounted, faults, overtaken>>

CustomOff ==
  /\ custom /\ ~Pending
  /\ custom' = FALSE
  /\ Save([local.row EXCEPT !.custom = FALSE])
  /\ UNCHANGED <<stored, cache, fetch, mounted, faults, overtaken>>

\* Leaving the page and coming back: a new editor starts from the cached row,
\* which is refetched; the old one's PUTs are still under way.
Reopen ==
  /\ local' = [row |-> cache, put |-> 0] /\ custom' = cache.custom
  /\ mounted' = Newest
  /\ fetch' = IF fetch.st \in {"none", "failed"} THEN [NoFetch EXCEPT !.st = "asked"] ELSE fetch
  /\ UNCHANGED <<stored, cache, puts, faults, overtaken>>

-----------------------------------------------------------------------------
(* PUTs.                                                                   *)

Answered(n, st) == puts' = [puts EXCEPT ![n].st = st]

\* invalidate: a refetch under way is dropped and a new one leaves.
Invalidate == fetch' = [NoFetch EXCEPT !.st = "asked"]

\* handleSetOccasionPrefs replaces the whole row, in whatever order PUTs arrive.
Apply(n) ==
  /\ puts[n].st = "sent"
  /\ stored' = puts[n].body
  /\ Answered(n, "applied")
  /\ overtaken' = (overtaken \/ \E m \in 1 .. n - 1 : puts[m].st = "sent")
  /\ UNCHANGED <<local, custom, cache, fetch, mounted, faults>>

\* It is refused or lost: a rejected offset, a deleted occasion, a dead network.
Refuse(n) ==
  /\ puts[n].st = "sent"
  /\ Answered(n, "refused")
  /\ UNCHANGED <<stored, local, custom, cache, fetch, mounted, faults, overtaken>>

\* onSuccess: the saved row is adopted unless a newer edit has been made.
Succeed(n) ==
  /\ puts[n].st = "applied"
  /\ Answered(n, "saved")
  /\ local' = IF local.put = n THEN Synced(puts[n].body) ELSE local
  /\ Invalidate
  /\ UNCHANGED <<stored, custom, cache, mounted, faults, overtaken>>

\* Mutant: onError reverts the row and forgets the mirror of its flag.
FailKeepsSwitch(n) ==
  /\ \/ puts[n].st = "refused" /\ UNCHANGED faults
     \/ puts[n].st = "applied" /\ Fault
  /\ Answered(n, "failed")
  /\ local' = IF local.put = n THEN Synced(cache) ELSE local
  /\ Invalidate
  /\ UNCHANGED <<stored, custom, cache, mounted, overtaken>>

\* Mutant: onError leaves the optimistic row on screen.
FailKeepsRow(n) ==
  /\ \/ puts[n].st = "refused" /\ UNCHANGED faults
     \/ puts[n].st = "applied" /\ Fault
  /\ Answered(n, "failed")
  /\ Invalidate
  /\ UNCHANGED <<stored, local, custom, cache, mounted, overtaken>>

\* onError, also when only the answer was lost: unless a newer edit has been
\* made, the optimistic row gives way to the cached one.
Fail(n) ==
  /\ \/ puts[n].st = "refused" /\ UNCHANGED faults
     \/ puts[n].st = "applied" /\ Fault
  /\ Answered(n, "failed")
  /\ IF local.put = n THEN local' = Synced(cache) /\ custom' = cache.custom
                      ELSE UNCHANGED <<local, custom>>
  /\ Invalidate
  /\ UNCHANGED <<stored, cache, mounted, overtaken>>

-----------------------------------------------------------------------------
(* Refetches.                                                              *)

\* The window gains focus, or another part of the page invalidates the contact.
Refetch ==
  /\ Invalidate
  /\ UNCHANGED <<stored, local, custom, cache, puts, mounted, faults, overtaken>>

Read ==
  /\ fetch.st = "asked"
  /\ fetch' = [st |-> "answered", row |-> stored]
  /\ UNCHANGED <<stored, local, custom, cache, puts, mounted, faults, overtaken>>

\* Mutant: a refetch is adopted even while a PUT is pending.
LandAlways ==
  /\ fetch.st = "answered"
  /\ cache' = fetch.row /\ fetch' = NoFetch
  /\ IF fetch.row # cache
     THEN local' = Synced(fetch.row) /\ custom' = fetch.row.custom
     ELSE UNCHANGED <<local, custom>>
  /\ UNCHANGED <<stored, puts, mounted, faults, overtaken>>

\* The answer replaces the cached row.  A row that is equal keeps its identity
\* there and triggers nothing; another is adopted unless a PUT is pending.
Land ==
  /\ fetch.st = "answered"
  /\ cache' = fetch.row /\ fetch' = NoFetch
  /\ IF fetch.row # cache /\ ~Pending
     THEN local' = Synced(fetch.row) /\ custom' = fetch.row.custom
     ELSE UNCHANGED <<local, custom>>
  /\ UNCHANGED <<stored, puts, mounted, faults, overtaken>>

RefetchFails ==
  /\ fetch.st \in {"asked", "answered"}
  /\ Fault
  /\ fetch' = [NoFetch EXCEPT !.st = "failed"]
  /\ UNCHANGED <<stored, local, custom, cache, puts, mounted, overtaken>>

Next ==
  \/ \E c \in Contents : EditContents(c)
  \/ FlipEnabled \/ CustomOn \/ CustomOff \/ Reopen
  \/ \E n \in 1 .. Newest : Apply(n) \/ Refuse(n) \/ Succeed(n) \/ Fail(n)
  \/ Refetch \/ Read \/ Land \/ RefetchFails

Spec == Init /\ [][Next]_vars

-----------------------------------------------------------------------------
(* Properties.                                                             *)

\* Every variable holds a value of its kind.
TypeOK ==
  /\ stored \in Row /\ cache \in Row
  /\ puts \in Seq([body : Row, st : PutState]) /\ mounted \in 1 .. Len(puts)
  /\ local \in [row : Row, put : 0 .. Len(puts)]
  /\ custom \in BOOLEAN
  /\ fetch \in [st : {"none", "asked", "answered", "failed"}, row : Row]
  /\ faults \in Nat /\ overtaken \in BOOLEAN

\* The switch, the panel and the row agree: whichever edit, answer, revert or
\* refetch came last, the mirror of the custom flag is the row's.
SwitchShowsRow == custom = local.row.custom

Settled == fetch.st = "none" /\ \A n \in 1 .. Newest : puts[n].st \notin Open

\* Once every PUT is answered and the last refetch has landed, the screen shows
\* what the server stores, whatever failed and whatever refetch was ignored,
\* unless one PUT overtook another.
SettledAgrees == Settled /\ ~overtaken => local.row = stored /\ cache = stored

\* The body b is some row at least as new as the newest acknowledged one, with one
\* field edited.
FollowsNewest(b) ==
  \E n \in 1 .. Newest, f \in Fields :
    /\ \A m \in n + 1 .. Newest : puts[m].st # "saved"
    /\ b = [puts[n].body EXCEPT ![f] = b[f]]

\* "Back-to-back actions cannot send a stale full-replace body that silently reverts
\* the previous action": every PUT follows the newest acknowledged row or a newer.
NoStaleBody ==
  [][Len(puts') > Newest /\ mounted = 1 /\ ~overtaken => FollowsNewest(puts'[Len(puts')].body)]_vars

\* What holds of it: as long as no PUT has failed, each body is the one before it
\* with one field edited, though refetches from before that PUT keep landing.
OnlyFailuresRevert ==
  [][/\ Len(puts') > Newest /\ mounted = 1 /\ ~overtaken
     /\ \A n \in 1 .. Newest : puts[n].st # "failed"
     => \E f \in Fields :
          puts'[Len(puts')].body = [puts[Newest].body EXCEPT ![f] = puts'[Len(puts')].body[f]]]_vars
=============================================================================
