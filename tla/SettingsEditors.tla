-------------------------- MODULE SettingsEditors --------------------------
(***************************************************************************)
(* The settings document and the two pages that write all of it: the       *)
(* channels page, where switching a channel's Default saves at once        *)
(* (channel-list.tsx), and the settings page with its one form             *)
(* (settings-page-content.tsx).  Both compose their bodies from the        *)
(* query's copy, which GET fills from LoadSettings (api/settings.go).      *)
(*                                                                         *)
(* All that is not the default channels is the rest of a document.         *)
(***************************************************************************)
EXTENDS Integers, Sequences

CONSTANTS
  DefaultIds,         \* ids of channels
  Rests,              \* what the rest of a document may be
  Unset, Fallback,    \* the rest with its lists left empty, and what it is read as
  MaxSaves,           \* bounds of the model: saves sent, and
  MaxMishaps          \* answers, refetches and reads that go wrong, saves elsewhere

ASSUME RestsAssumption == {Unset, Fallback} \subseteq Rests
ASSUME SavesAssumption == MaxSaves \in Nat /\ MaxMishaps \in Nat

Document == [defaults : SUBSET DefaultIds, rest : Rests]
DefaultDocument == [defaults |-> {}, rest |-> Fallback]

\* LoadSettings: what is empty is read as the built-in default.
Loaded(doc) == [doc EXCEPT !.rest = IF @ = Unset THEN Fallback ELSE @]

VARIABLES
  document,           \* the settings row
  copy,               \* the query's copy of it
  reload,             \* the refetch of the copy, and the toggle that waits for it
  page,               \* the page that is open
  form,               \* the form of the settings page, while that is open
  saves,              \* every PUT sent from here, in this order
  opened,             \* how many of them are older than the open page
  \* history
  wish,               \* the document as switched and saved here
  hurried,            \* a page was left before its saves were answered and reloaded
  known,              \* "none" after a mishap until a later read has landed
  mishaps

pageVariables == <<copy, reload, page, form, saves, opened>>
settingsHistory == <<wish, hurried, known, mishaps>>
settingsVars == <<document, pageVariables, settingsHistory>>

NoReload == [st |-> "none", by |-> 0, doc |-> DefaultDocument]
Asked(by) == [NoReload EXCEPT !.st = "asked", !.by = by]

SettingsInit ==
  /\ document \in Document /\ copy = Loaded(document)
  /\ reload = NoReload /\ saves = <<>> /\ opened = 0
  /\ page = "channels" /\ form = DefaultDocument
  /\ wish = document /\ hurried = FALSE /\ known = "full" /\ mishaps = 0

Mishap == mishaps < MaxMishaps /\ mishaps' = mishaps + 1 /\ known' = "none"

Unanswered(n) == saves[n].st \in {"sent", "stored", "rejected"}
Idle == reload.st = "none" /\ \A n \in DOMAIN saves : ~Unanswered(n)

\* Mutant: a switch is released by the answer.
ReleasedByAnswer == Len(saves) > opened /\ Unanswered(Len(saves))

\* isPending: the newest save of the open page has no answer.  A switch stays locked
\* until the refetch that followed the answer has ended.
Locked ==
  /\ Len(saves) > opened
  /\ Unanswered(Len(saves)) \/ reload.by = Len(saves)

-----------------------------------------------------------------------------
(* The pages.                                                              *)

SendSettings(by, body) ==
  /\ Len(saves) < MaxSaves /\ ~Locked
  /\ saves' = Append(saves, [page |-> by, body |-> body, st |-> "sent"])
  /\ UNCHANGED <<document, copy, reload, page, form, opened, hurried, known, mishaps>>

Switched(set, id) == IF id \in set THEN set \ {id} ELSE set \cup {id}

\* The Default switch of a channel.
ToggleDefault(id) ==
  /\ page = "channels"
  /\ SendSettings("channels", [copy EXCEPT !.defaults = Switched(@, id)])
  /\ wish' = [wish EXCEPT !.defaults = Switched(@, id)]

EditForm(rest) ==
  /\ page = "settings" /\ rest # form.rest
  /\ form' = [form EXCEPT !.rest = rest]
  /\ UNCHANGED <<document, copy, reload, page, saves, opened, settingsHistory>>

\* Save, on any tab: the whole form, the default channels it was filled with included.
SaveForm ==
  /\ page = "settings"
  /\ SendSettings("settings", form)
  /\ wish' = [wish EXCEPT !.rest = form.rest]

\* The other page is opened: its form is filled once, from the copy there is, and the
\* copy is refetched.
OpenPage ==
  /\ page' = IF page = "channels" THEN "settings" ELSE "channels"
  /\ form' = IF page = "channels" THEN copy ELSE DefaultDocument
  /\ opened' = Len(saves)
  /\ reload' = IF reload.st = "none" THEN Asked(0) ELSE reload
  /\ hurried' = (hurried \/ ~Idle)
  /\ UNCHANGED <<document, copy, saves, wish, known, mishaps>>

\* Mutant: a save leaves the copy as it is.
SaveSucceedsQuietly(n) ==
  /\ saves[n].st = "stored"
  /\ saves' = [saves EXCEPT ![n].st = "saved"]
  /\ UNCHANGED <<document, copy, reload, page, form, opened, settingsHistory>>

\* onSuccess: the copy is invalidated, and a refetch under way dropped; the channels
\* page waits for the new one.
SaveSucceeds(n) ==
  /\ saves[n].st = "stored"
  /\ saves' = [saves EXCEPT ![n].st = "saved"]
  /\ reload' = Asked(IF saves[n].page = "channels" THEN n ELSE 0)
  /\ known' = IF known = "read" THEN "none" ELSE known
  /\ UNCHANGED <<document, copy, page, form, opened, wish, hurried, mishaps>>

\* onError: a toast, also when only the answer was lost.
SaveFails(n) ==
  /\ \/ saves[n].st = "rejected" /\ UNCHANGED <<known, mishaps>>
     \/ saves[n].st = "stored" /\ Mishap
  /\ saves' = [saves EXCEPT ![n].st = "failed"]
  /\ UNCHANGED <<document, copy, reload, page, form, opened, wish, hurried>>

\* The window gains focus.
ReloadSettings ==
  /\ reload.st = "none"
  /\ reload' = Asked(0)
  /\ UNCHANGED <<document, copy, page, form, saves, opened, settingsHistory>>

LandSettings ==
  /\ reload.st = "answered"
  /\ copy' = reload.doc /\ reload' = NoReload
  /\ known' = IF known = "read" THEN "full" ELSE known
  /\ UNCHANGED <<document, page, form, saves, opened, wish, hurried, mishaps>>

ReloadFails ==
  /\ reload.st # "none" /\ Mishap
  /\ reload' = NoReload
  /\ UNCHANGED <<document, copy, page, form, saves, opened, wish, hurried>>

-----------------------------------------------------------------------------
(* The server.                                                             *)

\* GET: a row that cannot be read is answered with the defaults.
ReadSettings ==
  /\ reload.st = "asked"
  /\ \/ /\ reload' = [reload EXCEPT !.st = "answered", !.doc = Loaded(document)]
        /\ known' = IF known = "none" THEN "read" ELSE known
        /\ UNCHANGED mishaps
     \/ reload' = [reload EXCEPT !.st = "answered", !.doc = DefaultDocument] /\ Mishap
  /\ UNCHANGED <<document, copy, page, form, saves, opened, wish, hurried>>

\* PUT: a document that is valid replaces the row.
StoreSettings(n) ==
  /\ saves[n].st = "sent"
  /\ document' = saves[n].body
  /\ saves' = [saves EXCEPT ![n].st = "stored", ![n].body = DefaultDocument]
  /\ UNCHANGED <<copy, reload, page, form, opened, settingsHistory>>

\* A value out of its range, or a dead network.
RejectSettings(n) ==
  /\ saves[n].st = "sent"
  /\ saves' = [saves EXCEPT ![n].st = "rejected", ![n].body = DefaultDocument]
  /\ UNCHANGED <<document, copy, reload, page, form, opened, settingsHistory>>

\* Another client saves.
SaveElsewhere(doc) ==
  /\ Mishap
  /\ document' = doc
  /\ UNCHANGED <<pageVariables, wish, hurried>>

SettingsNext ==
  \/ \E id \in DefaultIds : ToggleDefault(id)
  \/ \E rest \in Rests : EditForm(rest)
  \/ SaveForm \/ OpenPage
  \/ \E n \in DOMAIN saves :
       SaveSucceeds(n) \/ SaveFails(n) \/ StoreSettings(n) \/ RejectSettings(n)
  \/ ReloadSettings \/ ReadSettings \/ LandSettings \/ ReloadFails
  \/ \E doc \in Document : SaveElsewhere(doc)

SettingsSpec == SettingsInit /\ [][SettingsNext]_settingsVars

-----------------------------------------------------------------------------
(* Properties.                                                             *)

\* However fast switches and saves follow one another on a page, each of them ends up
\* in the document, though every body carries all of it, as long as no page is left
\* with a save or a refetch open, nothing goes wrong and nobody else saves.
SavesAreKept ==
  /\ ~hurried /\ mishaps = 0
  /\ \A n \in DOMAIN saves : saves[n].st = "saved"
  => Loaded(document) = Loaded(wish)

\* Once everything is answered the copy that the next body is composed from is what
\* the server stores, whatever overlapped and whichever page was left early; a lost
\* answer, a read that failed or another client's save is made good by the next read.
IdleCopyIsStored == Idle /\ known = "full" => copy = Loaded(document)
=============================================================================
