----------------------- MODULE SettingsEditorsProofs -----------------------
(***************************************************************************)
(* Proofs about SettingsEditors for any channels and documents and any     *)
(* number of saves and mishaps.                                            *)
(***************************************************************************)
EXTENDS SettingsEditors, SequenceTheorems, TLAPS

Pages == {"channels", "settings"}
Answers == {"sent", "stored", "rejected", "saved", "failed"}
Save == [page : Pages, body : Document, st : Answers]

SettingsTypeOK ==
  /\ document \in Document /\ copy \in Document /\ form \in Document /\ wish \in Document
  /\ reload \in [st : {"none", "asked", "answered"}, by : Nat, doc : Document]
  /\ page \in Pages /\ saves \in Seq(Save) /\ opened \in 0 .. Len(saves)
  /\ hurried \in BOOLEAN /\ known \in {"none", "read", "full"} /\ mishaps \in Nat

\* A save is in the document and its answer is still to come.
Stored == \E n \in DOMAIN saves : saves[n].st = "stored"

\* Where the copy is behind the document, an answer or a read that will make it good is
\* still to come.
CopyOK ==
  /\ known = "full" =>
       \/ Stored \/ reload.st = "asked"
       \/ reload.st = "answered" /\ reload.doc = Loaded(document)
       \/ reload.st = "none" /\ copy = Loaded(document)
  /\ known = "read" => reload.st = "answered" /\ (Stored \/ reload.doc = Loaded(document))

Newest == Len(saves)

\* Nothing has gone wrong and no page was left early.
Calm ==
  ~hurried /\ mishaps = 0 /\ \A n \in DOMAIN saves : saves[n].st \notin {"rejected", "failed"}

\* Then only the open page's newest save may be without an answer, it carries what is
\* wished, and what the next one will be composed from is up to date once it can be sent.
CalmOK ==
  Calm =>
    /\ known = "full"
    /\ \A n \in DOMAIN saves : Unanswered(n) => n = Newest /\ n > opened /\ saves[n].page = page
    /\ IF Newest > 0 /\ saves[Newest].st = "sent" THEN Loaded(saves[Newest].body) = Loaded(wish)
                                                  ELSE Loaded(document) = Loaded(wish)
    /\ page = "settings" => form.defaults = wish.defaults
    /\ page = "channels" =>
         \/ Newest > opened /\ (Unanswered(Newest) \/ (reload.by = Newest /\ reload.st # "none"))
         \/ copy = Loaded(document)

SettingsInv == SettingsTypeOK /\ CopyOK /\ CalmOK
-----------------------------------------------------------------------------
(* Documents and saves.                                                    *)

\* Loading changes nothing but an unset rest, and what has been loaded no more.
LEMMA LoadedTypes ==
  /\ DefaultDocument \in Document
  /\ \A doc \in Document : /\ Loaded(doc) \in Document
                            /\ Loaded(doc).defaults = doc.defaults
                            /\ Loaded(Loaded(doc)) = Loaded(doc)
  /\ \A doc \in Document, id \in DefaultIds :
       /\ [doc EXCEPT !.defaults = Switched(@, id)] \in Document
       /\ [doc EXCEPT !.defaults = Switched(@, id)].defaults = Switched(doc.defaults, id)
       /\ [doc EXCEPT !.defaults = Switched(@, id)].rest = doc.rest
  /\ \A doc \in Document, rest \in Rests : /\ [doc EXCEPT !.rest = rest] \in Document
                                           /\ [doc EXCEPT !.rest = rest].defaults = doc.defaults
                                           /\ [doc EXCEPT !.rest = rest].rest = rest
<1>1. DefaultDocument \in Document
  BY RestsAssumption DEF DefaultDocument, Document
<1>2. ASSUME NEW doc \in Document
      PROVE  /\ Loaded(doc) \in Document /\ Loaded(doc).defaults = doc.defaults
             /\ Loaded(Loaded(doc)) = Loaded(doc)
  BY RestsAssumption DEF Document, Loaded
<1>3. ASSUME NEW doc \in Document, NEW id \in DefaultIds
      PROVE  /\ [doc EXCEPT !.defaults = Switched(@, id)] \in Document
             /\ [doc EXCEPT !.defaults = Switched(@, id)].defaults = Switched(doc.defaults, id)
             /\ [doc EXCEPT !.defaults = Switched(@, id)].rest = doc.rest
  BY DEF Document, Switched
<1>4. ASSUME NEW doc \in Document, NEW rest \in Rests
      PROVE  /\ [doc EXCEPT !.rest = rest] \in Document
             /\ [doc EXCEPT !.rest = rest].defaults = doc.defaults
             /\ [doc EXCEPT !.rest = rest].rest = rest
  BY DEF Document
<1> QED BY <1>1, <1>2, <1>3, <1>4

\* Documents that agree load alike, and loading sees the two parts apart.
LEMMA LoadedParts ==
  ASSUME NEW doc \in Document, NEW other \in Document
  PROVE  /\ Loaded(doc) = Loaded(other) =>
              \A id \in DefaultIds : Loaded([Loaded(doc) EXCEPT !.defaults = Switched(@, id)])
                                     = Loaded([other EXCEPT !.defaults = Switched(@, id)])
         /\ doc.defaults = other.defaults /\ doc.rest = other.rest => doc = other
<1>1. doc.defaults = other.defaults /\ doc.rest = other.rest => doc = other
  BY DEF Document
<1>2. ASSUME NEW id \in DefaultIds, Loaded(doc) = Loaded(other)
      PROVE  Loaded([Loaded(doc) EXCEPT !.defaults = Switched(@, id)])
             = Loaded([other EXCEPT !.defaults = Switched(@, id)])
  <2>1. Loaded(doc).defaults = other.defaults
    BY <1>2, LoadedTypes
  <2>2. Loaded(doc).rest = IF other.rest = Unset THEN Fallback ELSE other.rest
    BY <1>2 DEF Loaded, Document
  <2>3. Loaded(doc) \in Document
    BY LoadedTypes
  <2> QED BY <2>1, <2>2, <2>3 DEF Loaded, Document
<1> QED BY <1>1, <1>2

\* A save more is appended, unanswered; the others stay.
LEMMA SendEffect ==
  ASSUME SettingsTypeOK, NEW by \in Pages, NEW body \in Document, SendSettings(by, body)
  PROVE  /\ saves' \in Seq(Save) /\ Newest' = Newest + 1 /\ Newest \in Nat
         /\ DOMAIN saves' = DOMAIN saves \cup {Newest'} /\ DOMAIN saves = 1 .. Newest
         /\ \A n \in DOMAIN saves : saves'[n] = saves[n]
         /\ saves'[Newest'].page = by /\ saves'[Newest'].body = body
         /\ saves'[Newest'].st = "sent"
<1> DEFINE s == [page |-> by, body |-> body, st |-> "sent"]
<1>1. s \in Save /\ s.page = by /\ s.body = body /\ s.st = "sent"
  BY DEF Save, Answers
<1>2. saves' = Append(saves, s)
  BY DEF SendSettings
<1>3. saves \in Seq(Save)
  BY DEF SettingsTypeOK
<1> HIDE DEF s
<1>4. /\ saves' \in Seq(Save) /\ Len(saves') = Len(saves) + 1 /\ Len(saves) \in Nat
      /\ \A n \in 1 .. Len(saves) : saves'[n] = saves[n]
      /\ saves'[Len(saves) + 1] = s
  BY <1>1, <1>2, <1>3
<1>5. DOMAIN saves = 1 .. Len(saves) /\ DOMAIN saves' = 1 .. Len(saves')
  BY <1>3, <1>4
<1> QED BY <1>1, <1>4, <1>5 DEF Newest

\* The four steps of a save.
SaveStep(n) == SaveSucceeds(n) \/ SaveFails(n) \/ StoreSettings(n) \/ RejectSettings(n)

\* What they come from and go to.
LEMMA StepEffect ==
  ASSUME SettingsTypeOK, NEW n \in DOMAIN saves, SaveStep(n)
  PROVE  /\ saves' \in Seq(Save) /\ Newest' = Newest /\ Newest \in Nat
         /\ DOMAIN saves' = DOMAIN saves /\ n \in 1 .. Newest
         /\ \A m \in DOMAIN saves : saves'[m].page = saves[m].page /\ (m # n => saves'[m] = saves[m])
         /\ Unanswered(n)
         /\ \/ SaveSucceeds(n) /\ saves'[n].st = "saved"
            \/ SaveFails(n) /\ saves'[n].st = "failed"
            \/ StoreSettings(n) /\ saves'[n].st = "stored"
            \/ RejectSettings(n) /\ saves'[n].st = "rejected"
         /\ saves[n].body \in Document
<1>1. saves \in Seq(Save) /\ saves[n] \in Save
  BY DEF SettingsTypeOK
<1>2. ASSUME NEW s \in Save, saves' = [saves EXCEPT ![n] = s]
      PROVE  /\ saves' \in Seq(Save) /\ Newest' = Newest /\ Newest \in Nat
             /\ DOMAIN saves' = DOMAIN saves /\ n \in 1 .. Newest
             /\ \A m \in DOMAIN saves : m # n => saves'[m] = saves[m]
             /\ saves'[n] = s
  BY <1>1, <1>2 DEF Newest
<1>3. ASSUME NEW st \in Answers, NEW body \in Document
      PROVE  LET s == [saves[n] EXCEPT !.st = st, !.body = body]
             IN s \in Save /\ s.page = saves[n].page /\ s.st = st
  BY <1>1 DEF Save
<1>4. ASSUME NEW st \in Answers
      PROVE  LET s == [saves[n] EXCEPT !.st = st]
             IN s \in Save /\ s.page = saves[n].page /\ s.st = st
  BY <1>1 DEF Save
<1>5. CASE SaveSucceeds(n)
  <2> DEFINE s == [saves[n] EXCEPT !.st = "saved"]
  <2>1. saves' = [saves EXCEPT ![n] = s] /\ saves[n].st = "stored"
    BY <1>5 DEF SaveSucceeds
  <2>2. "saved" \in Answers
    BY DEF Answers
  <2>3. s \in Save /\ s.page = saves[n].page /\ s.st = "saved"
    BY <1>4, <2>2
  <2>4. Unanswered(n) /\ saves[n].body \in Document
    BY <1>1, <2>1 DEF Unanswered, Save
  <2> HIDE DEF s
  <2> QED BY <1>2, <1>5, <2>1, <2>3, <2>4
<1>6. CASE SaveFails(n)
  <2> DEFINE s == [saves[n] EXCEPT !.st = "failed"]
  <2>1. saves' = [saves EXCEPT ![n] = s] /\ saves[n].st \in {"stored", "rejected"}
    BY <1>6 DEF SaveFails
  <2>2. "failed" \in Answers
    BY DEF Answers
  <2>3. s \in Save /\ s.page = saves[n].page /\ s.st = "failed"
    BY <1>4, <2>2
  <2>4. Unanswered(n) /\ saves[n].body \in Document
    BY <1>1, <2>1 DEF Unanswered, Save
  <2> HIDE DEF s
  <2> QED BY <1>2, <1>6, <2>1, <2>3, <2>4
<1>7. CASE StoreSettings(n)
  <2> DEFINE s == [saves[n] EXCEPT !.st = "stored", !.body = DefaultDocument]
  <2>1. saves' = [saves EXCEPT ![n] = s] /\ saves[n].st = "sent"
    BY <1>7 DEF StoreSettings
  <2>2. "stored" \in Answers /\ DefaultDocument \in Document
    BY LoadedTypes DEF Answers
  <2>3. s \in Save /\ s.page = saves[n].page /\ s.st = "stored"
    BY <1>3, <2>2
  <2>4. Unanswered(n) /\ saves[n].body \in Document
    BY <1>1, <2>1 DEF Unanswered, Save
  <2> HIDE DEF s
  <2> QED BY <1>2, <1>7, <2>1, <2>3, <2>4
<1>8. CASE RejectSettings(n)
  <2> DEFINE s == [saves[n] EXCEPT !.st = "rejected", !.body = DefaultDocument]
  <2>1. saves' = [saves EXCEPT ![n] = s] /\ saves[n].st = "sent"
    BY <1>8 DEF RejectSettings
  <2>2. "rejected" \in Answers /\ DefaultDocument \in Document
    BY LoadedTypes DEF Answers
  <2>3. s \in Save /\ s.page = saves[n].page /\ s.st = "rejected"
    BY <1>3, <2>2
  <2>4. Unanswered(n) /\ saves[n].body \in Document
    BY <1>1, <2>1 DEF Unanswered, Save
  <2> HIDE DEF s
  <2> QED BY <1>2, <1>8, <2>1, <2>3, <2>4
<1> QED BY <1>5, <1>6, <1>7, <1>8 DEF SaveStep
-----------------------------------------------------------------------------
(* The invariant.                                                          *)

\* At first.
LEMMA InvInit == SettingsInit => SettingsInv
<1> SUFFICES ASSUME SettingsInit PROVE SettingsInv
  OBVIOUS
<1>1. /\ document \in Document /\ copy = Loaded(document) /\ wish = document /\ form \in Document
      /\ saves = <<>> /\ opened = 0 /\ page = "channels" /\ known = "full"
      /\ reload.st = "none" /\ Loaded(document) \in Document
  BY LoadedTypes DEF SettingsInit, NoReload
<1>2. reload \in [st : {"none", "asked", "answered"}, by : Nat, doc : Document]
  BY LoadedTypes DEF SettingsInit, NoReload
<1>3. SettingsTypeOK
  <2>1. saves \in Seq(Save) /\ opened \in 0 .. Len(saves)
    BY <1>1
  <2>2. page \in Pages
    BY <1>1 DEF Pages
  <2> QED BY <1>1, <1>2, <2>1, <2>2 DEF SettingsInit, SettingsTypeOK
<1>4. CopyOK
  BY <1>1 DEF CopyOK
<1>5. CalmOK
  BY <1>1 DEF CalmOK, Newest
<1> QED BY <1>3, <1>4, <1>5 DEF SettingsInv

\* What a save sent from here is composed from is of the right kind.
LEMMA SendTypes ==
  ASSUME SettingsTypeOK
  PROVE  /\ \A id \in DefaultIds : [copy EXCEPT !.defaults = Switched(@, id)] \in Document
         /\ \A id \in DefaultIds : [wish EXCEPT !.defaults = Switched(@, id)] \in Document
         /\ [wish EXCEPT !.rest = form.rest] \in Document
         /\ "channels" \in Pages /\ "settings" \in Pages
<1>1. copy \in Document /\ wish \in Document /\ form.rest \in Rests
  BY DEF SettingsTypeOK, Document
<1> QED BY <1>1, LoadedTypes DEF Pages

\* Every step keeps the types.
LEMMA TypeNext == SettingsTypeOK /\ [SettingsNext]_settingsVars => SettingsTypeOK'
<1> SUFFICES ASSUME SettingsTypeOK, [SettingsNext]_settingsVars PROVE SettingsTypeOK'
  OBVIOUS
<1> DEFINE Reloads == [st : {"none", "asked", "answered"}, by : Nat, doc : Document]
<1>1. /\ NoReload \in Reloads
      /\ \A by \in Nat : Asked(by) \in Reloads
      /\ \A doc \in Document : [reload EXCEPT !.st = "answered", !.doc = doc] \in Reloads
      /\ \A r \in Reloads : r.doc \in Document
  BY LoadedTypes DEF SettingsTypeOK, NoReload, Asked
<1>2. Mishap => mishaps' \in Nat /\ known' \in {"none", "read", "full"}
  BY DEF Mishap, SettingsTypeOK
<1>3. ASSUME NEW by \in Pages, NEW body \in Document, SendSettings(by, body), wish' \in Document
      PROVE  SettingsTypeOK'
  <2>1. saves' \in Seq(Save) /\ opened \in 0 .. Len(saves')
    BY <1>3, SendEffect DEF Newest, SettingsTypeOK
  <2> QED BY <1>3, <2>1 DEF SendSettings, SettingsTypeOK
<1>4. ASSUME NEW id \in DefaultIds, ToggleDefault(id) PROVE SettingsTypeOK'
  BY <1>3, <1>4, SendTypes DEF ToggleDefault
<1>5. CASE SaveForm
  <2>1. form \in Document
    BY DEF SettingsTypeOK
  <2> QED BY <1>3, <1>5, <2>1, SendTypes DEF SaveForm
<1>6. ASSUME NEW rest \in Rests, EditForm(rest) PROVE SettingsTypeOK'
  <2>1. form' \in Document
    BY <1>6, LoadedTypes DEF EditForm, SettingsTypeOK
  <2> QED BY <1>6, <2>1 DEF EditForm, settingsHistory, SettingsTypeOK
<1>7. CASE OpenPage
  <2>1. form' \in Document /\ page' \in Pages /\ reload' \in Reloads
    BY <1>1, <1>7, LoadedTypes DEF OpenPage, SettingsTypeOK, Pages
  <2>2. opened' \in 0 .. Len(saves) /\ hurried' \in BOOLEAN
    BY <1>7 DEF OpenPage, SettingsTypeOK, Idle
  <2> QED BY <1>7, <2>1, <2>2 DEF OpenPage, SettingsTypeOK
<1>8. ASSUME NEW n \in DOMAIN saves, SaveStep(n) PROVE SettingsTypeOK'
  <2>1. saves' \in Seq(Save) /\ Len(saves') = Len(saves) /\ n \in Nat /\ saves[n].body \in Document
    BY <1>8, StepEffect DEF Newest
  <2>2. /\ UNCHANGED <<copy, page, form, opened, wish, hurried>>
        /\ document' = document \/ document' = saves[n].body
        /\ reload' = reload \/ \E by \in Nat : reload' = Asked(by)
        /\ UNCHANGED mishaps \/ Mishap
        /\ known' \in {known, "none"}
    BY <1>8, <2>1 DEF SaveStep, SaveSucceeds, SaveFails, StoreSettings, RejectSettings,
       settingsHistory, Mishap
  <2>3. document' \in Document /\ reload' \in Reloads
    BY <1>1, <2>1, <2>2 DEF SettingsTypeOK
  <2> QED BY <1>2, <2>1, <2>2, <2>3 DEF SettingsTypeOK
<1>9. CASE ReloadSettings
  BY <1>1, <1>9 DEF ReloadSettings, settingsHistory, SettingsTypeOK
<1>10. CASE ReadSettings
  <2>1. Loaded(document) \in Document /\ DefaultDocument \in Document
    BY LoadedTypes DEF SettingsTypeOK
  <2>2. /\ \E doc \in Document : reload' = [reload EXCEPT !.st = "answered", !.doc = doc]
        /\ UNCHANGED mishaps \/ Mishap
        /\ known' \in {known, "none", "read"}
    BY <1>10, <2>1 DEF ReadSettings, Mishap
  <2>3. reload' \in Reloads
    BY <1>1, <2>2
  <2> QED BY <1>2, <1>10, <2>2, <2>3 DEF ReadSettings, SettingsTypeOK
<1>11. CASE LandSettings
  BY <1>1, <1>11 DEF LandSettings, SettingsTypeOK
<1>12. CASE ReloadFails
  BY <1>1, <1>2, <1>12 DEF ReloadFails, SettingsTypeOK
<1>13. ASSUME NEW doc \in Document, SaveElsewhere(doc) PROVE SettingsTypeOK'
  BY <1>2, <1>13 DEF SaveElsewhere, pageVariables, SettingsTypeOK
<1>14. CASE UNCHANGED settingsVars
  BY <1>14 DEF settingsVars, pageVariables, settingsHistory, SettingsTypeOK
<1> QED BY <1>4, <1>5, <1>6, <1>7, <1>8, <1>9, <1>10, <1>11, <1>12, <1>13, <1>14
        DEF SettingsNext, SaveStep

\* A copy behind the document stays due an answer or a read.
LEMMA CopyNext == SettingsTypeOK /\ CopyOK /\ [SettingsNext]_settingsVars => CopyOK'
<1> SUFFICES ASSUME SettingsTypeOK, CopyOK, [SettingsNext]_settingsVars PROVE CopyOK'
  OBVIOUS
<1>1. ASSUME NEW by \in Pages, NEW body \in Document, SendSettings(by, body) PROVE CopyOK'
  <2>1. Stored => Stored'
    BY <1>1, SendEffect DEF Stored
  <2> QED BY <1>1, <2>1 DEF SendSettings, CopyOK
<1>2. ASSUME NEW id \in DefaultIds, ToggleDefault(id) PROVE CopyOK'
  BY <1>1, <1>2, SendTypes DEF ToggleDefault
<1>3. CASE SaveForm
  <2>1. form \in Document
    BY DEF SettingsTypeOK
  <2> QED BY <1>1, <1>3, <2>1, SendTypes DEF SaveForm
<1>4. CASE UNCHANGED <<document, copy, reload, saves, known>>
  BY <1>4 DEF CopyOK, Stored
<1>5. ASSUME NEW n \in DOMAIN saves, SaveStep(n) PROVE CopyOK'
  <2>1. CASE SaveSucceeds(n)
    <3>1. reload'.st = "asked" /\ known' # "read"
      BY <2>1 DEF SaveSucceeds, Asked, NoReload
    <3> QED BY <3>1 DEF CopyOK
  <2>2. CASE SaveFails(n) /\ Mishap
    BY <2>2 DEF Mishap, CopyOK
  <2>3. CASE SaveFails(n) /\ saves[n].st = "rejected" /\ UNCHANGED known
    <3>1. Stored => Stored'
      BY <1>5, <2>3, StepEffect DEF Stored
    <3> QED BY <2>3, <3>1 DEF SaveFails, CopyOK
  <2>4. CASE StoreSettings(n)
    <3>1. saves' = [saves EXCEPT ![n].st = "stored", ![n].body = DefaultDocument]
          /\ UNCHANGED <<reload, known>>
      BY <2>4 DEF StoreSettings, settingsHistory
    <3>2. n \in DOMAIN saves' /\ saves'[n].st = "stored"
      BY <1>5, <3>1, StepEffect DEF SettingsTypeOK, Save
    <3> QED BY <3>1, <3>2 DEF CopyOK, Stored
  <2>5. CASE RejectSettings(n)
    <3>1. Stored => Stored'
      <4>1. saves[n].st = "sent"
        BY <2>5 DEF RejectSettings
      <4> QED BY <1>5, <4>1, StepEffect DEF Stored
    <3> QED BY <2>5, <3>1 DEF RejectSettings, settingsHistory, CopyOK
  <2> QED BY <1>5, <2>1, <2>2, <2>3, <2>4, <2>5 DEF SaveStep, SaveFails
<1>6. CASE OpenPage
  <2>1. /\ UNCHANGED <<document, copy, saves, known>>
        /\ reload.st # "none" => reload' = reload
        /\ reload.st = "none" => reload'.st = "asked"
    BY <1>6 DEF OpenPage, Asked, NoReload
  <2> QED BY <2>1 DEF CopyOK, Stored
<1>7. CASE ReloadSettings
  <2>1. UNCHANGED <<document, copy, saves, known>> /\ reload.st = "none" /\ reload'.st = "asked"
    BY <1>7 DEF ReloadSettings, settingsHistory, Asked, NoReload
  <2> QED BY <2>1 DEF CopyOK
<1>8. CASE ReadSettings
  <2>1. CASE reload' = [reload EXCEPT !.st = "answered", !.doc = Loaded(document)]
             /\ known' = IF known = "none" THEN "read" ELSE known
    <3>1. reload'.st = "answered" /\ reload'.doc = Loaded(document) /\ document' = document
      BY <1>8, <2>1 DEF ReadSettings, SettingsTypeOK
    <3> QED BY <1>8, <2>1, <3>1 DEF CopyOK
  <2>2. CASE Mishap
    BY <2>2 DEF Mishap, CopyOK
  <2> QED BY <1>8, <2>1, <2>2 DEF ReadSettings
<1>9. CASE LandSettings
  <2>1. /\ UNCHANGED <<document, saves>> /\ reload.st = "answered" /\ reload'.st = "none"
        /\ copy' = reload.doc /\ known' = IF known = "read" THEN "full" ELSE known
    BY <1>9 DEF LandSettings, NoReload
  <2> QED BY <2>1 DEF CopyOK, Stored
<1>10. CASE ReloadFails
  BY <1>10 DEF ReloadFails, Mishap, CopyOK
<1>11. ASSUME NEW doc \in Document, SaveElsewhere(doc) PROVE CopyOK'
  BY <1>11 DEF SaveElsewhere, Mishap, CopyOK
<1>12. ASSUME NEW rest \in Rests, EditForm(rest) PROVE CopyOK'
  BY <1>4, <1>12 DEF EditForm, settingsHistory
<1>13. CASE UNCHANGED settingsVars
  BY <1>4, <1>13 DEF settingsVars, pageVariables, settingsHistory
<1> QED BY <1>2, <1>3, <1>5, <1>6, <1>7, <1>8, <1>9, <1>10, <1>11, <1>12, <1>13
        DEF SettingsNext, SaveStep
-----------------------------------------------------------------------------
(* Calm editing.                                                           *)

\* A calm page that sends is one whose copy, and whose form, are up to date, and what
\* it sends is what is wished.
LEMMA CalmSend ==
  ASSUME SettingsTypeOK, CalmOK, NEW by \in Pages, NEW body \in Document, page = by,
         SendSettings(by, body), wish' \in Document,
         Loaded(document) = Loaded(wish) /\ (page = "channels" => copy = Loaded(document))
           /\ (page = "settings" => form.defaults = wish.defaults)
           => Loaded(body) = Loaded(wish') /\ (page = "settings" => form.defaults = wish'.defaults)
  PROVE  CalmOK'
<1> SUFFICES ASSUME Calm' PROVE CalmOK'
  BY DEF CalmOK
<1>1. UNCHANGED <<document, copy, reload, page, form, opened, hurried, known, mishaps>> /\ ~Locked
  BY DEF SendSettings
<1>2. /\ Newest' = Newest + 1 /\ Newest \in Nat
      /\ DOMAIN saves' = DOMAIN saves \cup {Newest'} /\ DOMAIN saves = 1 .. Newest
      /\ \A n \in DOMAIN saves : saves'[n] = saves[n]
      /\ saves'[Newest'].page = by /\ saves'[Newest'].body = body
      /\ saves'[Newest'].st = "sent"
  BY SendEffect
<1>3. Calm
  BY <1>1, <1>2 DEF Calm
<1>4. \A n \in DOMAIN saves : ~Unanswered(n)
  BY <1>1, <1>2, <1>3 DEF CalmOK, Locked, Newest
<1>5. Loaded(document) = Loaded(wish)
  BY <1>2, <1>3, <1>4 DEF CalmOK, Unanswered
<1>6. page = "channels" => copy = Loaded(document)
  BY <1>1, <1>3 DEF CalmOK, Locked, Newest
<1>7. Loaded(body) = Loaded(wish') /\ (page = "settings" => form.defaults = wish'.defaults)
  BY <1>3, <1>5, <1>6 DEF CalmOK
<1>8. opened < Newest'
  BY <1>2 DEF SettingsTypeOK, Newest
<1>9. \A n \in DOMAIN saves' : Unanswered(n)' => n = Newest' /\ n > opened /\ saves'[n].page = page
  BY <1>2, <1>4, <1>8 DEF Unanswered, SettingsTypeOK
<1>10. Unanswered(Newest)'
  BY <1>2 DEF Unanswered
<1>11. Newest' > 0 /\ Newest' > opened'
  BY <1>1, <1>2, <1>8 DEF SettingsTypeOK
<1> QED BY <1>1, <1>2, <1>3, <1>7, <1>9, <1>10, <1>11 DEF CalmOK

\* So does every other step keep what calm editing relies on.
LEMMA CalmNext ==
  SettingsTypeOK /\ CopyOK /\ CalmOK /\ [SettingsNext]_settingsVars => CalmOK'
<1> SUFFICES ASSUME SettingsTypeOK, CopyOK, CalmOK, [SettingsNext]_settingsVars, Calm'
             PROVE  CalmOK'
  BY DEF CalmOK
<1>0. mishaps \in Nat /\ ~Mishap
  BY DEF Mishap, SettingsTypeOK, Calm
<1>1. ASSUME NEW id \in DefaultIds, ToggleDefault(id) PROVE CalmOK'
  <2> DEFINE body == [copy EXCEPT !.defaults = Switched(@, id)]
  <2>1. /\ SendSettings("channels", body) /\ page = "channels"
        /\ wish' = [wish EXCEPT !.defaults = Switched(@, id)]
    BY <1>1 DEF ToggleDefault
  <2>2. body \in Document /\ wish' \in Document /\ "channels" \in Pages
    BY <2>1, SendTypes
  <2>3. Loaded(document) = Loaded(wish) /\ copy = Loaded(document) => Loaded(body) = Loaded(wish')
    BY <2>1, LoadedParts DEF SettingsTypeOK
  <2> HIDE DEF body
  <2> QED BY <2>1, <2>2, <2>3, CalmSend
<1>2. CASE SaveForm
  <2>1. /\ SendSettings("settings", form) /\ page = "settings"
        /\ wish' = [wish EXCEPT !.rest = form.rest]
    BY <1>2 DEF SaveForm
  <2>2. form \in Document /\ wish' \in Document /\ wish \in Document /\ "settings" \in Pages
        /\ form.rest \in Rests
    BY <2>1, SendTypes DEF SettingsTypeOK, Document
  <2>3. wish'.defaults = wish.defaults /\ wish'.rest = form.rest
    BY <2>1, <2>2, LoadedTypes
  <2>4. form.defaults = wish.defaults => form = wish'
    BY <2>2, <2>3, LoadedParts
  <2> QED BY <2>1, <2>2, <2>3, <2>4, CalmSend
<1>3. ASSUME NEW rest \in Rests, EditForm(rest) PROVE CalmOK'
  <2>1. form'.defaults = form.defaults
    BY <1>3 DEF EditForm, SettingsTypeOK, Document
  <2>2. UNCHANGED <<document, copy, reload, page, saves, opened, wish, hurried, known, mishaps>>
    BY <1>3 DEF EditForm, settingsHistory
  <2> QED BY <2>1, <2>2 DEF CalmOK, Calm, Unanswered, Newest
<1>4. CASE OpenPage
  <2>1. /\ UNCHANGED <<document, copy, saves, wish, known, mishaps>> /\ opened' = Len(saves)
        /\ page \in Pages /\ page' \in Pages
        /\ page' = "settings" => form' = copy
        /\ Idle /\ ~hurried
    BY <1>4 DEF OpenPage, SettingsTypeOK, Pages, Calm
  <2>2. Calm
    BY <2>1 DEF Calm
  <2>3. \A n \in DOMAIN saves : ~Unanswered(n)
    BY <2>1 DEF Idle
  <2>4. ~Stored /\ reload.st = "none"
    BY <2>1, <2>3 DEF Idle, Stored, Unanswered
  <2>5. copy = Loaded(document)
    BY <2>2, <2>4 DEF CalmOK, CopyOK
  <2>6. Newest > 0 => Newest \in DOMAIN saves
    BY DEF SettingsTypeOK, Newest
  <2>7. Loaded(document) = Loaded(wish)
    BY <2>2, <2>3, <2>6 DEF CalmOK, Unanswered
  <2>8. copy.defaults = wish.defaults
    BY <2>5, <2>7, LoadedTypes DEF SettingsTypeOK
  <2> QED BY <2>1, <2>2, <2>3, <2>5, <2>6, <2>7, <2>8 DEF CalmOK, Calm, Unanswered, Newest
<1>5. ASSUME NEW n \in DOMAIN saves, SaveStep(n) PROVE CalmOK'
  <2>1. /\ Newest' = Newest /\ Newest \in Nat /\ DOMAIN saves' = DOMAIN saves /\ n \in 1 .. Newest
        /\ \A m \in DOMAIN saves : saves'[m].page = saves[m].page /\ (m # n => saves'[m] = saves[m])
        /\ Unanswered(n)
    BY <1>5, StepEffect
  <2>2. /\ UNCHANGED <<copy, page, form, opened, wish, hurried>>
    BY <1>5 DEF SaveStep, SaveSucceeds, SaveFails, StoreSettings, RejectSettings, settingsHistory
  <2>3. /\ \/ SaveSucceeds(n) /\ saves'[n].st = "saved"
           \/ StoreSettings(n) /\ saves'[n].st = "stored"
        /\ UNCHANGED mishaps
    <3>1. saves'[n].st \notin {"rejected", "failed"}
      BY <2>1 DEF Calm
    <3> QED BY <1>5, <3>1, StepEffect DEF SaveSucceeds, StoreSettings, settingsHistory
  <2>4. Calm
    <3>1. saves[n].st \notin {"rejected", "failed"}
      BY <2>3 DEF SaveSucceeds, StoreSettings
    <3> QED BY <2>1, <2>2, <2>3, <3>1 DEF Calm
  <2>5. n = Newest /\ n > opened /\ saves[n].page = page
    BY <2>1, <2>4 DEF CalmOK
  <2>6. \A m \in DOMAIN saves' : Unanswered(m)' => m = Newest /\ m > opened /\ saves'[m].page = page
    BY <2>1, <2>2, <2>4, <2>5 DEF CalmOK, Unanswered
  <2>7. CASE SaveSucceeds(n) /\ saves'[n].st = "saved"
    <3>1. document' = document /\ saves[n].st = "stored" /\ known' = known
          /\ reload' = Asked(IF saves[n].page = "channels" THEN n ELSE 0)
      BY <2>4, <2>7 DEF SaveSucceeds, CalmOK
    <3>2. Loaded(document) = Loaded(wish)
      BY <2>1, <2>4, <2>5, <3>1 DEF CalmOK
    <3>3. page = "channels" => reload'.by = Newest /\ reload'.st # "none"
      BY <2>5, <3>1 DEF Asked, NoReload
    <3> QED BY <2>1, <2>2, <2>4, <2>5, <2>6, <2>7, <3>1, <3>2, <3>3 DEF CalmOK
  <2>8. CASE StoreSettings(n) /\ saves'[n].st = "stored"
    <3>1. /\ document' = saves[n].body /\ saves[n].st = "sent" /\ UNCHANGED <<reload, known>>
      BY <2>8 DEF StoreSettings, settingsHistory
    <3>2. Loaded(document') = Loaded(wish)
      BY <2>1, <2>4, <2>5, <3>1 DEF CalmOK
    <3>3. Unanswered(Newest)'
      BY <2>1, <2>5, <2>8 DEF Unanswered
    <3>4. Loaded(document)' = Loaded(document')
      BY DEF Loaded
    <3>5. Loaded(wish)' = Loaded(wish)
      BY <2>2 DEF Loaded
    <3> QED BY <2>1, <2>2, <2>4, <2>5, <2>6, <2>8, <3>1, <3>2, <3>3, <3>4, <3>5 DEF CalmOK
  <2> QED BY <2>3, <2>7, <2>8
<1>6. ASSUME UNCHANGED <<document, page, form, saves, opened, wish, hurried, mishaps>>, known' = known,
             Calm /\ page = "channels" =>
               \/ Newest > opened /\ (Unanswered(Newest) \/ (reload'.by = Newest /\ reload'.st # "none"))
               \/ copy' = Loaded(document)
      PROVE  CalmOK'
  <2>1. Calm
    BY <1>6 DEF Calm
  <2> QED BY <1>6, <2>1 DEF CalmOK, Unanswered, Newest
<1>7. CASE ReloadSettings
  <2>1. reload.st = "none" /\ UNCHANGED <<document, copy, page, form, saves, opened, settingsHistory>>
    BY <1>7 DEF ReloadSettings
  <2> QED BY <1>6, <2>1 DEF settingsHistory, CalmOK
<1>8. CASE ReadSettings
  <2>1. /\ UNCHANGED <<document, copy, page, form, saves, opened, wish, hurried, mishaps>>
        /\ reload'.st = "answered" /\ reload'.by = reload.by
        /\ known' = IF known = "none" THEN "read" ELSE known
    BY <1>0, <1>8 DEF ReadSettings, SettingsTypeOK
  <2>2. Calm
    BY <2>1 DEF Calm
  <2>3. known' = known
    BY <2>1, <2>2 DEF CalmOK
  <2> QED BY <1>6, <2>1, <2>2, <2>3 DEF CalmOK
<1>9. CASE LandSettings
  <2>1. /\ UNCHANGED <<document, page, form, saves, opened, wish, hurried, mishaps>>
        /\ reload.st = "answered" /\ copy' = reload.doc
        /\ known' = IF known = "read" THEN "full" ELSE known
    BY <1>9 DEF LandSettings
  <2>2. Calm
    BY <2>1 DEF Calm
  <2>3. known = "full" /\ known' = known
    BY <2>1, <2>2 DEF CalmOK
  <2>4. CASE Stored
    <3>1. PICK n \in DOMAIN saves : saves[n].st = "stored"
      BY <2>4 DEF Stored
    <3>2. Newest > opened /\ Unanswered(Newest)
      BY <2>2, <3>1 DEF CalmOK, Unanswered
    <3> QED BY <1>6, <2>1, <2>3, <3>2
  <2>5. CASE ~Stored
    <3>1. copy' = Loaded(document)
      BY <2>1, <2>3, <2>5 DEF CopyOK
    <3> QED BY <1>6, <2>1, <2>3, <3>1
  <2> QED BY <2>4, <2>5
<1>10. CASE ReloadFails
  BY <1>0, <1>10 DEF ReloadFails
<1>11. ASSUME NEW doc \in Document, SaveElsewhere(doc) PROVE CalmOK'
  BY <1>0, <1>11 DEF SaveElsewhere
<1>12. CASE UNCHANGED settingsVars
  <2>1. UNCHANGED <<document, copy, reload, page, form, saves, opened, wish, hurried, known, mishaps>>
    BY <1>12 DEF settingsVars, pageVariables, settingsHistory
  <2> QED BY <1>6, <2>1 DEF CalmOK
<1> QED BY <1>1, <1>2, <1>3, <1>4, <1>5, <1>7, <1>8, <1>9, <1>10, <1>11, <1>12
        DEF SettingsNext, SaveStep

-----------------------------------------------------------------------------
(* The theorems.                                                           *)

\* The inductive invariant holds of every behaviour.
LEMMA Invariant == SettingsSpec => []SettingsInv
<1>1. SettingsInv /\ [SettingsNext]_settingsVars => SettingsInv'
  BY TypeNext, CopyNext, CalmNext DEF SettingsInv
<1> QED BY InvInit, <1>1, PTL DEF SettingsSpec

\* On a page where nothing is open the copy that the next body is composed from is what
\* the server stores.
THEOREM IdleCopyAgrees == SettingsSpec => []IdleCopyIsStored
<1>1. SettingsInv => IdleCopyIsStored
  BY DEF SettingsInv, CopyOK, IdleCopyIsStored, Idle, Stored, Unanswered
<1> QED BY <1>1, Invariant, PTL

\* No switch and no save of a page takes another back, though each sends the whole
\* document, while pages are left only at rest and nothing goes wrong.
THEOREM SavesCount == SettingsSpec => []SavesAreKept
<1>1. ASSUME SettingsInv PROVE SavesAreKept
  <2> SUFFICES ASSUME ~hurried, mishaps = 0, \A n \in DOMAIN saves : saves[n].st = "saved"
               PROVE  Loaded(document) = Loaded(wish)
    BY DEF SavesAreKept
  <2>1. Newest > 0 => Newest \in DOMAIN saves
    BY <1>1 DEF SettingsInv, SettingsTypeOK, Newest
  <2> QED BY <1>1, <2>1 DEF SettingsInv, CalmOK, Calm
<1> QED BY <1>1, Invariant, PTL
=============================================================================
