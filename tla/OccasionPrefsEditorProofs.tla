--------------------- MODULE OccasionPrefsEditorProofs ---------------------
(***************************************************************************)
(* Proofs about OccasionPrefsEditor, for any contents and any number of    *)
(* edits, failures and refetches.                                          *)
(***************************************************************************)
EXTENDS OccasionPrefsEditor, SequenceTheorems, TLAPS

Of(n) == puts[n].body

\* A row that is a PUT's body is the body of the newest one, and a pending editor
\* shows that body.
BodyOK ==
  /\ puts[1].st = "saved"
  /\ local.put # 0 => local.put = Newest /\ local.row = Of(Newest)
  /\ Pending => local.put = Newest

\* Without overtaking, what reached the server has nothing older still to come, and
\* the server holds the newest row once that has reached it.
OrderOK ==
  ~overtaken =>
    /\ \A n \in 1 .. Newest : puts[n].st \in {"applied", "saved"} =>
         \A m \in 1 .. n - 1 : puts[m].st # "sent"
    /\ puts[Newest].st \in {"applied", "saved"} => stored = Of(Newest)

\* An answer under way, or the cache after the last one, is behind the server only
\* by PUTs whose own answer will drop and repeat the refetch.
FetchOK ==
  (\A n \in 1 .. Newest : puts[n].st # "applied") =>
    /\ fetch.st = "answered" => fetch.row = stored
    /\ fetch.st = "none" => cache = stored

\* Before the first edit everything is the row found; an editor with no PUT pending
\* shows its saved row, and no older one is on its way to it; any other the cached row.
ShownOK ==
  /\ Newest = 1 => /\ stored = Of(1) /\ cache = Of(1)
                   /\ fetch.st = "answered" => fetch.row = Of(1)
  /\ ~overtaken /\ ~Pending =>
       IF Newest > mounted /\ puts[Newest].st = "saved"
       THEN /\ local.row = stored
            /\ fetch.st = "answered" => fetch.row = stored
       ELSE local.row = cache

IInv == TypeOK /\ SwitchShowsRow /\ BodyOK /\ OrderOK /\ FetchOK /\ ShownOK

-----------------------------------------------------------------------------
(* The sequence of PUTs.                                                   *)

PutRecord == [body : Row, st : PutState]

\* The sequence is never empty, and each entry is a body with a state.
LEMMA PutsType ==
  ASSUME TypeOK
  PROVE  /\ Newest \in Nat \ {0} /\ mounted \in 1 .. Newest
         /\ \A n \in 1 .. Newest : puts[n] \in PutRecord /\ puts[n].body \in Row /\ puts[n].st \in PutState
<1>1. puts \in Seq(PutRecord) /\ mounted \in 1 .. Len(puts)
  BY DEF TypeOK, PutRecord
<1>2. Len(puts) \in Nat /\ \A n \in 1 .. Len(puts) : puts[n] \in PutRecord
  BY <1>1
<1> QED
  BY <1>1, <1>2 DEF Newest, PutRecord

\* An answer, or an arrival at the server, changes the state of one entry only.
LEMMA AnsweredPuts ==
  ASSUME TypeOK, NEW n \in 1 .. Newest, NEW st \in PutState, Answered(n, st)
  PROVE  /\ puts' \in Seq(PutRecord) /\ Newest' = Newest
         /\ \A m \in 1 .. Newest : /\ puts'[m].body = puts[m].body
                                   /\ puts'[m].st = IF m = n THEN st ELSE puts[m].st
<1>0. puts \in Seq(PutRecord)
  BY DEF TypeOK, PutRecord
<1>1. puts \in Seq(PutRecord) /\ puts \in [1 .. Len(puts) -> PutRecord] /\ Len(puts) \in Nat
  BY <1>0, LenProperties
<1>2. puts' = [puts EXCEPT ![n] = [puts[n] EXCEPT !.st = st]]
  BY DEF Answered
<1>3. [puts[n] EXCEPT !.st = st] \in PutRecord
  BY <1>1 DEF PutRecord, Newest
<1>4. puts' \in Seq(PutRecord) /\ Len(puts') = Len(puts)
  BY <1>1, <1>2, <1>3, ExceptSeq DEF Newest
<1>5. ASSUME NEW m \in 1 .. Newest
      PROVE  puts'[m].body = puts[m].body /\ puts'[m].st = IF m = n THEN st ELSE puts[m].st
  BY <1>1, <1>2 DEF PutRecord, Newest
<1> QED
  BY <1>4, <1>5 DEF Newest

\* A save appends its body and changes nothing before it.
LEMMA SavedPuts ==
  ASSUME TypeOK, NEW row \in Row, Save(row)
  PROVE  /\ puts' \in Seq(PutRecord) /\ Newest' = Newest + 1
         /\ puts'[Newest + 1] = [body |-> row, st |-> "sent"]
         /\ \A m \in 1 .. Newest : puts'[m] = puts[m]
<1>1. puts \in Seq(PutRecord) /\ [body |-> row, st |-> "sent"] \in PutRecord
  BY DEF TypeOK, PutRecord, PutState
<1>2. puts' = Append(puts, [body |-> row, st |-> "sent"])
  BY DEF Save
<1> QED
  BY <1>1, <1>2 DEF Newest

-----------------------------------------------------------------------------
(* The invariant.                                                          *)

FetchState == [st : {"none", "asked", "answered", "failed"}, row : Row]

\* No refetch, and one that has just left, are of the right kind.
LEMMA NoFetchType ==
  ASSUME NEW r \in Row
  PROVE  /\ NoFetch \in FetchState /\ NoFetch.st = "none"
         /\ [NoFetch EXCEPT !.st = "asked"] \in FetchState
         /\ [NoFetch EXCEPT !.st = "asked"].st = "asked"
         /\ [NoFetch EXCEPT !.st = "failed"] \in FetchState
         /\ [NoFetch EXCEPT !.st = "failed"].st = "failed"
<1> DEFINE any == CHOOSE q \in Row : TRUE
<1>1. any \in Row
  OBVIOUS
<1>2. NoFetch = [st |-> "none", row |-> any]
  BY DEF NoFetch
<1> HIDE DEF any
<1> QED
  BY <1>1, <1>2 DEF FetchState

\* A freshly opened page satisfies the invariant.
LEMMA InitIInv == Init => IInv
<1> SUFFICES ASSUME Init PROVE IInv
  OBVIOUS
<1>2. puts \in Seq(PutRecord) /\ Len(puts) = 1 /\ puts[1] = [body |-> stored, st |-> "saved"]
  BY DEF Init, PutRecord, PutState
<1>3. TypeOK
  <2>1. custom \in BOOLEAN
    BY DEF Init, Row
  <2>2. fetch \in [st : {"none", "asked", "answered", "failed"}, row : Row]
    BY NoFetchType DEF Init, FetchState
  <2>3. local \in [row : Row, put : 0 .. Len(puts)]
    BY <1>2 DEF Init
  <2>4. stored \in Row /\ cache \in Row /\ mounted = 1 /\ faults = 0 /\ overtaken = FALSE
    BY DEF Init
  <2>5. puts \in Seq([body : Row, st : PutState])
    BY <1>2 DEF PutRecord
  <2>6. mounted \in 1 .. Len(puts) /\ faults \in Nat
    BY <1>2, <2>4
  <2>7. overtaken \in BOOLEAN
    BY <2>4
  <2> QED
    BY <2>1, <2>2, <2>3, <2>4, <2>5, <2>6, <2>7 DEF TypeOK
<1>4. ~Pending /\ Newest = 1
  BY <1>2 DEF Init, Pending, Newest
<1> QED
  BY <1>2, <1>3, <1>4 DEF Init, IInv, SwitchShowsRow, BodyOK, OrderOK, FetchOK, ShownOK, NoFetch, Of

\* A save: the screen shows the new body, which is pending.
LEMMA SaveStep ==
  ASSUME IInv, NEW row \in Row, Save(row), custom' = row.custom,
         UNCHANGED <<stored, cache, fetch, mounted, faults, overtaken>>
  PROVE  IInv'
<1> USE DEF IInv
<1>1. /\ Newest \in Nat \ {0} /\ mounted \in 1 .. Newest
      /\ \A n \in 1 .. Newest : puts[n].body \in Row /\ puts[n].st \in PutState
  BY PutsType
<1>2. /\ puts' \in Seq(PutRecord) /\ Newest' = Newest + 1
      /\ puts'[Newest + 1] = [body |-> row, st |-> "sent"]
      /\ \A m \in 1 .. Newest : puts'[m] = puts[m]
  BY SavedPuts
<1>3. local' = [row |-> row, put |-> Newest + 1]
  BY DEF Save
<1>4. TypeOK'
  BY <1>1, <1>2, <1>3 DEF TypeOK, PutRecord, Newest, Row
<1>5. Pending'
  BY <1>1, <1>2 DEF Pending, Open
<1>6. SwitchShowsRow' /\ BodyOK'
  BY <1>1, <1>2, <1>3 DEF SwitchShowsRow, BodyOK, Of
<1>7. OrderOK'
  <2> SUFFICES ASSUME ~overtaken
               PROVE  /\ \A n \in 1 .. Newest + 1 : puts'[n].st \in {"applied", "saved"} =>
                           \A m \in 1 .. n - 1 : puts'[m].st # "sent"
                      /\ ~(puts'[Newest + 1].st \in {"applied", "saved"})
    BY <1>2 DEF OrderOK
  <2>1. ~(puts'[Newest + 1].st \in {"applied", "saved"})
    BY <1>2
  <2>2. ASSUME NEW n \in 1 .. Newest + 1, puts'[n].st \in {"applied", "saved"},
               NEW m \in 1 .. n - 1
        PROVE  puts'[m].st # "sent"
    <3>1. n \in 1 .. Newest /\ m \in 1 .. Newest
      BY <1>1, <2>1, <2>2
    <3> QED
      BY <1>2, <2>2, <3>1 DEF OrderOK
  <2> QED
    BY <2>1, <2>2
<1>8. FetchOK'
  BY <1>1, <1>2 DEF FetchOK
<1>9. ShownOK'
  BY <1>1, <1>2, <1>5 DEF ShownOK
<1> QED
  BY <1>4, <1>6, <1>7, <1>8, <1>9

\* What the user does.
LEMMA UserStep ==
  ASSUME IInv,
         \/ \E c \in Contents : EditContents(c)
         \/ FlipEnabled \/ CustomOn \/ CustomOff
  PROVE  IInv'
<1>1. local.row \in Row /\ custom = local.row.custom
  BY DEF IInv, TypeOK, SwitchShowsRow
<1>2. CASE \E c \in Contents : EditContents(c)
  <2>1. PICK c \in Contents : EditContents(c)
    BY <1>2
  <2>2. [local.row EXCEPT !.contents = c] \in Row
    BY <1>1 DEF Row
  <2> QED
    BY <1>1, <2>1, <2>2, SaveStep DEF EditContents, Row
<1>3. CASE FlipEnabled
  <2>1. [local.row EXCEPT !.enabled = ~@] \in Row
    BY <1>1 DEF Row
  <2> QED
    BY <1>1, <1>3, <2>1, SaveStep DEF FlipEnabled, Row
<1>4. CASE CustomOn
  <2>1. [local.row EXCEPT !.custom = TRUE] \in Row
    BY <1>1 DEF Row
  <2> QED
    BY <1>1, <1>4, <2>1, SaveStep DEF CustomOn, Row
<1>5. CASE CustomOff
  <2>1. [local.row EXCEPT !.custom = FALSE] \in Row
    BY <1>1 DEF Row
  <2> QED
    BY <1>1, <1>5, <2>1, SaveStep DEF CustomOff, Row
<1> QED
  BY <1>2, <1>3, <1>4, <1>5

\* A new editor has no PUT of its own and shows the cached row.
LEMMA ReopenStep == ASSUME IInv, Reopen PROVE IInv'
<1> USE DEF IInv
<1>1. /\ Newest \in Nat \ {0} /\ mounted \in 1 .. Newest
      /\ Newest' = Newest /\ mounted' = Newest
  BY PutsType DEF Reopen, Newest
<1>2. ~Pending'
  BY <1>1 DEF Pending
<1>3. TypeOK'
  <2>1. fetch' \in [st : {"none", "asked", "answered", "failed"}, row : Row]
    BY NoFetchType DEF Reopen, TypeOK, FetchState
  <2> QED
    BY <1>1, <2>1 DEF Reopen, TypeOK, Newest, Row
<1>4. SwitchShowsRow' /\ BodyOK'
  BY <1>2 DEF Reopen, SwitchShowsRow, BodyOK
<1>5. OrderOK'
  BY DEF Reopen, OrderOK, Of, Newest
<1>6. FetchOK'
  BY DEF Reopen, FetchOK, NoFetch, Newest
<1>7. ShownOK'
  BY <1>1, <1>2 DEF Reopen, ShownOK, NoFetch, Of, Newest
<1> QED
  BY <1>3, <1>4, <1>5, <1>6, <1>7

\* The server replaces its row; the PUT stays unanswered.
LEMMA ApplyStep == ASSUME IInv, NEW n \in 1 .. Newest, Apply(n) PROVE IInv'
<1> USE DEF IInv
<1>1. /\ Newest \in Nat \ {0} /\ mounted \in 1 .. Newest
      /\ \A m \in 1 .. Newest : puts[m].body \in Row /\ puts[m].st \in PutState
  BY PutsType
<1>2. /\ puts' \in Seq(PutRecord) /\ Newest' = Newest
      /\ \A m \in 1 .. Newest : /\ puts'[m].body = puts[m].body
                                /\ puts'[m].st = IF m = n THEN "applied" ELSE puts[m].st
  <2>1. "applied" \in PutState /\ Answered(n, "applied")
    BY DEF PutState, Apply
  <2> QED
    BY <2>1, AnsweredPuts
<1>3. puts[n].st = "sent" /\ stored' = puts[n].body /\ n # 1
  BY DEF Apply, BodyOK
<1>4. Pending' = Pending
  BY <1>1, <1>2, <1>3 DEF Apply, Pending, Open
<1>5. TypeOK'
  BY <1>1, <1>2, <1>3 DEF Apply, TypeOK, PutRecord, Newest
<1>6. SwitchShowsRow' /\ BodyOK'
  BY <1>1, <1>2, <1>3, <1>4 DEF Apply, SwitchShowsRow, BodyOK, Of
<1>7. ~overtaken' => ~overtaken /\ \A m \in 1 .. n - 1 : puts[m].st # "sent"
  BY DEF Apply
<1>8. ~overtaken => \A m \in n + 1 .. Newest : ~(puts[m].st \in {"applied", "saved"})
  <2> SUFFICES ASSUME ~overtaken, NEW m \in n + 1 .. Newest, puts[m].st \in {"applied", "saved"}
               PROVE  FALSE
    OBVIOUS
  <2>1. m \in 1 .. Newest /\ n \in 1 .. m - 1
    BY <1>1
  <2> QED
    BY <1>3, <2>1 DEF OrderOK
<1>9. OrderOK'
  <2> SUFFICES ASSUME ~overtaken'
               PROVE  /\ \A k \in 1 .. Newest : puts'[k].st \in {"applied", "saved"} =>
                           \A m \in 1 .. k - 1 : puts'[m].st # "sent"
                      /\ puts'[Newest].st \in {"applied", "saved"} => stored' = puts'[Newest].body
    BY <1>2 DEF OrderOK, Of
  <2>1. ASSUME NEW k \in 1 .. Newest, puts'[k].st \in {"applied", "saved"}, NEW m \in 1 .. k - 1
        PROVE  puts'[m].st # "sent"
    <3>1. m \in 1 .. Newest
      BY <1>1
    <3>2. CASE k = n
      BY <1>2, <1>7, <3>1, <3>2
    <3>3. CASE k # n
      BY <1>2, <1>7, <2>1, <3>1, <3>3 DEF OrderOK
    <3> QED
      BY <3>2, <3>3
  <2>2. puts'[Newest].st \in {"applied", "saved"} => stored' = puts'[Newest].body
    BY <1>1, <1>2, <1>3, <1>7, <1>8
  <2> QED
    BY <2>1, <2>2
<1>10. FetchOK'
  BY <1>2 DEF FetchOK
<1>11. ShownOK'
  <2>1. Newest # 1
    BY <1>1, <1>3
  <2>2. ~overtaken' /\ ~Pending' =>
          ~overtaken /\ ~Pending /\ ~(Newest > mounted /\ puts[Newest].st = "saved")
    BY <1>1, <1>3, <1>4, <1>7, <1>8
  <2>3. ~overtaken' /\ ~Pending' => local.row = cache /\ ~(Newest > mounted /\ puts'[Newest].st = "saved")
    BY <1>1, <1>2, <2>2 DEF ShownOK
  <2> QED
    BY <1>2, <2>1, <2>3 DEF Apply, ShownOK
<1> QED
  BY <1>5, <1>6, <1>9, <1>10, <1>11

\* A PUT that will never be applied: it is open as before.
LEMMA RefuseStep == ASSUME IInv, NEW n \in 1 .. Newest, Refuse(n) PROVE IInv'
<1> USE DEF IInv
<1>1. /\ Newest \in Nat \ {0} /\ mounted \in 1 .. Newest
      /\ \A m \in 1 .. Newest : puts[m].body \in Row /\ puts[m].st \in PutState
  BY PutsType
<1>2. /\ puts' \in Seq(PutRecord) /\ Newest' = Newest
      /\ \A m \in 1 .. Newest : /\ puts'[m].body = puts[m].body
                                /\ puts'[m].st = IF m = n THEN "refused" ELSE puts[m].st
  <2>1. "refused" \in PutState /\ Answered(n, "refused")
    BY DEF PutState, Refuse
  <2> QED
    BY <2>1, AnsweredPuts
<1>3. puts[n].st = "sent" /\ n # 1
  BY DEF Refuse, BodyOK
<1>4. Pending' = Pending
  BY <1>1, <1>2, <1>3 DEF Refuse, Pending, Open
<1>5. TypeOK'
  BY <1>1, <1>2 DEF Refuse, TypeOK, PutRecord, Newest
<1>6. SwitchShowsRow' /\ BodyOK'
  BY <1>1, <1>2, <1>3, <1>4 DEF Refuse, SwitchShowsRow, BodyOK, Of
<1>7. OrderOK'
  <2> SUFFICES ASSUME ~overtaken
               PROVE  /\ \A k \in 1 .. Newest : puts'[k].st \in {"applied", "saved"} =>
                           \A m \in 1 .. k - 1 : puts'[m].st # "sent"
                      /\ puts'[Newest].st \in {"applied", "saved"} => stored = puts'[Newest].body
    BY <1>2 DEF Refuse, OrderOK, Of
  <2>1. ASSUME NEW k \in 1 .. Newest, puts'[k].st \in {"applied", "saved"}, NEW m \in 1 .. k - 1
        PROVE  puts'[m].st # "sent"
    <3>1. m \in 1 .. Newest /\ k # n
      BY <1>1, <1>2, <2>1
    <3> QED
      BY <1>2, <2>1, <3>1 DEF OrderOK
  <2>2. puts'[Newest].st \in {"applied", "saved"} => stored = puts'[Newest].body
    BY <1>1, <1>2 DEF OrderOK, Of
  <2> QED
    BY <2>1, <2>2
<1>8. FetchOK'
  BY <1>1, <1>2, <1>3 DEF Refuse, FetchOK
<1>9. ShownOK'
  BY <1>1, <1>2, <1>3, <1>4 DEF Refuse, ShownOK, Of
<1> QED
  BY <1>5, <1>6, <1>7, <1>8, <1>9

\* The row and the answer are the same, so adopting one adopts the other.
LEMMA SyncedRow ==
  ASSUME TypeOK, NEW row \in Row
  PROVE  /\ Synced(row) \in [row : Row, put : 0 .. Newest]
         /\ Synced(row).row = row
         /\ Synced(row) = local \/ Synced(row).put = 0
<1>1. Newest \in Nat
  BY PutsType
<1> QED
  BY <1>1 DEF Synced, TypeOK, Newest

\* An acknowledged PUT: its row is shown already, unless a newer edit has been made.
LEMMA SucceedStep == ASSUME IInv, NEW n \in 1 .. Newest, Succeed(n) PROVE IInv'
<1> USE DEF IInv
<1>1. /\ Newest \in Nat \ {0} /\ mounted \in 1 .. Newest
      /\ \A m \in 1 .. Newest : puts[m].body \in Row /\ puts[m].st \in PutState
  BY PutsType
<1>2. /\ puts' \in Seq(PutRecord) /\ Newest' = Newest
      /\ \A m \in 1 .. Newest : /\ puts'[m].body = puts[m].body
                                /\ puts'[m].st = IF m = n THEN "saved" ELSE puts[m].st
  <2>1. "saved" \in PutState /\ Answered(n, "saved")
    BY DEF PutState, Succeed
  <2> QED
    BY <2>1, AnsweredPuts
<1>3. puts[n].st = "applied" /\ n # 1
  BY DEF Succeed, BodyOK
<1>4. local' = local
  BY <1>1 DEF Succeed, BodyOK, Synced, Of
<1>5. fetch' \in FetchState /\ fetch'.st = "asked"
  BY <1>1, NoFetchType DEF Succeed, Invalidate
<1>6. Pending' <=> Pending /\ n # Newest
  BY <1>1, <1>2, <1>3 DEF Succeed, Pending, Open
<1>7. TypeOK'
  <2>1. UNCHANGED <<stored, local, custom, cache, mounted, faults, overtaken>>
    BY <1>4 DEF Succeed
  <2> QED
    BY <1>1, <1>2, <1>5, <2>1 DEF TypeOK, PutRecord, FetchState, Newest
<1>8. SwitchShowsRow' /\ BodyOK'
  BY <1>1, <1>2, <1>3, <1>4, <1>6 DEF Succeed, SwitchShowsRow, BodyOK, Of
<1>9. OrderOK'
  BY <1>1, <1>2, <1>3 DEF Succeed, OrderOK, Of
<1>10. FetchOK'
  BY <1>5 DEF FetchOK
<1>11. ShownOK'
  <2>1. Newest # 1
    BY <1>1, <1>3
  <2>2. ASSUME ~overtaken, ~Pending', Newest > mounted /\ puts'[Newest].st = "saved"
        PROVE  local.row = stored
    <3>1. CASE n = Newest
      <4>1. Pending
        BY <1>1, <1>3, <2>2, <3>1 DEF Pending, Open
      <4> QED
        BY <1>1, <1>3, <2>2, <3>1, <4>1 DEF BodyOK, OrderOK
    <3>2. CASE n # Newest
      BY <1>1, <1>2, <1>6, <2>2, <3>2 DEF ShownOK
    <3> QED
      BY <3>1, <3>2
  <2>3. ASSUME ~overtaken, ~Pending', ~(Newest > mounted /\ puts'[Newest].st = "saved")
        PROVE  local.row = cache
    <3>1. ~Pending /\ ~(Newest > mounted /\ puts[Newest].st = "saved")
      BY <1>1, <1>2, <1>3, <1>6, <2>3 DEF Pending
    <3> QED
      BY <2>3, <3>1 DEF ShownOK
  <2> QED
    BY <1>2, <1>4, <1>5, <2>1, <2>2, <2>3 DEF Succeed, ShownOK
<1> QED
  BY <1>7, <1>8, <1>9, <1>10, <1>11

\* A failed PUT: the cached row is shown, unless a newer edit has been made.
LEMMA FailStep == ASSUME IInv, NEW n \in 1 .. Newest, Fail(n) PROVE IInv'
<1> USE DEF IInv
<1>1. /\ Newest \in Nat \ {0} /\ mounted \in 1 .. Newest
      /\ \A m \in 1 .. Newest : puts[m].body \in Row /\ puts[m].st \in PutState
  BY PutsType
<1>2. /\ puts' \in Seq(PutRecord) /\ Newest' = Newest
      /\ \A m \in 1 .. Newest : /\ puts'[m].body = puts[m].body
                                /\ puts'[m].st = IF m = n THEN "failed" ELSE puts[m].st
  <2>1. "failed" \in PutState /\ Answered(n, "failed")
    BY DEF PutState, Fail
  <2> QED
    BY <2>1, AnsweredPuts
<1>3. puts[n].st \in {"refused", "applied"} /\ n # 1
  BY DEF Fail, BodyOK
<1>4. /\ local.put = n => n = Newest /\ local'.row = cache /\ custom' = cache.custom
                          /\ (local' = local \/ local'.put = 0)
      /\ local.put # n => local' = local /\ custom' = custom
      /\ local' \in [row : Row, put : 0 .. Newest]
  <2>1. cache \in Row /\ n # 0 /\ local \in [row : Row, put : 0 .. Newest]
    BY <1>1 DEF TypeOK, Newest
  <2> QED
    BY <2>1, SyncedRow DEF Fail, BodyOK
<1>5. fetch' \in FetchState /\ fetch'.st = "asked"
  BY <1>1, NoFetchType DEF Fail, Invalidate
<1>6. Pending' <=> Pending /\ n # Newest
  BY <1>1, <1>2, <1>3 DEF Fail, Pending, Open
<1>7. TypeOK'
  <2>1. custom' \in BOOLEAN /\ faults' \in Nat
    BY <1>4 DEF Fail, Fault, TypeOK, Row
  <2> QED
    BY <1>1, <1>2, <1>4, <1>5, <2>1 DEF Fail, TypeOK, PutRecord, FetchState, Newest
<1>8. SwitchShowsRow'
  <2>1. CASE local.put = n
    BY <1>4, <2>1 DEF SwitchShowsRow
  <2>2. CASE local.put # n
    BY <1>4, <2>2 DEF SwitchShowsRow
  <2> QED
    BY <2>1, <2>2
<1>9. BodyOK'
  BY <1>1, <1>2, <1>3, <1>4, <1>6 DEF BodyOK, Of
<1>10. OrderOK'
  BY <1>1, <1>2, <1>3 DEF Fail, OrderOK, Of
<1>11. FetchOK'
  BY <1>5 DEF FetchOK
<1>12. ShownOK'
  <2>1. Newest # 1
    BY <1>1, <1>3
  <2>2. ASSUME ~overtaken, ~Pending', Newest > mounted /\ puts'[Newest].st = "saved"
        PROVE  local'.row = stored
    <3>1. n # Newest /\ ~Pending /\ puts[Newest].st = "saved"
      BY <1>1, <1>2, <1>6, <2>2
    <3> QED
      BY <1>4, <2>2, <3>1 DEF ShownOK
  <2>3. ASSUME ~overtaken, ~Pending', ~(Newest > mounted /\ puts'[Newest].st = "saved")
        PROVE  local'.row = cache
    <3>1. CASE local.put = n
      BY <1>4, <3>1
    <3>2. CASE local.put # n
      <4>1. ~Pending
        BY <1>6, <2>3, <3>2 DEF BodyOK
      <4>2. ~(Newest > mounted /\ puts[Newest].st = "saved")
        BY <1>1, <1>2, <1>3, <2>3
      <4> QED
        BY <1>4, <2>3, <3>2, <4>1, <4>2 DEF ShownOK
    <3> QED
      BY <3>1, <3>2
  <2> QED
    BY <1>2, <1>5, <2>1, <2>2, <2>3 DEF Fail, ShownOK
<1> QED
  BY <1>7, <1>8, <1>9, <1>10, <1>11, <1>12

\* A refetch leaves, is read or fails: nothing on the page changes.
LEMMA FetchStep == ASSUME IInv, Refetch \/ Read \/ RefetchFails PROVE IInv'
<1> USE DEF IInv
<1>1. stored \in Row /\ UNCHANGED <<stored, local, custom, cache, puts, mounted, overtaken>>
  BY DEF Refetch, Read, RefetchFails, TypeOK
<1>2. Pending' = Pending /\ Newest' = Newest
  BY <1>1 DEF Pending, Newest
<1>3. /\ fetch' \in FetchState
      /\ \/ fetch'.st \in {"asked", "failed"}
         \/ fetch'.st = "answered" /\ fetch'.row = stored
  <2>0. /\ [NoFetch EXCEPT !.st = "asked"] \in FetchState
        /\ [NoFetch EXCEPT !.st = "asked"].st = "asked"
        /\ [NoFetch EXCEPT !.st = "failed"] \in FetchState
        /\ [NoFetch EXCEPT !.st = "failed"].st = "failed"
    BY <1>1, NoFetchType
  <2>1. CASE Refetch
    BY <2>0, <2>1, Zenon DEF Refetch, Invalidate
  <2>2. CASE Read
    BY <1>1, <2>2 DEF Read, FetchState
  <2>3. CASE RefetchFails
    BY <2>0, <2>3, Zenon DEF RefetchFails
  <2> QED
    BY <2>1, <2>2, <2>3
<1>4. faults' \in Nat
  BY DEF Refetch, Read, RefetchFails, Fault, TypeOK
<1>5. TypeOK'
  BY <1>1, <1>3, <1>4 DEF TypeOK, FetchState
<1>6. SwitchShowsRow' /\ BodyOK' /\ OrderOK'
  BY <1>1, <1>2 DEF SwitchShowsRow, BodyOK, OrderOK, Of, Newest
<1>7. FetchOK'
  BY <1>1, <1>2, <1>3 DEF FetchOK
<1>8. ShownOK'
  BY <1>1, <1>2, <1>3 DEF ShownOK, Of
<1> QED
  BY <1>5, <1>6, <1>7, <1>8

\* A refetch lands: it is adopted unless it is nothing new or a PUT is pending.
LEMMA LandStep == ASSUME IInv, Land PROVE IInv'
<1> USE DEF IInv
<1>1. /\ Newest \in Nat \ {0} /\ mounted \in 1 .. Newest
      /\ UNCHANGED <<stored, puts, mounted, faults, overtaken>>
      /\ fetch.st = "answered" /\ fetch.row \in Row /\ cache' = fetch.row
  BY PutsType DEF Land, TypeOK
<1>2. fetch' \in FetchState /\ fetch'.st = "none"
  BY <1>1, NoFetchType DEF Land
<1>3. Newest' = Newest /\ (Pending' <=> Pending)
  BY <1>1 DEF Pending, Newest
<1>4. \/ /\ fetch.row # cache /\ ~Pending
         /\ local'.row = fetch.row /\ custom' = fetch.row.custom
         /\ local' = local \/ local'.put = 0
         /\ local' \in [row : Row, put : 0 .. Newest]
      \/ /\ fetch.row = cache \/ Pending
         /\ UNCHANGED <<local, custom>>
  BY <1>1, SyncedRow DEF Land
<1>5. TypeOK'
  <2>1. custom' \in BOOLEAN /\ local' \in [row : Row, put : 0 .. Newest]
    BY <1>1, <1>4 DEF TypeOK, Row, Newest
  <2> QED
    BY <1>1, <1>2, <2>1 DEF TypeOK, FetchState, Newest
<1>6. SwitchShowsRow'
  <2>1. CASE UNCHANGED <<local, custom>>
    BY <2>1 DEF SwitchShowsRow
  <2>2. CASE local'.row = fetch.row /\ custom' = fetch.row.custom
    BY <2>2 DEF SwitchShowsRow
  <2> QED
    BY <1>4, <2>1, <2>2
<1>7. BodyOK'
  BY <1>1, <1>3, <1>4 DEF BodyOK, Of
<1>8. OrderOK'
  BY <1>1, <1>3 DEF OrderOK, Of
<1>9. FetchOK'
  BY <1>1, <1>2, <1>3 DEF FetchOK
<1>10. ShownOK'
  <2>1. Newest = 1 => stored = Of(1) /\ cache' = Of(1)
    BY <1>1 DEF ShownOK
  <2>2. ASSUME ~overtaken, ~Pending, Newest > mounted /\ puts[Newest].st = "saved"
        PROVE  local'.row = stored
    BY <1>1, <1>4, <2>2 DEF ShownOK
  <2>3. ASSUME ~overtaken, ~Pending, ~(Newest > mounted /\ puts[Newest].st = "saved")
        PROVE  local'.row = cache'
    BY <1>1, <1>4, <2>3 DEF ShownOK
  <2> QED
    BY <1>1, <1>2, <1>3, <2>1, <2>2, <2>3 DEF ShownOK, Of
<1> QED
  BY <1>5, <1>6, <1>7, <1>8, <1>9, <1>10

\* Every step keeps the invariant.
LEMMA NextIInv == IInv /\ [Next]_vars => IInv'
<1> SUFFICES ASSUME IInv, [Next]_vars PROVE IInv'
  OBVIOUS
<1>1. CASE UNCHANGED vars
  BY <1>1 DEF vars, pageVars, IInv, TypeOK, SwitchShowsRow, BodyOK, OrderOK, FetchOK, ShownOK,
              Pending, Newest, Of
<1>2. CASE Next
  BY <1>2, UserStep, ReopenStep, ApplyStep, RefuseStep, SucceedStep, FailStep, FetchStep, LandStep
     DEF Next
<1> QED
  BY <1>1, <1>2

\* The invariant holds of every behaviour.
LEMMA Invariance == Spec => []IInv
BY InitIInv, NextIInv, PTL DEF Spec

\* Every variable keeps its type.
THEOREM TypeCorrect == Spec => []TypeOK
<1>1. IInv => TypeOK
  BY DEF IInv
<1> QED
  BY <1>1, Invariance, PTL

\* The switch and the panel never disagree with the row that the next PUT is made of.
THEOREM SwitchIsTrue == Spec => []SwitchShowsRow
<1>1. IInv => SwitchShowsRow
  BY DEF IInv
<1> QED
  BY <1>1, Invariance, PTL

\* Whatever was refused, lost or ignored: once it is quiet the screen, the cache and
\* the server agree, unless one PUT overtook another.
THEOREM ScreenAgrees == Spec => []SettledAgrees
<1>1. IInv => SettledAgrees
  <2> SUFFICES ASSUME IInv, Settled, ~overtaken
               PROVE  local.row = stored /\ cache = stored
    BY DEF SettledAgrees
  <2>1. Newest \in Nat \ {0} /\ \A n \in 1 .. Newest : puts[n].st \notin Open
    BY PutsType DEF IInv, Settled
  <2>2. cache = stored
    BY <2>1 DEF IInv, Settled, FetchOK, Open
  <2>3. ~Pending
    BY <2>1 DEF Pending
  <2> QED
    BY <2>2, <2>3 DEF IInv, ShownOK
<1> QED
  BY <1>1, Invariance, PTL

-----------------------------------------------------------------------------
(* Bodies.                                                                 *)

\* An editor that has seen no failure, no overtaking and no reopening shows the
\* body of its newest PUT.
LEMMA ShowsNewest ==
  ASSUME IInv, mounted = 1, ~overtaken, \A n \in 1 .. Newest : puts[n].st # "failed"
  PROVE  local.row = Of(Newest)
<1>1. Newest \in Nat \ {0} /\ \A n \in 1 .. Newest : puts[n].st \in PutState
  BY PutsType DEF IInv
<1>2. CASE Pending
  BY <1>1, <1>2 DEF IInv, BodyOK
<1>3. CASE ~Pending /\ Newest = 1
  BY <1>3 DEF IInv, ShownOK
<1>4. CASE ~Pending /\ Newest > 1
  <2>1. puts[Newest].st = "saved"
    BY <1>1, <1>4 DEF Pending, Open, PutState
  <2> QED
    BY <1>4, <2>1 DEF IInv, ShownOK, OrderOK
<1> QED
  BY <1>1, <1>2, <1>3, <1>4

\* Only a failed PUT can make a later one revert an earlier edit: until then every
\* body is the previous one with one field edited.
THEOREM BodiesAreFresh == Spec => OnlyFailuresRevert
<1> DEFINE Fresh ==
      /\ Len(puts') > Newest /\ mounted = 1 /\ ~overtaken
      /\ \A n \in 1 .. Newest : puts[n].st # "failed"
      => \E f \in Fields :
           puts'[Len(puts')].body = [puts[Newest].body EXCEPT ![f] = puts'[Len(puts')].body[f]]
<1>1. IInv /\ [Next]_vars => Fresh
  <2> SUFFICES ASSUME IInv, [Next]_vars, Len(puts') > Newest, mounted = 1, ~overtaken,
                      \A n \in 1 .. Newest : puts[n].st # "failed"
               PROVE  \E f \in Fields : puts'[Len(puts')].body =
                        [puts[Newest].body EXCEPT ![f] = puts'[Len(puts')].body[f]]
    OBVIOUS
  <2>1. TypeOK /\ Newest \in Nat \ {0} /\ local.row \in Row /\ local.row = puts[Newest].body
    BY PutsType, ShowsNewest DEF IInv, TypeOK, Of
  <2>2. ASSUME NEW n \in 1 .. Newest, NEW st \in PutState, Answered(n, st)
        PROVE  FALSE
    BY <2>1, <2>2, AnsweredPuts DEF Newest
  <2>3. \/ \E c \in Contents : EditContents(c)
        \/ FlipEnabled \/ CustomOn \/ CustomOff
    <3>1. puts' # puts
      BY <2>1 DEF Newest
    <3>2. {"applied", "refused", "saved", "failed"} \subseteq PutState
      BY DEF PutState
    <3> QED
      BY <2>2, <3>1, <3>2
         DEF Next, vars, pageVars, Reopen, Apply, Refuse, Succeed, Fail, Refetch, Read, Land,
             RefetchFails
  <2>4. PICK row \in Row, f \in Fields : Save(row) /\ row = [local.row EXCEPT ![f] = row[f]]
    <3>1. CASE \E c \in Contents : EditContents(c)
      <4>1. PICK c \in Contents : EditContents(c)
        BY <3>1
      <4> DEFINE row == [local.row EXCEPT !.contents = c]
      <4>2. row \in Row /\ row = [local.row EXCEPT !["contents"] = row["contents"]]
        BY <2>1 DEF Row
      <4> QED
        BY <4>1, <4>2 DEF EditContents, Fields
    <3>2. CASE FlipEnabled
      <4> DEFINE row == [local.row EXCEPT !.enabled = ~@]
      <4>1. row \in Row /\ row = [local.row EXCEPT !["enabled"] = row["enabled"]]
        BY <2>1 DEF Row
      <4> QED
        BY <3>2, <4>1 DEF FlipEnabled, Fields
    <3>3. CASE CustomOn \/ CustomOff
      <4> DEFINE row(v) == [local.row EXCEPT !.custom = v]
      <4>1. \A v \in BOOLEAN : row(v) \in Row /\ row(v) = [local.row EXCEPT !["custom"] = row(v)["custom"]]
        BY <2>1 DEF Row
      <4>2. \E v \in BOOLEAN : Save(row(v))
        <5>1. puts' # puts
          BY <2>1 DEF Newest
        <5>2. CASE CustomOn
          BY <5>1, <5>2 DEF CustomOn
        <5>3. CASE CustomOff
          BY <5>3 DEF CustomOff
        <5> QED
          BY <3>3, <5>2, <5>3
      <4> QED
        BY <4>1, <4>2 DEF Fields
    <3> QED
      BY <2>3, <3>1, <3>2, <3>3
  <2>5. Newest' = Newest + 1 /\ puts'[Newest + 1] = [body |-> row, st |-> "sent"]
    BY <2>1, <2>4, SavedPuts
  <2>6. puts'[Len(puts')].body = row
    BY <2>5 DEF Newest
  <2> QED
    BY <2>1, <2>4, <2>6
<1>2. Spec => [][Fresh]_vars
  BY <1>1, Invariance, PTL DEF Spec
<1> QED
  BY <1>2 DEF OnlyFailuresRevert
=============================================================================
