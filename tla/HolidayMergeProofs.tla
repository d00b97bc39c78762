------------------------- MODULE HolidayMergeProofs -------------------------
(***************************************************************************)
(* Proofs about HolidayMerge for any number of sources, any names and any  *)
(* history of switched categories, outages and new lists.                  *)
(***************************************************************************)
EXTENDS HolidayMerge, WellFoundedInduction, TLAPS

\* Any list a source answers is one of names.
LEMMA AnswersAreLists == Answers \subseteq Seq(Names)
<1>1. \A n \in 0 .. 2 : [1 .. n -> Names] \subseteq Seq(Names)
  BY SMT
<1> QED BY <1>1 DEF Answers

\* A nonempty set of numbers has a least one.
LEMMA LeastNumber ==
  ASSUME NEW T \in SUBSET Nat, T # {}
  PROVE  \E x \in T : \A y \in T : x <= y
<1> DEFINE R == OpToRel(<, Nat)
<1>1. PICK x \in T : \A y \in T : ~ (<<y, x>> \in R)
  <2> HIDE DEF R
  <2> QED BY WFMin, NatLessThanWellFounded DEF R
<1>2. \A y \in T : y < x => <<y, x>> \in R
  BY DEF OpToRel
<1>3. \A y \in T : ~(y < x)
  <2> HIDE DEF R
  <2> QED BY <1>1, <1>2
<1>4. \A y \in T : y \in Nat /\ x \in Nat
  OBVIOUS
<1> QED
  <2> HIDE DEF R
  <2> QED BY <1>3, <1>4

-----------------------------------------------------------------------------
(* Types.                                                                  *)

\* At first every variable holds a value of its kind.
LEMMA TypeInit == MergeInit => MergeTypeOK
<1> SUFFICES ASSUME MergeInit PROVE MergeTypeOK
  OBVIOUS
<1>1. lists \in [Sources -> Seq(Names)]
  BY AnswersAreLists DEF MergeInit
<1> QED BY <1>1 DEF MergeInit, MergeTypeOK

\* The fields of an item are numbers where they are compared.
LEMMA ItemNumbers ==
  ASSUME NEW x \in Item
  PROVE  x.source \in Nat /\ x.source >= Computed /\ x.place \in Nat /\ x.source \in Sources
<1>1. x.source \in Sources /\ x.place \in Nat
  BY DEF Item
<1>2. \A s \in Sources : s \in Nat /\ s # 0
  BY SourcesAssumption
<1> QED BY <1>1, <1>2 DEF Computed

\* The items gathered are items.
LEMMA ItemTypes ==
  ASSUME MergeTypeOK
  PROVE  /\ Gathered \subseteq Item
         /\ \A s \in Sources : Items(s) \subseteq Item
         /\ Scheduled(Gathered) \subseteq Gathered
<1>1. ASSUME NEW s \in Sources PROVE Items(s) \subseteq Item
  <2> lists[s] \in Seq(Names)
    BY DEF MergeTypeOK
  <2> \A i \in DOMAIN lists[s] : i \in Nat /\ lists[s][i] \in Names
    OBVIOUS
  <2> QED BY DEF Items, Item
<1>2. Gathered \subseteq Item
  BY <1>1 DEF Gathered, MergeTypeOK
<1> QED BY <1>1, <1>2 DEF Scheduled

\* Every step keeps the types.
LEMMA TypeNext == MergeTypeOK /\ [MergeNext]_mergeVars => MergeTypeOK'
<1> SUFFICES ASSUME MergeTypeOK, [MergeNext]_mergeVars PROVE MergeTypeOK'
  OBVIOUS
<1> USE SourcesAssumption
<1>1. CASE ScanHolidays
  <2> {HolidayKey(x) : x \in Scheduled(Gathered)} \subseteq [category : Sources, name : Names]
    BY ItemTypes DEF HolidayKey, Item
  <2> QED BY <1>1 DEF ScanHolidays, MergeTypeOK
<1>0. ASSUME NEW s \in Sources, Moves(s)
      PROVE  moves' \in Nat /\ moved' \subseteq Sources /\ moved \subseteq moved'
             /\ s \in moved' /\ scanned' = FALSE
  BY <1>0 DEF Moves, MergeTypeOK
<1>2. ASSUME NEW s \in Sources, SwitchCategory(s) PROVE MergeTypeOK'
  <2>1. categories' \subseteq Sources /\ switched' \subseteq Sources /\ switched' \subseteq moved'
    BY <1>2, <1>0 DEF SwitchCategory, MergeTypeOK
  <2> QED BY <1>2, <1>0, <2>1 DEF SwitchCategory, MergeTypeOK
<1>3. ASSUME NEW s \in Sources, SourceFails(s) PROVE MergeTypeOK'
  <2>1. down' \subseteq Sources \ {Computed} /\ switched' \subseteq moved'
    BY <1>3, <1>0 DEF SourceFails, MergeTypeOK
  <2> QED BY <1>3, <1>0, <2>1 DEF SourceFails, MergeTypeOK
<1>4. ASSUME NEW s \in Sources, NEW answer \in Answers, SourcePublishes(s, answer)
      PROVE MergeTypeOK'
  <2>1. answer \in Seq(Names)
    BY AnswersAreLists
  <2>2. lists' \in [Sources -> Seq(Names)] /\ lists'[Computed] = PawukonNames
    BY <1>4, <2>1 DEF SourcePublishes, MergeTypeOK
  <2>3. switched' \subseteq moved'
    BY <1>4, <1>0 DEF SourcePublishes, MergeTypeOK
  <2> QED BY <1>4, <1>0, <2>2, <2>3 DEF SourcePublishes, MergeTypeOK
<1>5. CASE UNCHANGED mergeVars
  BY <1>5 DEF mergeVars, MergeTypeOK
<1> QED BY <1>1, <1>2, <1>3, <1>4, <1>5 DEF MergeNext

\* MergeTypeOK holds of every behaviour.
THEOREM TypeCorrect == MergeSpec => []MergeTypeOK
<1> QED BY TypeInit, TypeNext, PTL DEF MergeSpec

-----------------------------------------------------------------------------
(* Which item gives a holiday its key.                                     *)

\* Two items that are both scheduled for one holiday are the same item.
LEMMA OnePerHoliday ==
  ASSUME MergeTypeOK,
         NEW x \in Scheduled(Gathered), NEW y \in Scheduled(Gathered), SameHoliday(x, y)
  PROVE  x = y
<1> USE SourcesAssumption
<1>1. x \in Item /\ y \in Item /\ x \in Gathered /\ y \in Gathered
  BY ItemTypes
<1>2. ~Precedes(x, y) /\ ~Precedes(y, x)
  BY <1>1 DEF Scheduled, SameHoliday
<1>3. x.source = y.source /\ x.place = y.place
  BY <1>1, <1>2, ItemNumbers DEF Precedes
<1>4. x.name = lists[x.source][x.place] /\ y.name = lists[y.source][y.place]
  BY <1>1 DEF Gathered, Items
<1> QED BY <1>1, <1>3, <1>4 DEF Item

\* Every gathered item has one of its holiday that is scheduled.
LEMMA EveryHolidayScheduled ==
  ASSUME MergeTypeOK, NEW z \in Gathered
  PROVE  \E x \in Scheduled(Gathered) : Normalized[x.name] = Normalized[z.name]
<1> USE SourcesAssumption
<1> DEFINE Same == {y \in Gathered : SameHoliday(y, z)}
           Ranks == {y.source : y \in Same}
<1>1. Same \subseteq Item /\ z \in Same
  BY ItemTypes DEF SameHoliday
<1>2. PICK s \in Ranks : \A t \in Ranks : s <= t
  <2> Ranks \subseteq Nat /\ Ranks # {}
    BY <1>1 DEF Item
  <2> QED BY LeastNumber
<1> DEFINE Places == {y.place : y \in {u \in Same : u.source = s}}
<1>3. PICK p \in Places : \A q \in Places : p <= q
  <2> Places \subseteq Nat /\ Places # {}
    BY <1>1 DEF Item
  <2> QED BY LeastNumber
<1>4. PICK x \in Same : x.source = s /\ x.place = p
  OBVIOUS
<1>5. \A y \in Gathered : SameHoliday(y, x) => ~Precedes(y, x)
  <2> SUFFICES ASSUME NEW y \in Gathered, SameHoliday(y, x), Precedes(y, x) PROVE FALSE
    OBVIOUS
  <2>1. y \in Same
    BY <1>4 DEF SameHoliday
  <2>2. y \in Item /\ x \in Item
    BY <1>1, <1>4, <2>1
  <2>3. s <= y.source
    BY <1>2, <2>1
  <2>4. y.source = s => p <= y.place
    BY <1>3, <2>1
  <2>5. x.source = s /\ x.place = p
    BY <1>4
  <2>6. y.source < x.source \/ (y.source = x.source /\ y.place < x.place)
    BY DEF Precedes
  <2> HIDE DEF Same, Ranks, Places
  <2> QED BY <2>2, <2>3, <2>4, <2>5, <2>6, ItemNumbers
<1> QED BY <1>4, <1>5 DEF Scheduled, SameHoliday

-----------------------------------------------------------------------------
(* A computed holiday has its own key.                                     *)

\* While its category is on, an item scheduled for a computed holiday is the computed one.
LEMMA ComputedFirst ==
  ASSUME MergeTypeOK, Computed \in categories,
         NEW x \in Scheduled(Gathered), NEW i \in DOMAIN PawukonNames,
         Normalized[x.name] = Normalized[PawukonNames[i]]
  PROVE  HolidayKey(x) = [category |-> Computed, name |-> PawukonNames[i]]
<1> USE SourcesAssumption, NamesAssumption
<1> DEFINE y == [source |-> Computed, place |-> i, name |-> PawukonNames[i]]
<1>1. x \in Item /\ x \in Gathered
  BY ItemTypes
<1>2. y \in Gathered
  BY DEF Gathered, Items, MergeTypeOK
<1>3. ~Precedes(y, x)
  BY <1>2 DEF Scheduled, SameHoliday
<1>4. i \in Nat
  OBVIOUS
<1>5. x.source = Computed
  <2>1. x.source >= Computed /\ x.source \in Nat /\ ~(Computed < x.source)
    BY <1>1, <1>3, ItemNumbers DEF Precedes
  <2> QED BY <2>1 DEF Computed
<1>6. x.place \in DOMAIN PawukonNames /\ x.name = PawukonNames[x.place]
  BY <1>1, <1>5 DEF Gathered, Items, MergeTypeOK
<1>7. x.place = i
  BY <1>6
<1> QED BY <1>5, <1>6, <1>7 DEF HolidayKey

\* ComputedKeyOnly: however the remote sources come and go, a computed holiday is
\* logged under its own key.
THEOREM ComputedKeyHolds == MergeSpec => []ComputedKeyOnly
<1>1. MergeInit => ComputedKeyOnly
  BY DEF MergeInit, ComputedKeyOnly
<1>2. MergeTypeOK /\ ComputedKeyOnly /\ [MergeNext]_mergeVars => ComputedKeyOnly'
  <2> SUFFICES ASSUME MergeTypeOK, ComputedKeyOnly, [MergeNext]_mergeVars,
                      Computed \in categories', Computed \notin switched'
               PROVE  \A k \in keys' : \A i \in DOMAIN PawukonNames :
                        Normalized[k.name] = Normalized[PawukonNames[i]]
                          => k = [category |-> Computed, name |-> PawukonNames[i]]
    BY DEF ComputedKeyOnly
  <2>1. CASE ScanHolidays
    <3>1. Computed \in categories /\ Computed \notin switched
      BY <2>1 DEF ScanHolidays
    <3>2. \A x \in Scheduled(Gathered) : HolidayKey(x).name = x.name
      BY DEF HolidayKey
    <3> QED BY <2>1, <3>1, <3>2, ComputedFirst DEF ScanHolidays, ComputedKeyOnly
  <2>2. CASE keys' = keys /\ Computed \in categories /\ Computed \notin switched
    BY <2>2 DEF ComputedKeyOnly
  <2>3. ASSUME NEW s \in Sources, SwitchCategory(s)
        PROVE  keys' = keys /\ Computed \in categories /\ Computed \notin switched
    BY <2>3 DEF SwitchCategory
  <2>4. ASSUME NEW s \in Sources, SourceFails(s)
        PROVE  keys' = keys /\ Computed \in categories /\ Computed \notin switched
    BY <2>4 DEF SourceFails
  <2>5. ASSUME NEW s \in Sources, NEW answer \in Answers, SourcePublishes(s, answer)
        PROVE  keys' = keys /\ Computed \in categories /\ Computed \notin switched
    BY <2>5 DEF SourcePublishes
  <2>6. CASE UNCHANGED mergeVars
    BY <2>6, <2>2 DEF mergeVars
  <2> QED BY <2>1, <2>2, <2>3, <2>4, <2>5, <2>6 DEF MergeNext
<1> QED BY <1>1, <1>2, TypeInit, TypeNext, PTL DEF MergeSpec

-----------------------------------------------------------------------------
(* What a second key takes.                                                *)

\* A key whose source and all before it have stayed as they were is the one a scan
\* would give its holiday again.
Unmoved(k) == \A s \in moved : s > k.category
KeysStand ==
  \A k \in keys : Unmoved(k) => \E x \in Scheduled(Gathered) : HolidayKey(x) = k

\* Whether an item is scheduled depends on the sources up to its own only.
LEMMA LaterSourcesDoNotMatter ==
  ASSUME MergeTypeOK, MergeTypeOK', NEW s \in Sources,
         categories' \ {s} = categories \ {s}, down' \ {s} = down \ {s},
         \A t \in Sources \ {s} : lists'[t] = lists[t],
         NEW x \in Scheduled(Gathered), x.source < s
  PROVE  x \in Scheduled(Gathered)'
<1> USE SourcesAssumption
<1>1. x \in Item /\ x \in Gathered
  BY ItemTypes
<1>2. \A t \in Sources \ {s} : Items(t)' = Items(t)
  BY DEF Items
<1>3. \A t \in Sources \ {s} : t \in categories' \ down' <=> t \in categories \ down
  OBVIOUS
<1>4. \A t \in Sources : \A y \in Items(t) : y.source = t
  BY DEF Items
<1>5. \A t \in Sources : \A y \in Items(t)' : y.source = t
  BY DEF Items
<1>6. categories \subseteq Sources /\ categories' \subseteq Sources
  BY DEF MergeTypeOK
<1>7. x \in Gathered'
  <2>1. PICK t \in categories \ down : x \in Items(t)
    BY <1>1 DEF Gathered
  <2>2. t \in Sources /\ x.source = t
    BY <1>4, <1>6, <2>1
  <2>3. t # s
    BY <1>1, <2>2, ItemNumbers
  <2>4. t \in categories' \ down' /\ x \in Items(t)'
    BY <1>2, <1>3, <2>1, <2>2, <2>3
  <2> QED BY <2>4 DEF Gathered
<1>8. ASSUME NEW y \in Gathered', Precedes(y, x) PROVE y \in Gathered
  <2>1. PICK t \in Sources : t \in categories' \ down' /\ y \in Items(t)'
    BY <1>6 DEF Gathered
  <2>2. y.source = t
    BY <1>5, <2>1
  <2>3. t # s
    <3>1. x.source \in Nat /\ s \in Nat /\ t \in Nat
      BY <1>1, <2>1, ItemNumbers
    <3> QED BY <1>8, <2>2, <3>1 DEF Precedes
  <2> QED BY <1>2, <1>3, <2>1, <2>3 DEF Gathered
<1> QED BY <1>7, <1>8 DEF Scheduled, Precedes, SameHoliday

\* KeysStand is kept by every step.
LEMMA KeysStandNext ==
  MergeTypeOK /\ MergeTypeOK' /\ KeysStand /\ [MergeNext]_mergeVars => KeysStand'
<1> SUFFICES ASSUME MergeTypeOK, MergeTypeOK', KeysStand, [MergeNext]_mergeVars
             PROVE  KeysStand'
  OBVIOUS
<1>1. CASE ScanHolidays
  <2>1. Gathered' = Gathered /\ moved' = moved
    BY <1>1 DEF ScanHolidays, Gathered, Items
  <2>2. Scheduled(Gathered)' = Scheduled(Gathered)
    BY <2>1 DEF Scheduled, Precedes, SameHoliday
  <2>3. \A k \in keys' : k \in keys \/ \E x \in Scheduled(Gathered) : HolidayKey(x) = k
    BY <1>1 DEF ScanHolidays
  <2> QED BY <2>1, <2>2, <2>3 DEF KeysStand, Unmoved, HolidayKey
<1>2. ASSUME NEW s \in Sources, keys' = keys, moved' = moved \cup {s},
             categories' \ {s} = categories \ {s}, down' \ {s} = down \ {s},
             \A t \in Sources \ {s} : lists'[t] = lists[t]
      PROVE  KeysStand'
  <2> SUFFICES ASSUME NEW k \in keys, Unmoved(k)'
               PROVE  \E x \in Scheduled(Gathered)' : HolidayKey(x) = k
    BY <1>2 DEF KeysStand, HolidayKey
  <2>1. Unmoved(k) /\ s > k.category
    BY <1>2 DEF Unmoved
  <2>2. PICK x \in Scheduled(Gathered) : HolidayKey(x) = k
    BY <2>1 DEF KeysStand
  <2>3. x.source = k.category
    BY <2>2 DEF HolidayKey
  <2>4. x.source < s
    BY <2>1, <2>3
  <2>5. x \in Scheduled(Gathered)'
    BY <1>2, <2>4, LaterSourcesDoNotMatter
  <2> QED BY <2>2, <2>5
<1>3. ASSUME NEW s \in Sources, SwitchCategory(s) PROVE KeysStand'
  BY <1>2, <1>3 DEF SwitchCategory, Moves
<1>4. ASSUME NEW s \in Sources, SourceFails(s) PROVE KeysStand'
  BY <1>2, <1>4 DEF SourceFails, Moves
<1>5. ASSUME NEW s \in Sources, NEW answer \in Answers, SourcePublishes(s, answer)
      PROVE  KeysStand'
  <2> \A t \in Sources \ {s} : lists'[t] = lists[t]
    BY <1>5 DEF SourcePublishes, MergeTypeOK
  <2> QED BY <1>2, <1>5 DEF SourcePublishes, Moves
<1>6. CASE UNCHANGED mergeVars
  BY <1>6 DEF mergeVars, KeysStand, Unmoved, Gathered, Items, Scheduled, Precedes,
              SameHoliday, HolidayKey
<1> QED BY <1>1, <1>3, <1>4, <1>5, <1>6 DEF MergeNext

\* RepeatNeedsItsSources: a holiday is logged twice only after a change of one of the
\* two sources or of one before them.
THEOREM RepeatsExplained == MergeSpec => []RepeatNeedsItsSources
<1>1. MergeInit => KeysStand
  BY DEF MergeInit, KeysStand
<1>2. MergeTypeOK /\ KeysStand => RepeatNeedsItsSources
  <2> SUFFICES ASSUME MergeTypeOK, KeysStand, NEW k \in keys, NEW l \in keys,
                      Normalized[k.name] = Normalized[l.name], k # l,
                      ~\E s \in moved : s <= k.category \/ s <= l.category
               PROVE  FALSE
    BY DEF RepeatNeedsItsSources
  <2>1. Unmoved(k) /\ Unmoved(l)
    <3>1. \A s \in moved : s \in Nat
      BY SourcesAssumption DEF MergeTypeOK
    <3>2. k.category \in Nat /\ l.category \in Nat
      BY SourcesAssumption DEF MergeTypeOK
    <3> QED BY <3>1, <3>2 DEF Unmoved
  <2>2. PICK x \in Scheduled(Gathered) : HolidayKey(x) = k
    BY <2>1 DEF KeysStand
  <2>3. PICK y \in Scheduled(Gathered) : HolidayKey(y) = l
    BY <2>1 DEF KeysStand
  <2>4. SameHoliday(x, y)
    BY <2>2, <2>3 DEF SameHoliday, HolidayKey
  <2> QED BY <2>2, <2>3, <2>4, OnePerHoliday
<1> QED BY <1>1, <1>2, TypeInit, TypeNext, KeysStandNext, PTL DEF MergeSpec

-----------------------------------------------------------------------------
(* Outages.                                                                *)

\* OutageHidesOnlyItsOwn: a scan logs every holiday of every source that answers.
THEOREM OutagesHideTheirOwn == MergeSpec => []OutageHidesOnlyItsOwn
<1>1. MergeInit => OutageHidesOnlyItsOwn
  BY DEF MergeInit, OutageHidesOnlyItsOwn
<1>2. MergeTypeOK /\ OutageHidesOnlyItsOwn /\ [MergeNext]_mergeVars => OutageHidesOnlyItsOwn'
  <2> SUFFICES ASSUME MergeTypeOK, OutageHidesOnlyItsOwn, [MergeNext]_mergeVars, scanned'
               PROVE  OutageHidesOnlyItsOwn'
    BY DEF OutageHidesOnlyItsOwn
  <2>1. CASE ScanHolidays
    <3> SUFFICES ASSUME NEW s \in categories \ down, NEW i \in DOMAIN lists[s]
                 PROVE  \E k \in keys' : Normalized[k.name] = Normalized[lists[s][i]]
      BY <2>1 DEF ScanHolidays, OutageHidesOnlyItsOwn
    <3> DEFINE z == [source |-> s, place |-> i, name |-> lists[s][i]]
    <3>1. z \in Gathered
      BY DEF Gathered, Items
    <3>2. PICK x \in Scheduled(Gathered) : Normalized[x.name] = Normalized[z.name]
      BY <3>1, EveryHolidayScheduled
    <3>3. HolidayKey(x) \in keys' /\ HolidayKey(x).name = x.name
      BY <2>1 DEF ScanHolidays, HolidayKey
    <3> QED BY <3>2, <3>3
  <2>2. CASE UNCHANGED mergeVars
    BY <2>2 DEF mergeVars, OutageHidesOnlyItsOwn
  <2>3. MergeNext => ScanHolidays \/ scanned' = FALSE
    BY DEF MergeNext, SwitchCategory, SourceFails, SourcePublishes, Moves
  <2> QED BY <2>1, <2>2, <2>3
<1> QED BY <1>1, <1>2, TypeInit, TypeNext, PTL DEF MergeSpec

\* UpcomingIsScheduled: the list and the scan merge alike.
THEOREM ListAndScanAgree == MergeSpec => []UpcomingIsScheduled
<1>1. MergeTypeOK => UpcomingIsScheduled
  <2> SUFFICES ASSUME MergeTypeOK, categories \cap down = {}
               PROVE  Upcoming = Scheduled(Gathered)
    BY DEF UpcomingIsScheduled, UpcomingFails
  <2>1. categories \ down = categories
    OBVIOUS
  <2> QED BY <2>1 DEF Upcoming, DeduplicateHolidays, Scheduled, Gathered
<1> QED BY <1>1, TypeCorrect, PTL
=============================================================================
