------------------------- MODULE HolidayCacheProofs -------------------------
(* Theorems about HolidayCache, for every value of its constants.           *)
EXTENDS HolidayCache, FiniteSetTheorems, TLAPS

-----------------------------------------------------------------------------
(* The inductive invariant.                                                 *)

\* What a goroutine knows of the answer it is getting: nothing before it asks,
\* then one that is no older than the wait, then one stamped on arrival.
AnswerOK(c) ==
  /\ c.pc \in {"done", "read", "check", "fetch"} => c.wait = 0
  /\ c.pc \notin {"answered", "put"} => c.fresh = NewPayload
  /\ c.pc \in {"ask", "answered"} => c.wait <= Timeout
  /\ c.pc = "answered" => c.fresh.age = 0 /\ c.fresh.old <= c.wait
  /\ c.pc = "put" =>
       c.fresh.age <= c.wait /\ c.wait <= Busy /\ c.fresh.old <= c.fresh.age + Timeout

\* The result so far: every owed year behind the loop is in it, the one in hand
\* has its row in hand.
ResultOK(c) ==
  /\ c.year <= c.to
  /\ \A y \in c.owed : y <= c.to /\ (y < c.year \/ c.pc = "done" => c.out[y] # None)
  /\ c.pc \notin {"done", "read"} /\ c.year \in c.owed => c.hit # None
  /\ \A y \in Years : c.out[y] # None /\ y \notin c.worse => c.out[y] <= Freshness + Timeout

RowsKept == \A p \in Callers : \A y \in call[p].owed : row[y] # None

\* The callers that have looked at the backoff of y and are about to fetch.
Cleared(y) == {p \in Callers : call[p].pc = "fetch" /\ call[p].year = y}

Spared ==
  \A y \in Years :
    /\ rest[y] = 0 => tries[y] = 0
    /\ rest[y] > 0 => tries[y] + Cardinality(Cleared(y)) < Cardinality(Callers)

CallsOK == \A p \in Callers : AnswerOK(call[p]) /\ ResultOK(call[p])

IInv == TypeOK /\ HonestRow /\ CallsOK /\ RowsKept /\ Spared

-----------------------------------------------------------------------------
(* Types.                                                                   *)

\* An answer fresh from the source is a payload.
LEMMA NewPayloadType == NewPayload \in Payload
BY DurationsAssumption DEF NewPayload, Payload, Oldest

\* A goroutine between two calls is well typed.
LEMMA IdleType == Idle \in CallState
<1>1. FirstYear \in Years
  BY YearsAssumption DEF Years
<1> QED
  BY <1>1, NewPayloadType DEF Idle, CallState, Steps

\* A payload that ages stays a payload; it gets at most one older than it was.
LEMMA AgedType ==
  ASSUME NEW m \in Payload
  PROVE  /\ Aged(m) \in Payload
         /\ Aged(m).old <= m.old + 1
         /\ m.age < Freshness => Aged(m).age = m.age + 1
         /\ m.age >= Freshness => Aged(m).age = Freshness
BY DurationsAssumption DEF Aged, Payload, OlderBy1, Oldest

\* The state a goroutine reaches when loadYear returns.
Returned(c, data, missed) ==
  [c EXCEPT
    !.pc = IF c.year = c.to THEN "done" ELSE "read",
    !.year = IF c.year = c.to THEN c.year ELSE c.year + 1,
    !.out[c.year] = data,
    !.worse = IF missed THEN @ \cup {c.year} ELSE @,
    !.hit = None, !.second = FALSE, !.wait = 0, !.fresh = NewPayload]

OldOf(payload) == IF payload = None THEN None ELSE payload.old

\* Serving a payload is returning its age.
LEMMA ServeReturns ==
  ASSUME NEW p \in Callers, NEW m, NEW missed \in BOOLEAN, Serve(p, m, missed)
  PROVE  Becomes(p, Returned(call[p], OldOf(m), missed))
BY DEF Serve, NextYear, Returned, OldOf

\* loadYear returns in a well-typed state.
LEMMA ReturnedType ==
  ASSUME NEW c \in CallState, c.year <= c.to, NEW missed \in BOOLEAN,
         NEW data \in 0 .. Oldest \cup {None}
  PROVE  Returned(c, data, missed) \in CallState
<1> DEFINE y == IF c.year = c.to THEN c.year ELSE c.year + 1
<1> DEFINE pc == IF c.year = c.to THEN "done" ELSE "read"
<1> DEFINE w == IF missed THEN c.worse \cup {c.year} ELSE c.worse
<1> DEFINE o == [c.out EXCEPT ![c.year] = data]
<1>1. y \in Years
  BY YearsAssumption DEF CallState, Years
<1>2. pc \in Steps
  BY DEF Steps
<1>3. w \in SUBSET Years
  BY DEF CallState
<1>4. o \in [Years -> 0 .. Oldest \cup {None}]
  BY DEF CallState
<1>5. Returned(c, data, missed) =
        [c EXCEPT !.pc = pc, !.year = y, !.out = o, !.worse = w,
                  !.hit = None, !.second = FALSE, !.wait = 0, !.fresh = NewPayload]
  BY DEF Returned, CallState
<1> HIDE DEF y, pc, w, o
<1>6. Returned(c, data, missed) =
        [pc |-> pc, ctx |-> c.ctx, year |-> y, to |-> c.to, hit |-> None,
         second |-> FALSE, wait |-> 0, fresh |-> NewPayload, out |-> o,
         owed |-> c.owed, worse |-> w]
  BY <1>5 DEF CallState
<1> QED
  BY <1>1, <1>2, <1>3, <1>4, <1>6, NewPayloadType DEF CallState

\* What is served of a payload is an age, or None without one.
LEMMA OldOfType ==
  ASSUME NEW m \in Payload \cup {None}
  PROVE  OldOf(m) \in 0 .. Oldest \cup {None}
BY DEF OldOf, Payload

\* An empty table, no marks and no calls satisfy the invariant.
LEMMA InitIInv == Init => IInv
<1> SUFFICES ASSUME Init PROVE IInv
  OBVIOUS
<1>1. TypeOK
  BY IdleType, DurationsAssumption DEF Init, TypeOK
<1>2. AnswerOK(Idle) /\ ResultOK(Idle)
  BY YearsAssumption DEF AnswerOK, ResultOK, Idle, Years
<1>3. CallsOK
  BY <1>2 DEF Init, CallsOK
<1>4. HonestRow /\ RowsKept
  BY DEF Init, HonestRow, RowsKept, Idle
<1>5. Spared
  BY DEF Init, Spared
<1> QED
  BY <1>1, <1>3, <1>4, <1>5 DEF IInv

-----------------------------------------------------------------------------
(* What one goroutine's step leaves of the invariant.                       *)

\* A goroutine that reaches a good state disturbs no other goroutine.
LEMMA Moves ==
  ASSUME TypeOK, CallsOK, NEW p \in Callers, NEW st \in CallState, Becomes(p, st),
         AnswerOK(st), ResultOK(st)
  PROVE  /\ call' \in [Callers -> CallState]
         /\ CallsOK'
         /\ call'[p] = st
         /\ \A q \in Callers : q # p => call'[q] = call[q]
<1>1. call' \in [Callers -> CallState]
  BY DEF TypeOK, Becomes
<1>2. \A q \in Callers : call'[q] = IF q = p THEN st ELSE call[q]
  BY DEF TypeOK, Becomes
<1>3. ASSUME NEW q \in Callers PROVE AnswerOK(call'[q]) /\ ResultOK(call'[q])
  <2>1. CASE q = p
    BY <1>2, <2>1
  <2>2. CASE q # p
    <3>1. call'[q] = call[q]
      BY <1>2, <2>2
    <3> QED
      BY <3>1 DEF CallsOK
  <2> QED
    BY <2>1, <2>2
<1> QED
  BY <1>1, <1>2, <1>3 DEF CallsOK

\* loadYear returns in a good state when what it returns is young enough or
\* flagged, and there at all if it was owed.
LEMMA ReturnedOK ==
  ASSUME NEW c \in CallState, ResultOK(c), NEW missed \in BOOLEAN,
         NEW data \in 0 .. Oldest \cup {None},
         ~missed => data # None /\ data <= Freshness + Timeout,
         c.year \in c.owed => data # None
  PROVE  /\ Returned(c, data, missed) \in CallState
         /\ AnswerOK(Returned(c, data, missed))
         /\ ResultOK(Returned(c, data, missed))
         /\ Returned(c, data, missed).owed = c.owed
         /\ Returned(c, data, missed).pc \in {"done", "read"}
<1> DEFINE r == Returned(c, data, missed)
<1>1. r \in CallState
  BY ReturnedType DEF ResultOK
<1>2. /\ r.pc = IF c.year = c.to THEN "done" ELSE "read"
      /\ r.year = IF c.year = c.to THEN c.year ELSE c.year + 1
      /\ r.wait = 0 /\ r.fresh = NewPayload /\ r.to = c.to /\ r.owed = c.owed
  BY DEF Returned, CallState
<1>3. r.out = [c.out EXCEPT ![c.year] = data]
  BY DEF Returned, CallState
<1>4. r.worse = IF missed THEN c.worse \cup {c.year} ELSE c.worse
  BY DEF Returned, CallState
<1>5. c.year \in Years /\ c.year \in Nat /\ c.to \in Nat /\ c.year <= c.to
  BY YearsAssumption DEF ResultOK, CallState, Years
<1>6. \A y \in Years : r.out[y] = IF y = c.year THEN data ELSE c.out[y]
  BY <1>3, <1>5 DEF CallState
<1>7. c.owed \subseteq Years
  BY DEF CallState
<1> HIDE DEF r
<1>8. AnswerOK(r)
  BY <1>2 DEF AnswerOK
<1>9. r.year <= r.to
  BY <1>2, <1>5
<1>10. ASSUME NEW y \in r.owed
       PROVE  y <= r.to /\ (y < r.year \/ r.pc = "done" => r.out[y] # None)
  <2>1. y \in Years /\ y \in Nat /\ y \in c.owed /\ y <= c.to
    BY <1>2, <1>7, <1>10, YearsAssumption DEF ResultOK, Years
  <2>2. CASE y = c.year
    BY <1>2, <1>5, <1>6, <2>1, <2>2
  <2>3. CASE y < c.year
    BY <1>2, <1>5, <1>6, <2>1, <2>3 DEF ResultOK
  <2>4. CASE y > c.year
    BY <1>2, <1>5, <1>6, <2>1, <2>4
  <2> QED
    BY <1>5, <2>1, <2>2, <2>3, <2>4
<1>11. ASSUME NEW y \in Years, r.out[y] # None, y \notin r.worse
       PROVE  r.out[y] <= Freshness + Timeout
  <2>1. CASE y = c.year
    BY <1>4, <1>6, <1>11, <2>1
  <2>2. CASE y # c.year
    BY <1>4, <1>6, <1>11, <2>2 DEF ResultOK
  <2> QED
    BY <2>1, <2>2
<1>12. ResultOK(r)
  BY <1>2, <1>9, <1>10, <1>11 DEF ResultOK
<1> QED
  BY <1>1, <1>2, <1>8, <1>12 DEF r

\* The goroutines cleared for a year are finitely many.
LEMMA ClearedFinite ==
  ASSUME NEW y \in Years
  PROVE  /\ IsFiniteSet(Cleared(y)) /\ Cardinality(Cleared(y)) \in Nat
         /\ Cleared(y) \subseteq Callers /\ Cardinality(Callers) \in Nat
<1>1. Cleared(y) \subseteq Callers
  BY DEF Cleared
<1> QED
  BY <1>1, CallersAssumption, FS_Subset, FS_CardinalityType

\* A step that clears nobody leaves the count of fetches within its bound.
LEMMA SparedFrame ==
  ASSUME TypeOK, Spared, UNCHANGED <<rest, tries>>,
         \A q \in Callers : call'[q].pc = "fetch" =>
           call[q].pc = "fetch" /\ call[q].year = call'[q].year
  PROVE  Spared'
<1> SUFFICES ASSUME NEW y \in Years
             PROVE  /\ rest'[y] = 0 => tries'[y] = 0
                    /\ rest'[y] > 0 =>
                         tries'[y] + Cardinality(Cleared(y)') < Cardinality(Callers)
  BY DEF Spared
<1>1. Cleared(y)' \subseteq Cleared(y)
  BY DEF Cleared
<1>2. Cardinality(Cleared(y)') <= Cardinality(Cleared(y)) /\ Cardinality(Cleared(y)') \in Nat
  BY <1>1, ClearedFinite, FS_Subset, FS_CardinalityType
<1>3. tries[y] \in Nat /\ rest[y] \in Nat
  BY DurationsAssumption DEF TypeOK
<1> QED
  BY <1>2, <1>3, ClearedFinite DEF Spared

\* A row that is there stays there, and nobody is owed more: nothing owed is lost.
LEMMA RowsFrame ==
  ASSUME RowsKept, \A y \in Years : row[y] # None => row'[y] # None,
         call \in [Callers -> CallState],
         \A q \in Callers : call'[q].owed \subseteq call[q].owed
  PROVE  RowsKept'
<1>1. \A q \in Callers : call[q].owed \subseteq Years
  BY DEF CallState
<1> QED
  BY <1>1 DEF RowsKept

\* A step of one goroutine that touches neither the table nor the marks.
LEMMA QuietMove ==
  ASSUME IInv, NEW p \in Callers, NEW st \in CallState, Becomes(p, st),
         AnswerOK(st), ResultOK(st), st.owed \subseteq call[p].owed,
         st.pc = "fetch" => call[p].pc = "fetch" /\ st.year = call[p].year,
         UNCHANGED <<row, rest, tries>>, faults' \in Nat
  PROVE  IInv'
<1>1. /\ call' \in [Callers -> CallState] /\ CallsOK' /\ call'[p] = st
      /\ \A q \in Callers : q # p => call'[q] = call[q]
  BY Moves DEF IInv
<1>2. TypeOK'
  BY <1>1 DEF IInv, TypeOK
<1>3. HonestRow'
  BY DEF IInv, HonestRow
<1>4. RowsKept'
  BY <1>1, RowsFrame DEF IInv, TypeOK
<1>5. Spared'
  BY <1>1, SparedFrame DEF IInv
<1> QED
  BY <1>1, <1>2, <1>3, <1>4, <1>5 DEF IInv

\* A call leaves the count of faults a number.
LEMMA FaultsType ==
  ASSUME TypeOK, NEW p \in Callers,
         Fault \/ CallFails(p) \/ CallSucceeds(p) \/ UNCHANGED faults
  PROVE  faults' \in Nat
BY DEF TypeOK, Fault, CallFails, CallSucceeds

\* The invariant's view of one goroutine.
LEMMA Caller ==
  ASSUME IInv, NEW p \in Callers
  PROVE  /\ call[p] \in CallState /\ AnswerOK(call[p]) /\ ResultOK(call[p])
         /\ call[p].year \in Years
         /\ row[call[p].year] \in Payload \cup {None}
         /\ call[p].hit \in Payload \cup {None}
BY DEF IInv, TypeOK, CallsOK, CallState

\* A call begins with the years that have a row as its debt.
LEMMA BeginStep ==
  ASSUME IInv, NEW p \in Callers, NEW ys \in Ranges, Begin(p, ys)
  PROVE  IInv'
<1> DEFINE owed == {y \in ys[1] .. ys[2] : row[y] # None}
<1> DEFINE st == [Idle EXCEPT !.pc = "read", !.year = ys[1], !.to = ys[2], !.owed = owed]
<1>1. /\ ys[1] \in Years /\ ys[2] \in Years /\ ys[1] <= ys[2]
      /\ ys[1] \in Nat /\ ys[2] \in Nat
  BY YearsAssumption DEF Years
<1>2. owed \subseteq Years /\ \A y \in owed : y \in Nat /\ ys[1] <= y /\ y <= ys[2]
  BY <1>1, YearsAssumption DEF Years
<1>3. \A y \in owed : row[y] # None
  OBVIOUS
<1>4. Becomes(p, st)
  BY DEF Begin
<1> HIDE DEF owed
<1>5. st \in CallState
  BY <1>1, <1>2, IdleType DEF CallState, Steps
<1>6. /\ st.pc = "read" /\ st.year = ys[1] /\ st.to = ys[2] /\ st.owed = owed
      /\ st.wait = 0 /\ st.fresh = NewPayload /\ \A y \in Years : st.out[y] = None
  BY DEF Idle
<1> HIDE DEF st
<1>7. AnswerOK(st)
  BY <1>6 DEF AnswerOK
<1>8. ResultOK(st)
  BY <1>1, <1>2, <1>6 DEF ResultOK
<1>9. /\ call' \in [Callers -> CallState] /\ CallsOK' /\ call'[p] = st
      /\ \A q \in Callers : q # p => call'[q] = call[q]
  BY <1>4, <1>5, <1>7, <1>8, Moves DEF IInv
<1>10. UNCHANGED <<row, rest, faults, tries>>
  BY DEF Begin
<1>11. TypeOK' /\ HonestRow'
  BY <1>9, <1>10 DEF IInv, TypeOK, HonestRow
<1>12. RowsKept'
  BY <1>3, <1>6, <1>9, <1>10 DEF IInv, RowsKept
<1>13. Spared'
  BY <1>6, <1>9, <1>10, SparedFrame DEF IInv
<1> QED
  BY <1>9, <1>11, <1>12, <1>13 DEF IInv

\* A cancelled context changes what later calls do, and nothing yet.
LEMMA CancelStep ==
  ASSUME IInv, NEW p \in Callers, Cancel(p)
  PROVE  IInv'
<1> DEFINE st == [call[p] EXCEPT !.ctx = FALSE]
<1>1. Becomes(p, st) /\ UNCHANGED <<row, rest, tries>> /\ faults' \in Nat
  BY FaultsType DEF Cancel, IInv
<1>2. st \in CallState
  BY Caller DEF CallState
<1>3. AnswerOK(st) /\ ResultOK(st)
  BY Caller DEF AnswerOK, ResultOK, CallState
<1>4. st.owed = call[p].owed /\ st.pc = call[p].pc /\ st.year = call[p].year
  BY Caller DEF CallState
<1> QED
  BY <1>1, <1>2, <1>3, <1>4, QuietMove

\* A usable row was fetched recently: its holidays are young.
LEMMA UsableIsYoung ==
  ASSUME IInv, NEW y \in Years, Usable(row[y])
  PROVE  row[y].old <= Freshness + Timeout
BY DurationsAssumption DEF IInv, TypeOK, HonestRow, Usable, Payload, Oldest

\* loadYear returns without touching the table or the marks.
LEMMA QuietReturn ==
  ASSUME IInv, NEW p \in Callers, NEW m \in Payload \cup {None}, NEW missed \in BOOLEAN,
         Serve(p, m, missed), UNCHANGED <<row, rest, tries>>, faults' \in Nat,
         ~missed => m # None /\ m.old <= Freshness + Timeout,
         call[p].year \in call[p].owed => m # None
  PROVE  IInv'
<1>1. OldOf(m) \in 0 .. Oldest \cup {None}
  BY OldOfType
<1>2. ~missed => OldOf(m) # None /\ OldOf(m) <= Freshness + Timeout
  BY NoneAssumption DEF OldOf, Payload
<1>3. call[p].year \in call[p].owed => OldOf(m) # None
  BY NoneAssumption DEF OldOf, Payload
<1> DEFINE st == Returned(call[p], OldOf(m), missed)
<1>4. Becomes(p, st)
  BY ServeReturns
<1>5. /\ st \in CallState /\ AnswerOK(st) /\ ResultOK(st)
      /\ st.owed = call[p].owed /\ st.pc # "fetch"
  BY <1>1, <1>2, <1>3, Caller, ReturnedOK
<1> HIDE DEF st
<1> QED
  BY <1>4, <1>5, QuietMove

\* A usable row is young; any other, or none, goes on with the row in hand.
LEMMA LookUpStep ==
  ASSUME IInv, NEW p \in Callers, LookUp(p)
  PROVE  IInv'
<1> DEFINE y == call[p].year
<1>1. UNCHANGED <<row, rest, tries>> /\ call[p].pc = "read"
  BY DEF LookUp
<1>2. CASE CallSucceeds(p) /\ Usable(row[y]) /\ Serve(p, row[y], FALSE)
  <2>1. faults' \in Nat
    BY <1>2, FaultsType DEF IInv
  <2>2. row[y] # None /\ row[y].old <= Freshness + Timeout
    BY <1>2, Caller, UsableIsYoung DEF Usable
  <2> QED
    BY <1>1, <1>2, <2>1, <2>2, Caller, QuietReturn
<1>3. CASE /\ CallSucceeds(p)
           /\ Becomes(p, [call[p] EXCEPT !.pc = "check", !.hit = row[y]])
  <2> DEFINE st == [call[p] EXCEPT !.pc = "check", !.hit = row[y]]
  <2>1. faults' \in Nat
    BY <1>3, FaultsType DEF IInv
  <2>2. st \in CallState
    BY Caller DEF CallState, Steps
  <2>3. y \in call[p].owed => row[y] # None
    BY DEF IInv, RowsKept
  <2>4. AnswerOK(st) /\ ResultOK(st)
    BY <1>1, <2>3, Caller DEF AnswerOK, ResultOK, CallState
  <2>5. st.owed = call[p].owed /\ st.pc = "check"
    BY Caller DEF CallState
  <2> HIDE DEF st
  <2> QED
    BY <1>1, <1>3, <2>1, <2>2, <2>4, <2>5, QuietMove DEF st
<1>4. CASE /\ CallFails(p)
           /\ Becomes(p, [call[p] EXCEPT !.pc = "check", !.owed = @ \ {y}])
  <2> DEFINE st == [call[p] EXCEPT !.pc = "check", !.owed = @ \ {y}]
  <2>1. faults' \in Nat
    BY <1>4, FaultsType DEF IInv
  <2>2. st \in CallState
    BY Caller DEF CallState, Steps
  <2>3. AnswerOK(st) /\ ResultOK(st)
    BY <1>1, Caller DEF AnswerOK, ResultOK, CallState
  <2>4. st.owed \subseteq call[p].owed /\ st.pc = "check"
    BY Caller DEF CallState
  <2> HIDE DEF st
  <2> QED
    BY <1>1, <1>4, <2>1, <2>2, <2>3, <2>4, QuietMove DEF st
<1> QED
  BY <1>2, <1>3, <1>4 DEF LookUp

\* Only a year without a running backoff clears its caller for a fetch.
LEMMA CheckBackoffStep ==
  ASSUME IInv, NEW p \in Callers, CheckBackoff(p)
  PROVE  IInv'
<1> DEFINE y == call[p].year
<1>1. UNCHANGED <<row, rest, faults, tries>> /\ call[p].pc = "check"
  BY DEF CheckBackoff
<1>2. faults' \in Nat
  BY <1>1 DEF IInv, TypeOK
<1>3. CASE InBackoff(y)
  <2>1. Serve(p, call[p].hit, TRUE)
    BY <1>3 DEF CheckBackoff
  <2>2. y \in call[p].owed => call[p].hit # None
    BY <1>1, Caller DEF ResultOK
  <2> QED
    BY <1>1, <1>2, <2>1, <2>2, Caller, QuietReturn
<1>4. CASE ~InBackoff(y)
  <2> DEFINE st == [call[p] EXCEPT !.pc = "fetch"]
  <2>1. Becomes(p, st)
    BY <1>4 DEF CheckBackoff
  <2>2. st \in CallState
    BY Caller DEF CallState, Steps
  <2>3. AnswerOK(st) /\ ResultOK(st)
    BY <1>1, Caller DEF AnswerOK, ResultOK, CallState
  <2>4. st.owed = call[p].owed /\ st.year = y
    BY Caller DEF CallState
  <2> HIDE DEF st
  <2>5. /\ call' \in [Callers -> CallState] /\ CallsOK' /\ call'[p] = st
        /\ \A q \in Callers : q # p => call'[q] = call[q]
    BY <2>1, <2>2, <2>3, Moves DEF IInv
  <2>6. TypeOK' /\ HonestRow'
    BY <1>1, <2>5 DEF IInv, TypeOK, HonestRow
  <2>7. RowsKept'
    BY <1>1, <2>4, <2>5, RowsFrame DEF IInv, TypeOK
  <2>8. ASSUME NEW z \in Years
        PROVE  /\ rest'[z] = 0 => tries'[z] = 0
               /\ rest'[z] > 0 =>
                    tries'[z] + Cardinality(Cleared(z)') < Cardinality(Callers)
    <3>1. CASE z = y
      <4>1. rest[z] \in Nat
        BY DurationsAssumption DEF IInv, TypeOK
      <4>2. rest[z] = 0
        BY <1>4, <3>1, <4>1 DEF InBackoff
      <4> QED
        BY <1>1, <4>2 DEF IInv, Spared
    <3>2. CASE z # y
      <4>1. Cleared(z)' = Cleared(z)
        BY <1>1, <2>4, <2>5, <3>2 DEF Cleared
      <4> QED
        BY <1>1, <4>1 DEF IInv, Spared
    <3> QED
      BY <3>1, <3>2
  <2> QED
    BY <2>5, <2>6, <2>7, <2>8 DEF IInv, Spared
<1> QED
  BY <1>3, <1>4

\* A caller that asks leaves the cleared ones: with the year in backoff it is
\* counted as a try instead.
LEMMA AskStep ==
  ASSUME IInv, NEW p \in Callers, Ask(p)
  PROVE  IInv'
<1> DEFINE y == call[p].year
<1> DEFINE st == [call[p] EXCEPT !.pc = "ask"]
<1>1. /\ call[p].pc = "fetch" /\ Becomes(p, st) /\ UNCHANGED <<row, rest, faults>>
      /\ tries' = [tries EXCEPT ![y] = IF rest[y] > 0 THEN @ + 1 ELSE @]
  BY DEF Ask
<1>2. st \in CallState
  BY Caller DEF CallState, Steps
<1>3. AnswerOK(st) /\ ResultOK(st)
  BY <1>1, Caller, DurationsAssumption DEF AnswerOK, ResultOK, CallState
<1>4. st.owed = call[p].owed /\ st.pc = "ask"
  BY Caller DEF CallState
<1> HIDE DEF st
<1>5. /\ call' \in [Callers -> CallState] /\ CallsOK' /\ call'[p] = st
      /\ \A q \in Callers : q # p => call'[q] = call[q]
  BY <1>1, <1>2, <1>3, Moves DEF IInv
<1>6. TypeOK'
  BY <1>1, <1>5, Caller DEF IInv, TypeOK
<1>7. HonestRow'
  BY <1>1 DEF IInv, HonestRow
<1>8. RowsKept'
  BY <1>1, <1>4, <1>5, RowsFrame DEF IInv, TypeOK
<1>9. ASSUME NEW z \in Years
      PROVE  /\ rest'[z] = 0 => tries'[z] = 0
             /\ rest'[z] > 0 =>
                  tries'[z] + Cardinality(Cleared(z)') < Cardinality(Callers)
  <2>1. rest[z] \in Nat /\ tries[z] \in Nat
    BY DurationsAssumption DEF IInv, TypeOK
  <2>2. CASE z = y
    <3>1. Cleared(z)' = Cleared(z) \ {p} /\ p \in Cleared(z)
      BY <1>1, <1>4, <1>5, <2>2 DEF Cleared
    <3>2. Cardinality(Cleared(z)') = Cardinality(Cleared(z)) - 1
      BY <3>1, ClearedFinite, FS_RemoveElement
    <3>3. tries'[z] = IF rest[z] > 0 THEN tries[z] + 1 ELSE tries[z]
      BY <1>1, <2>2 DEF IInv, TypeOK
    <3> QED
      BY <1>1, <2>1, <3>2, <3>3, ClearedFinite DEF IInv, Spared
  <2>3. CASE z # y
    <3>1. Cleared(z)' = Cleared(z)
      BY <1>1, <1>4, <1>5, <2>3 DEF Cleared
    <3>2. tries'[z] = tries[z]
      BY <1>1, <2>3 DEF IInv, TypeOK
    <3> QED
      BY <1>1, <3>1, <3>2 DEF IInv, Spared
  <2> QED
    BY <2>2, <2>3
<1> QED
  BY <1>5, <1>6, <1>7, <1>8, <1>9 DEF IInv, Spared

\* The answer starts with age zero, which no wait is below.
LEMMA AnswerStep ==
  ASSUME IInv, NEW p \in Callers, Answer(p)
  PROVE  IInv'
<1> DEFINE st == [call[p] EXCEPT !.pc = "answered"]
<1>1. call[p].pc = "ask" /\ Becomes(p, st) /\ UNCHANGED <<row, rest, faults, tries>>
  BY DEF Answer
<1>2. st \in CallState
  BY Caller DEF CallState, Steps
<1>3. call[p].fresh = NewPayload /\ call[p].wait \in Nat /\ call[p].wait <= Timeout
  BY <1>1, Caller DEF AnswerOK, CallState
<1>4. AnswerOK(st) /\ ResultOK(st)
  BY <1>1, <1>3, Caller DEF AnswerOK, ResultOK, CallState, NewPayload
<1>5. st.owed = call[p].owed /\ st.pc = "answered"
  BY Caller DEF CallState
<1>6. faults' \in Nat
  BY <1>1 DEF IInv, TypeOK
<1> HIDE DEF st
<1> QED
  BY <1>1, <1>2, <1>4, <1>5, <1>6, QuietMove

\* The second mirror starts anew, with its own timeout.
LEMMA TryFallbackStep ==
  ASSUME IInv, NEW p \in Callers, TryFallback(p)
  PROVE  IInv'
<1> DEFINE st == [call[p] EXCEPT !.pc = "ask", !.second = TRUE, !.wait = 0,
                                 !.fresh = NewPayload]
<1>1. /\ call[p].pc \in {"ask", "answered"} /\ Becomes(p, st)
      /\ UNCHANGED <<row, rest, tries>> /\ CallFails(p)
  BY DEF TryFallback
<1>2. st \in CallState
  BY Caller, NewPayloadType DEF CallState, Steps
<1>3. AnswerOK(st) /\ ResultOK(st)
  BY <1>1, Caller, DurationsAssumption DEF AnswerOK, ResultOK, CallState
<1>4. st.owed = call[p].owed /\ st.pc = "ask"
  BY Caller DEF CallState
<1>5. faults' \in Nat
  BY <1>1, FaultsType DEF IInv
<1> HIDE DEF st
<1> QED
  BY <1>1, <1>2, <1>3, <1>4, <1>5, QuietMove

\* The marking caller is not cleared itself, so the bound starts with all others.
LEMMA FetchFailsStep ==
  ASSUME IInv, NEW p \in Callers, FetchFails(p)
  PROVE  IInv'
<1> DEFINE y == call[p].year
<1> DEFINE st == Returned(call[p], OldOf(call[p].hit), TRUE)
<1>1. /\ call[p].pc \in {"ask", "answered"} /\ UNCHANGED <<row, tries>> /\ CallFails(p)
      /\ rest' = [rest EXCEPT ![y] = FailBackoff]
      /\ Serve(p, call[p].hit, TRUE)
  BY DEF FetchFails, ServeStale
<1>2. Becomes(p, st)
  BY <1>1, Caller, ServeReturns
<1>3. OldOf(call[p].hit) \in 0 .. Oldest \cup {None}
  BY Caller, OldOfType
<1>4. y \in call[p].owed => OldOf(call[p].hit) # None
  BY <1>1, Caller, NoneAssumption DEF ResultOK, OldOf, Payload
<1>5. /\ st \in CallState /\ AnswerOK(st) /\ ResultOK(st)
      /\ st.owed = call[p].owed /\ st.pc # "fetch"
  BY <1>3, <1>4, Caller, ReturnedOK
<1> HIDE DEF st
<1>6. /\ call' \in [Callers -> CallState] /\ CallsOK' /\ call'[p] = st
      /\ \A q \in Callers : q # p => call'[q] = call[q]
  BY <1>2, <1>5, Moves DEF IInv
<1>7. faults' \in Nat
  BY <1>1, FaultsType DEF IInv
<1>8. TypeOK'
  <2>1. rest' \in [Years -> 0 .. FailBackoff]
    <3>1. FailBackoff \in 0 .. FailBackoff
      BY DurationsAssumption
    <3> QED
      BY <1>1, <3>1 DEF IInv, TypeOK
  <2> QED
    BY <1>1, <1>6, <1>7, <2>1 DEF IInv, TypeOK
<1>9. HonestRow'
  BY <1>1 DEF IInv, HonestRow
<1>10. RowsKept'
  BY <1>1, <1>5, <1>6, RowsFrame DEF IInv, TypeOK
<1>11. ASSUME NEW z \in Years
       PROVE  /\ rest'[z] = 0 => tries'[z] = 0
              /\ rest'[z] > 0 =>
                   tries'[z] + Cardinality(Cleared(z)') < Cardinality(Callers)
  <2>1. /\ rest[z] \in Nat /\ tries[z] \in Nat /\ FailBackoff \in Nat
        /\ rest'[z] = IF z = y THEN FailBackoff ELSE rest[z]
        /\ tries' = tries
    BY <1>1, DurationsAssumption DEF IInv, TypeOK
  <2>2. Cleared(z)' = Cleared(z) /\ p \notin Cleared(z)
    BY <1>1, <1>5, <1>6 DEF Cleared
  <2>3. Cardinality(Cleared(z)) < Cardinality(Callers)
    <3>1. Cleared(z) \subseteq Callers /\ Cleared(z) # Callers
      BY <2>2, ClearedFinite
    <3> QED
      BY <3>1, CallersAssumption, ClearedFinite, FS_Subset
  <2>4. CASE rest[z] = 0
    <3>1. tries[z] = 0
      BY <2>4 DEF IInv, Spared
    <3> QED
      BY <2>1, <2>2, <2>3, <3>1, ClearedFinite
  <2>5. CASE rest[z] > 0 /\ FailBackoff > 0
    BY <2>1, <2>2, <2>5 DEF IInv, Spared
  <2>6. CASE rest[z] > 0 /\ FailBackoff = 0
    <3>1. rest[z] \in 0 .. FailBackoff
      BY DEF IInv, TypeOK
    <3> QED
      BY <2>1, <2>6, <3>1
  <2> QED
    BY <2>1, <2>4, <2>5, <2>6
<1> QED
  BY <1>6, <1>8, <1>9, <1>10, <1>11 DEF IInv, Spared

\* An answer that arrives ends the year's backoff, and with it the count.
LEMMA ArriveStep ==
  ASSUME IInv, NEW p \in Callers, Arrive(p)
  PROVE  IInv'
<1> DEFINE y == call[p].year
<1> DEFINE st == [call[p] EXCEPT !.pc = "put", !.wait = 0]
<1>1. /\ call[p].pc = "answered" /\ Becomes(p, st) /\ UNCHANGED <<row, faults>>
      /\ rest' = [rest EXCEPT ![y] = 0] /\ tries' = [tries EXCEPT ![y] = 0]
  BY DEF Arrive
<1>2. st \in CallState
  BY Caller DEF CallState, Steps
<1>3. call[p].fresh.age = 0 /\ call[p].fresh.old <= Timeout
  BY <1>1, Caller, DurationsAssumption DEF AnswerOK, CallState, Payload, Oldest
<1>4. AnswerOK(st) /\ ResultOK(st)
  BY <1>1, <1>3, Caller, DurationsAssumption DEF AnswerOK, ResultOK, CallState
<1>5. st.owed = call[p].owed /\ st.pc = "put"
  BY Caller DEF CallState
<1> HIDE DEF st
<1>6. /\ call' \in [Callers -> CallState] /\ CallsOK' /\ call'[p] = st
      /\ \A q \in Callers : q # p => call'[q] = call[q]
  BY <1>1, <1>2, <1>4, Moves DEF IInv
<1>7. TypeOK'
  <2>1. 0 \in 0 .. FailBackoff
    BY DurationsAssumption
  <2>2. rest' \in [Years -> 0 .. FailBackoff] /\ tries' \in [Years -> Nat]
    BY <1>1, <2>1 DEF IInv, TypeOK
  <2> QED
    BY <1>1, <1>6, <2>2 DEF IInv, TypeOK
<1>8. HonestRow'
  BY <1>1 DEF IInv, HonestRow
<1>9. RowsKept'
  BY <1>1, <1>5, <1>6, RowsFrame DEF IInv, TypeOK
<1>10. ASSUME NEW z \in Years
       PROVE  /\ rest'[z] = 0 => tries'[z] = 0
              /\ rest'[z] > 0 =>
                   tries'[z] + Cardinality(Cleared(z)') < Cardinality(Callers)
  <2>1. Cleared(z)' = Cleared(z)
    BY <1>1, <1>5, <1>6 DEF Cleared
  <2>2. CASE z = y
    BY <1>1, <2>2 DEF IInv, TypeOK
  <2>3. CASE z # y
    <3>1. rest'[z] = rest[z] /\ tries'[z] = tries[z]
      BY <1>1, <2>3 DEF IInv, TypeOK
    <3> QED
      BY <2>1, <3>1 DEF IInv, Spared
  <2> QED
    BY <2>2, <2>3
<1> QED
  BY <1>6, <1>7, <1>8, <1>9, <1>10 DEF IInv, Spared

\* Whichever refresh is written last, its stamp is honest.
LEMMA PutStep ==
  ASSUME IInv, NEW p \in Callers, Put(p)
  PROVE  IInv'
<1> DEFINE y == call[p].year
<1> DEFINE m == call[p].fresh
<1> DEFINE st == Returned(call[p], OldOf(m), FALSE)
<1>1. /\ call[p].pc = "put" /\ UNCHANGED <<rest, tries>>
      /\ CallSucceeds(p) \/ CallFails(p)
      /\ row' = [row EXCEPT ![y] = m] \/ row' = row
      /\ Serve(p, m, FALSE)
  BY DEF Put
<1>2. m \in Payload /\ m # None
  BY Caller, NoneAssumption DEF CallState, Payload
<1>3. m.old <= m.age + Timeout /\ m.age <= Busy
  BY <1>1, <1>2, Caller, DurationsAssumption DEF AnswerOK, CallState, Payload
<1>4. /\ OldOf(m) \in 0 .. Oldest \cup {None} /\ OldOf(m) # None
      /\ OldOf(m) <= Freshness + Timeout
  BY <1>2, <1>3, NoneAssumption, DurationsAssumption DEF OldOf, Payload, Oldest
<1>5. Becomes(p, st)
  BY <1>1, ServeReturns
<1> HIDE DEF m
<1>6. /\ st \in CallState /\ AnswerOK(st) /\ ResultOK(st)
      /\ st.owed = call[p].owed /\ st.pc # "fetch"
  BY <1>4, Caller, ReturnedOK
<1> HIDE DEF st
<1>7. /\ call' \in [Callers -> CallState] /\ CallsOK' /\ call'[p] = st
      /\ \A q \in Callers : q # p => call'[q] = call[q]
  BY <1>5, <1>6, Moves DEF IInv
<1>8. faults' \in Nat
  BY <1>1, FaultsType DEF IInv
<1>9. TypeOK'
  BY <1>1, <1>2, <1>7, <1>8 DEF IInv, TypeOK
<1>10. HonestRow'
  BY <1>1, <1>3 DEF IInv, TypeOK, HonestRow
<1>11. RowsKept'
  <2>1. \A z \in Years : row[z] # None => row'[z] # None
    BY <1>1, <1>2 DEF IInv, TypeOK
  <2> QED
    BY <1>6, <1>7, <2>1, RowsFrame DEF IInv, TypeOK
<1>12. Spared'
  BY <1>1, <1>6, <1>7, SparedFrame DEF IInv
<1> QED
  BY <1>7, <1>9, <1>10, <1>11, <1>12 DEF IInv

\* A restart forgets marks and calls; rows keep their honest stamps.
LEMMA RestartStep ==
  ASSUME IInv, Restart
  PROVE  IInv'
<1>1. /\ UNCHANGED row /\ faults' \in Nat
      /\ rest' = [y \in Years |-> 0] /\ tries' = [y \in Years |-> 0]
      /\ call' = [q \in Callers |-> Idle]
  BY DEF Restart, Fault, IInv, TypeOK
<1>2. TypeOK'
  BY <1>1, IdleType, DurationsAssumption DEF IInv, TypeOK
<1>3. AnswerOK(Idle) /\ ResultOK(Idle)
  BY YearsAssumption DEF AnswerOK, ResultOK, Idle, Years
<1>4. CallsOK'
  BY <1>1, <1>3 DEF CallsOK
<1>5. HonestRow' /\ RowsKept'
  BY <1>1 DEF IInv, HonestRow, RowsKept, Idle
<1>6. Spared'
  BY <1>1 DEF Spared
<1> QED
  BY <1>2, <1>4, <1>5, <1>6 DEF IInv

\* A wait below its limit may take one more tick.
LEMMA LaterOK ==
  ASSUME NEW c \in CallState, AnswerOK(c), ResultOK(c),
         c.pc \in Timed => c.wait < Limit(c.pc)
  PROVE  /\ Later(c) \in CallState /\ AnswerOK(Later(c)) /\ ResultOK(Later(c))
         /\ Later(c).owed = c.owed /\ Later(c).pc = c.pc /\ Later(c).year = c.year
<1> DEFINE w == IF c.pc \in Timed THEN c.wait + 1 ELSE c.wait
<1> DEFINE f == AgedAnswer(c)
<1> DEFINE h == IF c.hit = None THEN None ELSE Aged(c.hit)
<1>1. Later(c) = [c EXCEPT !.wait = w, !.fresh = f, !.hit = h]
  BY DEF Later
<1>2. w \in Nat /\ h \in Payload \cup {None} /\ (h = None <=> c.hit = None)
  BY AgedType, NoneAssumption DEF CallState, Payload
<1>3. c.fresh \in Payload /\ c.fresh.age \in Nat /\ c.fresh.old \in Nat /\ c.wait \in Nat
  BY DEF CallState, Payload
<1>4. f \in Payload
  <2>1. CASE c.pc = "answered"
    BY <1>3, <2>1, DurationsAssumption DEF AgedAnswer, Payload, OlderBy1, Oldest
  <2>2. CASE c.pc = "put"
    BY <1>3, <2>2, AgedType DEF AgedAnswer
  <2> QED
    BY <1>3, <2>1, <2>2 DEF AgedAnswer
<1>5. c.pc = "answered" => f.age = 0 /\ f.old <= w
  BY <1>3, DurationsAssumption DEF AnswerOK, AgedAnswer, Timed, OlderBy1, Payload, Oldest
<1>6. c.pc = "put" => f.age <= w /\ w <= Busy /\ f.old <= f.age + Timeout
  <2> SUFFICES ASSUME c.pc = "put" PROVE f.age <= w /\ w <= Busy /\ f.old <= f.age + Timeout
    OBVIOUS
  <2>1. /\ f = Aged(c.fresh) /\ w = c.wait + 1 /\ c.wait < Busy
        /\ c.fresh.age <= c.wait /\ c.fresh.old <= c.fresh.age + Timeout
    BY DEF AgedAnswer, Timed, Limit, AnswerOK
  <2>2. f.age = c.fresh.age + 1 /\ f.old <= c.fresh.old + 1
    BY <1>3, <2>1, AgedType, DurationsAssumption
  <2>3. f.age \in Nat /\ f.old \in Nat
    BY <1>4 DEF Payload
  <2> QED
    BY <1>3, <2>1, <2>2, <2>3, DurationsAssumption
<1>7. c.pc \in {"ask", "answered"} => w <= Timeout
  BY <1>3, DurationsAssumption DEF Timed, Limit
<1>8. /\ c.pc \notin {"answered", "put"} => f = c.fresh
      /\ c.pc \notin Timed => w = c.wait
  BY DEF AgedAnswer
<1> HIDE DEF w, f, h
<1> DEFINE st == [c EXCEPT !.wait = w, !.fresh = f, !.hit = h]
<1>9. st \in CallState
  BY <1>2, <1>4 DEF CallState
<1>10. AnswerOK(st)
  BY <1>5, <1>6, <1>7, <1>8 DEF AnswerOK, CallState, Timed
<1>11. ResultOK(st)
  BY <1>2 DEF ResultOK, CallState
<1>12. st.owed = c.owed /\ st.pc = c.pc /\ st.year = c.year
  BY DEF CallState
<1> QED
  BY <1>1, <1>9, <1>10, <1>11, <1>12

\* Time ages stamps and holidays alike, and lowers backoffs without new tries.
LEMMA TickStep ==
  ASSUME IInv, Tick
  PROVE  IInv'
<1>1. /\ \A p \in Callers : call[p].pc \in Timed => call[p].wait < Limit(call[p].pc)
      /\ row' = [y \in Years |-> IF row[y] = None THEN None ELSE Aged(row[y])]
      /\ rest' = [y \in Years |-> IF rest[y] > 0 THEN rest[y] - 1 ELSE 0]
      /\ tries' = [y \in Years |-> IF rest[y] > 1 THEN tries[y] ELSE 0]
      /\ UNCHANGED faults
  BY DEF Tick
<1>2. call' = [p \in Callers |-> Later(call[p])]
  BY DEF Tick
<1>3. ASSUME NEW p \in Callers
      PROVE  /\ call'[p] \in CallState /\ AnswerOK(call'[p]) /\ ResultOK(call'[p])
             /\ call'[p].owed = call[p].owed /\ call'[p].pc = call[p].pc
             /\ call'[p].year = call[p].year
  <2>1. call'[p] = Later(call[p])
    BY <1>2
  <2> QED
    BY <1>1, <2>1, Caller, LaterOK
<1>4. CallsOK'
  BY <1>3 DEF CallsOK
<1>5. ASSUME NEW y \in Years
      PROVE  /\ row'[y] \in Payload \cup {None} /\ (row[y] = None <=> row'[y] = None)
             /\ row'[y] # None /\ row'[y].age < Freshness =>
                  row'[y].old <= row'[y].age + Timeout
  <2>1. CASE row[y] = None
    BY <1>1, <2>1
  <2>2. CASE row[y] # None
    <3>1. row[y] \in Payload /\ row'[y] = Aged(row[y])
      BY <1>1, <2>2 DEF IInv, TypeOK
    <3>2. /\ row[y].age \in Nat /\ row[y].old \in Nat
          /\ row'[y] \in Payload /\ row'[y].old \in Nat /\ row'[y].age \in Nat
      BY <3>1, AgedType DEF Payload
    <3>3. row'[y] # None
      BY <3>2, NoneAssumption DEF Payload
    <3>4. row'[y].age < Freshness => row[y].age < Freshness /\ row'[y].age = row[y].age + 1
      BY <3>1, <3>2, AgedType, DurationsAssumption
    <3>5. row'[y].old <= row[y].old + 1
      BY <3>1, AgedType
    <3>6. row[y].age < Freshness => row[y].old <= row[y].age + Timeout
      BY <2>2 DEF IInv, HonestRow
    <3> QED
      BY <2>2, <3>2, <3>3, <3>4, <3>5, <3>6, DurationsAssumption
  <2> QED
    BY <2>1, <2>2
<1>6. HonestRow'
  BY <1>5 DEF HonestRow
<1>7. ASSUME NEW y \in Years
      PROVE  /\ rest'[y] \in 0 .. FailBackoff /\ tries'[y] \in Nat
             /\ rest'[y] = 0 => tries'[y] = 0
             /\ rest'[y] > 0 => rest[y] > 0 /\ tries'[y] = tries[y]
  BY <1>1, DurationsAssumption DEF IInv, TypeOK
<1>8. call' \in [Callers -> CallState]
  BY <1>2, <1>3
<1>9. TypeOK'
  BY <1>1, <1>5, <1>7, <1>8 DEF IInv, TypeOK
<1>10. RowsKept'
  BY <1>3, <1>5, RowsFrame DEF IInv, TypeOK
<1>11. \A y \in Years : Cleared(y)' = Cleared(y)
  BY <1>3 DEF Cleared
<1>12. Spared'
  BY <1>7, <1>11 DEF IInv, Spared
<1> QED
  BY <1>4, <1>6, <1>9, <1>10, <1>12 DEF IInv

-----------------------------------------------------------------------------
(* The theorems.                                                            *)

\* Every step keeps the inductive invariant.
LEMMA NextIInv ==
  ASSUME IInv, [Next]_vars
  PROVE  IInv'
<1>1. ASSUME NEW p \in Callers, LoadStep(p) PROVE IInv'
  BY <1>1, LookUpStep, CheckBackoffStep, AskStep, AnswerStep, TryFallbackStep,
     FetchFailsStep, ArriveStep, PutStep DEF LoadStep
<1>2. CASE UNCHANGED vars
  BY <1>2 DEF vars, IInv, TypeOK, HonestRow, CallsOK, RowsKept, Spared, Cleared
<1> QED
  BY <1>1, <1>2, BeginStep, CancelStep, TickStep, RestartStep DEF Next

\* The invariant holds in every reachable state.
THEOREM Invariance == Spec => []IInv
BY InitIInv, NextIInv, PTL DEF Spec

\* Every variable and every goroutine's local keeps its type.
THEOREM TypeCorrect == Spec => []TypeOK
<1>1. IInv => TypeOK
  BY DEF IInv
<1> QED
  BY <1>1, Invariance, PTL

\* However many refreshes of a year overlap and in whatever order they are written,
\* a row is never older than its stamp says, but for one HTTP timeout.
THEOREM RowsAreHonest == Spec => []HonestRow
<1>1. IInv => HonestRow
  BY DEF IInv
<1> QED
  BY <1>1, Invariance, PTL

\* A cached year is served whatever happens to its refresh: backoff, failure of
\* both mirrors, cancellation, a failed write.
THEOREM CacheServes == Spec => []CacheNeverForgotten
<1>1. IInv => CacheNeverForgotten
  BY DEF IInv, CallsOK, ResultOK, CacheNeverForgotten
<1> QED
  BY <1>1, Invariance, PTL

\* Holidays older than a day are served only for a year whose refresh did not come.
THEOREM OldIsFlagged == Spec => []OldOnlyWhenFailing
<1>1. IInv => OldOnlyWhenFailing
  BY DEF IInv, CallsOK, ResultOK, OldOnlyWhenFailing
<1> QED
  BY <1>1, Invariance, PTL

\* In one backoff of a year, fewer fetches begin than there are callers.
THEOREM SourceIsSpared == Spec => []SourceSpared
<1>1. ASSUME IInv, NEW y \in Years PROVE tries[y] < Cardinality(Callers)
  <2>1. tries[y] \in Nat /\ rest[y] \in Nat
    BY <1>1, DurationsAssumption DEF IInv, TypeOK
  <2>2. CASE rest[y] = 0
    <3>1. Cardinality(Callers) # 0
      BY CallersAssumption, FS_EmptySet
    <3>2. tries[y] = 0
      BY <1>1, <2>2 DEF IInv, Spared
    <3> QED
      BY <3>1, <3>2, ClearedFinite
  <2>3. CASE rest[y] > 0
    <3>1. tries[y] + Cardinality(Cleared(y)) < Cardinality(Callers)
      BY <1>1, <2>3 DEF IInv, Spared
    <3> QED
      BY <2>1, <3>1, ClearedFinite
  <2> QED
    BY <2>1, <2>2, <2>3
<1>2. IInv => SourceSpared
  BY <1>1 DEF SourceSpared
<1> QED
  BY <1>2, Invariance, PTL
=============================================================================
