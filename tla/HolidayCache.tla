---------------------------- MODULE HolidayCache ----------------------------
(***************************************************************************)
(* A remote holiday source behind its cache: calendarprov/cached.go over   *)
(* the two mirrors of kresnasatya.go and the holiday_cache table.  The     *)
(* scheduler's scan, the upcoming list and its notify request call it      *)
(* concurrently; nothing but the failure marks is under a mutex.           *)
(*                                                                         *)
(* Holidays of a year are abstracted to their age: how long ago the source *)
(* produced them.  Times are kept as elapsed or remaining time, saturating *)
(* where the code stops telling them apart, so the model needs no horizon. *)
(***************************************************************************)
EXTENDS Naturals, FiniteSets

CONSTANTS
  Callers, Scan,      \* Scan is the scheduler's loop, whose context is never cancelled
  FirstYear, LastYear,
  Ranges,             \* the <<from, to>> a call may span
  Freshness,          \* how long a cached payload is used without a refresh
  FailBackoff,        \* how long a failed refresh is not repeated; 0: never
  Timeout,            \* the HTTP client's timeout, per mirror
  Busy,               \* the longest a database write takes (busy_timeout)
  None,               \* no payload
  MaxFaults           \* bound of the model

ASSUME CallersAssumption == IsFiniteSet(Callers) /\ Scan \in Callers
ASSUME NoneAssumption == None \notin Nat /\ None \notin [age : Nat, old : Nat]
Years == FirstYear .. LastYear

ASSUME YearsAssumption ==
  /\ FirstYear \in Nat /\ LastYear \in Nat /\ FirstYear <= LastYear
  /\ Ranges \subseteq Years \X Years /\ \A ys \in Ranges : ys[1] <= ys[2]
ASSUME DurationsAssumption ==
  Freshness \in Nat \ {0} /\ FailBackoff \in Nat /\ Timeout \in Nat /\ MaxFaults \in Nat
  /\ Busy \in Nat /\ Busy < Freshness

VARIABLES
  row,                \* holiday_cache: [age, old] since FetchedAt and since the source
  rest,               \* what is left of the year's backoff (lastFail); 0 without one
  call,               \* the goroutine of each caller of HolidaysBetween
  faults,
  tries               \* history: fetches begun in the year's current backoff

vars == <<row, rest, call, faults, tries>>

Oldest == Freshness + Timeout + 1              \* ages saturate here
OlderBy1(a, most) == IF a < most THEN a + 1 ELSE most

Payload == [age : 0 .. Freshness, old : 0 .. Oldest]
Steps == {"done", "read", "check", "fetch", "ask", "answered", "put"}

CallState ==
  [pc : Steps, ctx : BOOLEAN,
   year : Years, to : Years,            \* the year being loaded, and the last one
   hit : Payload \cup {None},           \* what the look-up of the year found
   second : BOOLEAN,                    \* on the fallback mirror
   wait : Nat,                          \* how long the mirror or the write has taken
   fresh : Payload,                     \* the source's answer
   out : [Years -> 0 .. Oldest \cup {None}],
   \* history: years that had a readable row, years whose refresh did not come
   owed : SUBSET Years, worse : SUBSET Years]

NewPayload == [age |-> 0, old |-> 0]

Idle ==
  [pc |-> "done", ctx |-> TRUE, year |-> FirstYear, to |-> FirstYear, hit |-> None, second |-> FALSE,
   wait |-> 0, fresh |-> NewPayload, out |-> [y \in Years |-> None],
   owed |-> {}, worse |-> {}]

Init ==
  /\ row = [y \in Years |-> None]
  /\ rest = [y \in Years |-> 0]
  /\ call = [p \in Callers |-> Idle]
  /\ faults = 0
  /\ tries = [y \in Years |-> 0]

Becomes(p, state) == call' = [call EXCEPT ![p] = state]

\* Database and network calls fail with a cancelled context, and otherwise at
\* any time, MaxFaults times.
Fault == faults < MaxFaults /\ faults' = faults + 1
CallFails(p) ==
  \/ ~call[p].ctx /\ UNCHANGED faults
  \/ call[p].ctx /\ Fault
CallSucceeds(p) == call[p].ctx /\ UNCHANGED faults

\* loadYear returns: the year's data join the result, or None leaves it out, and
\* the loop takes the next year.  missed: the refresh it wanted did not come.
NextYear(p, data, missed) ==
  LET c == call[p]  y == c.year IN
  Becomes(p, [c EXCEPT
    !.pc = IF y = c.to THEN "done" ELSE "read",
    !.year = IF y = c.to THEN y ELSE y + 1,
    !.out[y] = data,
    !.worse = IF missed THEN @ \cup {y} ELSE @,
    !.hit = None, !.second = FALSE, !.wait = 0, !.fresh = NewPayload])

Serve(p, payload, missed) ==
  NextYear(p, IF payload = None THEN None ELSE payload.old, missed)

-----------------------------------------------------------------------------
\* Mutant: the loop runs one year too far.
BeginPastEnd(p, ys) ==
  /\ call[p].pc = "done"
  /\ Becomes(p, [Idle EXCEPT !.pc = "read", !.year = ys[1], !.to = ys[2] + 1])
  /\ UNCHANGED <<row, rest, faults, tries>>

\* HolidaysBetween over the years ys[1] .. ys[2].
Begin(p, ys) ==
  /\ call[p].pc = "done"
  /\ Becomes(p, [Idle EXCEPT !.pc = "read", !.year = ys[1], !.to = ys[2],
                             !.owed = {y \in ys[1] .. ys[2] : row[y] # None}])
  /\ UNCHANGED <<row, rest, faults, tries>>

\* The client of a request goes away.
Cancel(p) ==
  /\ p # Scan /\ call[p].pc # "done" /\ call[p].ctx
  /\ Becomes(p, [call[p] EXCEPT !.ctx = FALSE])
  /\ Fault
  /\ UNCHANGED <<row, rest, tries>>

\* Mutant: <= for <.
UsableLonger(payload) == payload # None /\ payload.age <= Freshness

\* A payload younger than Freshness is used as it is.
Usable(payload) == payload # None /\ payload.age < Freshness

\* GetHolidayCache; a look-up that fails counts as a miss.
LookUp(p) ==
  /\ call[p].pc = "read"
  /\ \/ /\ CallSucceeds(p) /\ Usable(row[call[p].year])
        /\ Serve(p, row[call[p].year], FALSE)
     \/ /\ CallSucceeds(p) /\ ~Usable(row[call[p].year])
        /\ Becomes(p, [call[p] EXCEPT !.pc = "check", !.hit = row[call[p].year]])
     \/ /\ CallFails(p)
        /\ Becomes(p, [call[p] EXCEPT !.pc = "check", !.owed = @ \ {call[p].year}])
  /\ UNCHANGED <<row, rest, tries>>

\* Mutant: the backoff is never looked at.
NeverInBackoff(y) == FALSE

InBackoff(y) == rest[y] > 0

\* Mutant: every refusal renews the mark.
CheckAndRenew(p) ==
  /\ call[p].pc = "check"
  /\ IF InBackoff(call[p].year)
     THEN Serve(p, call[p].hit, TRUE) /\ rest' = [rest EXCEPT ![call[p].year] = FailBackoff]
     ELSE Becomes(p, [call[p] EXCEPT !.pc = "fetch"]) /\ UNCHANGED rest
  /\ UNCHANGED <<row, faults, tries>>

\* A year in backoff is served from the stale row, or left out.
CheckBackoff(p) ==
  /\ call[p].pc = "check"
  /\ IF InBackoff(call[p].year)
     THEN Serve(p, call[p].hit, TRUE)
     ELSE Becomes(p, [call[p] EXCEPT !.pc = "fetch"])
  /\ UNCHANGED <<row, rest, faults, tries>>

\* The request leaves; by now another caller may have marked the year.
Ask(p) ==
  /\ call[p].pc = "fetch"
  /\ Becomes(p, [call[p] EXCEPT !.pc = "ask"])
  /\ tries' = [tries EXCEPT ![call[p].year] = IF rest[call[p].year] > 0 THEN @ + 1 ELSE @]
  /\ UNCHANGED <<row, rest, faults>>

\* The source produces the year's holidays; the response is under way.
Answer(p) ==
  /\ call[p].pc = "ask" /\ call[p].ctx
  /\ Becomes(p, [call[p] EXCEPT !.pc = "answered"])
  /\ UNCHANGED <<row, rest, faults, tries>>

\* The primary mirror gives an error, a bad answer or none in time: the other one
\* is tried.
TryFallback(p) ==
  /\ call[p].pc \in {"ask", "answered"} /\ ~call[p].second
  /\ CallFails(p)
  /\ Becomes(p, [call[p] EXCEPT !.pc = "ask", !.second = TRUE, !.wait = 0,
                                !.fresh = NewPayload])
  /\ UNCHANGED <<row, rest, tries>>

\* Mutant: a failed refresh forgets the row it was to replace.
ServeEmpty(p) == Serve(p, None, TRUE)

\* The stale row, where there is one.
ServeStale(p) == Serve(p, call[p].hit, TRUE)

\* Both mirrors failed: the failure is marked.
FetchFails(p) ==
  /\ call[p].pc \in {"ask", "answered"} /\ call[p].second
  /\ CallFails(p)
  /\ rest' = [rest EXCEPT ![call[p].year] = FailBackoff]
  /\ ServeStale(p)
  /\ UNCHANGED <<row, tries>>

\* The answer arrives: the mark is cleared, and FetchedAt is read off the clock.
Arrive(p) ==
  /\ call[p].pc = "answered" /\ call[p].ctx
  /\ rest' = [rest EXCEPT ![call[p].year] = 0]
  /\ tries' = [tries EXCEPT ![call[p].year] = 0]
  /\ Becomes(p, [call[p] EXCEPT !.pc = "put", !.wait = 0])
  /\ UNCHANGED <<row, faults>>

\* Mutant: FetchedAt is set when the row is written.
PutStamped(p) ==
  /\ call[p].pc = "put"
  /\ \/ CallSucceeds(p) /\ row' = [row EXCEPT ![call[p].year] = [call[p].fresh EXCEPT !.age = 0]]
     \/ CallFails(p) /\ UNCHANGED row
  /\ Serve(p, call[p].fresh, FALSE)
  /\ UNCHANGED <<rest, tries>>

\* PutHolidayCache: the last writer wins, and an error is ignored.
Put(p) ==
  /\ call[p].pc = "put"
  /\ \/ CallSucceeds(p) /\ row' = [row EXCEPT ![call[p].year] = call[p].fresh]
     \/ CallFails(p) /\ UNCHANGED row
  /\ Serve(p, call[p].fresh, FALSE)
  /\ UNCHANGED <<rest, tries>>

-----------------------------------------------------------------------------
Aged(payload) ==
  [age |-> OlderBy1(payload.age, Freshness), old |-> OlderBy1(payload.old, Oldest)]

Limit(pc) == IF pc = "put" THEN Busy ELSE Timeout
Timed == {"ask", "answered", "put"}

\* An answer ages on its way, and after its arrival together with its stamp.
AgedAnswer(c) ==
  IF c.pc = "put" THEN Aged(c.fresh)
  ELSE IF c.pc = "answered" THEN [c.fresh EXCEPT !.old = OlderBy1(@, Oldest)]
  ELSE c.fresh

Later(c) ==
  [c EXCEPT !.wait = IF c.pc \in Timed THEN c.wait + 1 ELSE c.wait,
            !.fresh = AgedAnswer(c),
            !.hit = IF c.hit = None THEN None ELSE Aged(c.hit)]

\* Time passes for rows, marks and answers; a mirror answers within Timeout, a
\* write ends within Busy.
Tick ==
  /\ \A p \in Callers : call[p].pc \in Timed => call[p].wait < Limit(call[p].pc)
  /\ row' = [y \in Years |-> IF row[y] = None THEN None ELSE Aged(row[y])]
  /\ rest' = [y \in Years |-> IF rest[y] > 0 THEN rest[y] - 1 ELSE 0]
  /\ tries' = [y \in Years |-> IF rest[y] > 1 THEN tries[y] ELSE 0]
  /\ call' = [p \in Callers |-> Later(call[p])]
  /\ UNCHANGED faults

\* The process restarts: marks and calls are lost, rows stay.
Restart ==
  /\ Fault
  /\ rest' = [y \in Years |-> 0] /\ tries' = [y \in Years |-> 0]
  /\ call' = [p \in Callers |-> Idle]
  /\ UNCHANGED row

LoadStep(p) ==
  \/ LookUp(p) \/ CheckBackoff(p) \/ Ask(p) \/ Answer(p)
  \/ TryFallback(p) \/ FetchFails(p) \/ Arrive(p) \/ Put(p)

Next ==
  \/ \E p \in Callers :
       (\E ys \in Ranges : Begin(p, ys)) \/ Cancel(p) \/ LoadStep(p)
  \/ Tick \/ Restart

Spec == Init /\ [][Next]_vars

-----------------------------------------------------------------------------
(* Fairness: the loop scans on, a goroutine in a call proceeds, time passes. *)

Fairness ==
  /\ WF_vars(Tick)
  /\ \A ys \in Ranges : SF_vars(Begin(Scan, ys))
  /\ \A p \in Callers : WF_vars(LoadStep(p))

FairSpec == Spec /\ Fairness

-----------------------------------------------------------------------------
(* Properties.                                                             *)

\* Every variable holds a value of its kind.
TypeOK ==
  /\ row \in [Years -> Payload \cup {None}]
  /\ rest \in [Years -> 0 .. FailBackoff]
  /\ call \in [Callers -> CallState]
  /\ faults \in Nat
  /\ tries \in [Years -> Nat]

\* FetchedAt can be trusted: whichever of several concurrent refreshes wrote the
\* row last, its holidays left the source at most Timeout before the time it
\* claims.
HonestRow ==
  \A y \in Years : row[y] # None /\ row[y].age < Freshness => row[y].old <= row[y].age + Timeout

\* "If refetch fails -> use the stale cache": a year that had a readable row when
\* the call began is never left out of its result, whatever fails afterwards.
CacheNeverForgotten ==
  \A p \in Callers : call[p].pc = "done" => \A y \in call[p].owed : call[p].out[y] # None

\* Only a year whose refresh was refused or failed is served with holidays older
\* than a day (plus the flight of the answer that brought them).
OldOnlyWhenFailing ==
  \A p \in Callers, y \in Years :
    call[p].out[y] # None /\ y \notin call[p].worse => call[p].out[y] <= Freshness + Timeout

\* A source that is down is spared: in one backoff of a year every caller but the
\* one that marked it begins at most one fetch, those that had looked before the
\* mark was set.
SourceSpared == \A y \in Years : tries[y] < Cardinality(Callers)

\* The negative cache heals: once failures end, the year has a fresh row again
\* and again, although late failures of slow calls may undo an early success.
Refreshed == \A y \in Years : (\E ys \in Ranges : y \in ys[1] .. ys[2]) => []<>(Usable(row[y]))

\* cached.go: "Remote failures are recorded": a year is put into backoff only by
\* a caller whose own context was alive.
OnlyRemoteFailures ==
  [][(\E y \in Years : rest'[y] > rest[y]) =>
       \E p \in Callers : call[p].ctx /\ call'[p] # call[p]]_vars
=============================================================================
