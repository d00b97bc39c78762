--------------------------- MODULE ReminderLedger ---------------------------
(***************************************************************************)
(* What the reminder engine promises about one (reminder, channel) pair,   *)
(* with no scan, lock, backoff or clock in sight.  Every pair has a row    *)
(* that is decided at most once, and a count of the pushes the recipient   *)
(* received.  A push beyond the first is allowed only against a licence,   *)
(* granted when the engine could not learn that an earlier push happened.  *)
(***************************************************************************)
EXTENDS Naturals

CONSTANT Keys          \* the (reminder, channel) pairs

VARIABLES
  row,                 \* "none" | "sent" | "missed" | "withdrawn"
  pushes,              \* pushes the recipient of the pair received
  licence              \* how many of them may be repeats

ledgerVars == <<row, pushes, licence>>

LedgerInit ==
  /\ row = [k \in Keys |-> "none"]
  /\ pushes = [k \in Keys |-> 0]
  /\ licence = [k \in Keys |-> 0]

\* A push of an undecided pair, or of one whose channel or occasion is gone.
Push(k) ==
  /\ \/ row[k] = "none" /\ pushes[k] <= licence[k]
     \/ row[k] = "withdrawn"
  /\ pushes' = [pushes EXCEPT ![k] = @ + 1]
  /\ UNCHANGED <<row, licence>>

\* A push that pays for itself: its outcome never reached the engine, or it
\* was made although the pair was decided because the row could not be read.
LicensedPush(k) ==
  /\ pushes' = [pushes EXCEPT ![k] = @ + 1]
  /\ licence' = [licence EXCEPT ![k] = @ + 1]
  /\ row[k] # "none" \/ pushes[k] <= licence[k]
  /\ UNCHANGED row

\* The trace of an earlier push is lost before it reaches the row.
LoseTrace(S) ==
  /\ licence' = [k \in Keys |-> IF k \in S THEN licence[k] + 1 ELSE licence[k]]
  /\ UNCHANGED <<row, pushes>>

Decide(k) ==
  /\ row[k] = "none"
  /\ \/ pushes[k] > 0 /\ row' = [row EXCEPT ![k] = "sent"]
     \/ pushes[k] <= licence[k] /\ row' = [row EXCEPT ![k] = "missed"]
  /\ UNCHANGED <<pushes, licence>>

\* The channel or the occasion is deleted: its pairs lose their rows.
Withdraw(S) ==
  /\ row' = [k \in Keys |-> IF k \in S THEN "withdrawn" ELSE row[k]]
  /\ UNCHANGED <<pushes, licence>>

LedgerNext ==
  \/ \E k \in Keys : Push(k) \/ LicensedPush(k) \/ Decide(k)
  \/ \E S \in SUBSET Keys : LoseTrace(S) \/ Withdraw(S)

LedgerSpec == LedgerInit /\ [][LedgerNext]_ledgerVars
=============================================================================
