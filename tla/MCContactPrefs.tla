--------------------------- MODULE MCContactPrefs ---------------------------
(* Instances of ContactPrefs for TLC: a contact that selects one of two     *)
(* channels, paused (its page can activate it) or active.                   *)
EXTENDS ContactPrefs

CONSTANTS phone, mail, inherit, ahead

MCFirstPrefs == [offsets |-> inherit, channels |-> {phone}, enabled |-> FALSE]
MCActivePrefs == [MCFirstPrefs EXCEPT !.enabled = TRUE]
=============================================================================
