---------------------------- MODULE MCWebEditors ----------------------------
(***************************************************************************)
(* The three editors of the web client for TLC.  They share no state: one  *)
(* of them is at work in each behaviour, the others rest as they began.    *)
(***************************************************************************)
EXTENDS MCOccasionPrefsEditor, MCContactPrefs, SettingsEditors

CONSTANTS unset, fallback, other

VARIABLE desk         \* the editor at work

Desks == {"occasion", "contact", "settings"}

EditorsInit ==
  /\ desk \in Desks
  /\ Init /\ PrefsInit /\ SettingsInit
  /\ desk = "occasion" \/ stored = (CHOOSE r \in Row : TRUE)
  /\ desk = "settings" \/ document = DefaultDocument

EditorsNext ==
  \/ desk = "occasion" /\ Next /\ UNCHANGED <<contactVars, settingsVars>>
  \/ desk = "contact" /\ PrefsNext /\ UNCHANGED <<vars, settingsVars>>
  \/ desk = "settings" /\ SettingsNext /\ UNCHANGED <<vars, contactVars>>

EditorsSpec ==
  EditorsInit /\ [][EditorsNext /\ desk' = desk]_<<desk, vars, contactVars, settingsVars>>
=============================================================================
