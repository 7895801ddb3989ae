------------------------------ MODULE MCService ------------------------------
(***************************************************************************)
(* What the service saves for its clients, for TLC: settings.toml          *)
(* (Settings) and the profiles (ProfileSync).  Neither reads or writes     *)
(* what the other does, so each is explored on its own: a behaviour is one *)
(* of the part that `part` names, and the other stays as it starts.        *)
(***************************************************************************)
EXTENDS Settings

CONSTANTS Profiles, MaxEdits, MaxTurns   \* of ProfileSync

VARIABLES
  part,
  \* ProfileSync
  up, turns, profiles, revision, import, open, text, edits,
  pending, due, returned, seen, opening, save, made, told, gone, risked

P == INSTANCE ProfileSync WITH disk <- profiles

ASSUME ProfilesAssumption ==
  /\ None \notin Profiles \cup P!Queued
  /\ MaxEdits \in Nat /\ MaxTurns \in Nat

settings == vars
profileStore ==
  <<up, turns, profiles, revision, import, open, text, edits,
    pending, due, returned, seen, opening, save, made, told, gone, risked>>

\* Every initial state of Settings, and one of ProfileSync, whose profiles are
\* alike.
ServiceInit ==
  /\ part \in {"settings", "profiles"}
  /\ Init /\ P!Init
  /\ open = CHOOSE p \in Profiles : TRUE
  /\ part # "settings" => said = "off" /\ file.plain = None

InSettings == part = "settings" /\ Next /\ UNCHANGED <<part, profileStore>>
InProfiles == part = "profiles" /\ P!Next /\ UNCHANGED <<part, settings>>

ServiceSpec ==
  /\ ServiceInit /\ [][InSettings \/ InProfiles]_<<part, settings, profileStore>>
  /\ P!Fairness

\* ProfileSync: every edit is on the disk once nothing waits to be saved, or
\* the user was told that it is not, or an import replaced it, or the app put it
\* at risk.
NothingLost == P!NothingLost
\* ProfileSync: no save takes an edit off the disk that an earlier one put there,
\* but one that the app put at risk or an import replaced.
NewestWins == P!NewestWins
\* ProfileSync: what is queued in the app is sent in the end.
PendingIsSent == P!PendingIsSent
=============================================================================
