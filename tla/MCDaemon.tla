------------------------------ MODULE MCDaemon ------------------------------
(***************************************************************************)
(* Two tasks of the daemon beside the deck actor, for TLC: the one that    *)
(* looks for the deck (HotPlug) and the one that looks for a new version   *)
(* (Updates).  They share no state: a behaviour is one of the part that    *)
(* `part` names, and the other stays as it starts.                         *)
(***************************************************************************)
EXTENDS HotPlug

CONSTANTS Newest, MaxCalls, MaxStops, MaxInstalls   \* Updates

ASSUME NewestAssumption == Newest \in Nat \ {0}

VARIABLES
  part,
  latest, current, highest, memory, calls, dismissed, folder, fetching, swap,
  beside, image, used

U == INSTANCE Updates

hotplug == vars
updates ==
  <<latest, current, highest, memory, calls, dismissed, folder, fetching, swap,
    beside, image, used>>

\* Every initial state of the part that moves, one of the other.
DaemonInit ==
  /\ part \in {"hotplug", "updates"}
  /\ Init /\ U!Init
  /\ part = "updates" => node = "not_found"

InHotPlug == part = "hotplug" /\ Next /\ UNCHANGED <<part, updates>>
InUpdates == part = "updates" /\ U!Next /\ UNCHANGED <<part, hotplug>>

DaemonSpec ==
  /\ DaemonInit /\ [][InHotPlug \/ InUpdates]_<<part, hotplug, updates>>
  /\ part = "hotplug" => Fairness
  /\ part = "updates" => U!Fairness

\* Updates: a release newer than all that ran here comes to be offered.
NewComesUp == U!NewComesUp
\* Updates: the AppImage is a whole version at every moment.
ImageIsWhole == U!ImageIsWhole
=============================================================================
