---------------------------- MODULE PluginValues ----------------------------
(***************************************************************************)
(* What the plugin host promises about the values plugins set for their    *)
(* keys (plugins/deck_queue.rs): a slow deck may skip values, but it only  *)
(* moves on to the latest one, and it never shows a value from before a    *)
(* plugin was cleared once it shows one from after.                        *)
(***************************************************************************)
CONSTANTS Plugins, Keys, Values, Unset

VARIABLES
  said,       \* what each plugin last set, Unset once it is cleared
  seen,       \* what the deck was told
  forgetting  \* plugins the deck has yet to be told were cleared

Slots == Plugins \X Keys

Blank == [s \in Slots |-> Unset]

\* `view` without the values of plugin `p`.
Without(view, p) == [s \in Slots |-> IF s[1] = p THEN Unset ELSE view[s]]

Init ==
  /\ said = Blank
  /\ seen = Blank
  /\ forgetting = {}

\* A plugin sets a value.
Say(s, v) ==
  /\ said' = [said EXCEPT ![s] = v]
  /\ UNCHANGED <<seen, forgetting>>

\* A plugin's values are gone: it stopped.
Clear(p) ==
  /\ said' = Without(said, p)
  /\ forgetting' = forgetting \cup {p}
  /\ UNCHANGED seen

\* The deck is told a value: the latest one, and none before the clear.
Show(s) ==
  /\ s[1] \notin forgetting
  /\ said[s] # Unset
  /\ seen' = [seen EXCEPT ![s] = said[s]]
  /\ UNCHANGED <<said, forgetting>>

\* The deck is told a plugin was cleared; it may be told more than once.
Forget(p) ==
  /\ p \in forgetting
  /\ seen' = Without(seen, p)
  /\ forgetting' \in {forgetting, forgetting \ {p}}
  /\ UNCHANGED said

Next ==
  \/ \E s \in Slots : Show(s) \/ \E v \in Values : Say(s, v)
  \/ \E p \in Plugins : Clear(p) \/ Forget(p)

Spec == Init /\ [][Next]_<<said, seen, forgetting>>

=============================================================================
